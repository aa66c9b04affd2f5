---------------------------- MODULE PureLawsProofs ----------------------------
(***************************************************************************)
(* The functions of the packages that keep no state do what they are to    *)
(* do, for every input: strings, ranges, keys, networks and addresses;     *)
(* coins and offers; deployments and the calls of what was deployed;       *)
(* maintenance with compact-js; arguments by their types; a private state  *)
(* provider in memory.                                                     *)
(***************************************************************************)
EXTENDS PureLaws, FiniteSetTheorems, SequenceTheorems, WellFoundedInduction, TLAPS

-----------------------------------------------------------------------------
(* Folds over a sequence *)

(* Induction, for a set of numbers. *)
LEMMA AllNumbers ==
  ASSUME NEW T \in SUBSET Nat, 0 \in T, \A k \in T : k + 1 \in T
  PROVE  T = Nat
<1> DEFINE R == OpToRel(<, Nat)
           U == Nat \ T
<1>1. IsWellFoundedOn(R, Nat)
  BY NatLessThanWellFounded
<1>2. \A m, n \in Nat : m < n => <<m, n>> \in R
  BY DEF OpToRel
<1>3. U \subseteq Nat
  OBVIOUS
<1>4. ASSUME U # {}
      PROVE  FALSE
  <2> HIDE DEF R, U
  <2>1. PICK n \in U : \A m \in U : ~(<<m, n>> \in R)
    BY <1>1, <1>3, <1>4, WFMin, Zenon
  <2>2. n \in Nat /\ n \notin T
    BY DEF U
  <2>3. n # 0 /\ n - 1 \in Nat /\ n - 1 < n /\ (n - 1) + 1 = n
    BY <2>2
  <2>4. n - 1 \notin U
    BY <1>2, <2>1, <2>2, <2>3, Zenon
  <2>5. n - 1 \in T
    BY <2>3, <2>4 DEF U
  <2>6. (n - 1) + 1 \in T
    BY <2>5
  <2> QED
    BY <2>2, <2>3, <2>6
<1> QED
  BY <1>4

LEMMA LargestOf ==
  ASSUME NEW S \in SUBSET Int, NEW m \in S, \A i \in S : i <= m
  PROVE  Max(S) = m
<1>1. \A x \in S : (\A y \in S : x >= y) => x = m
  OBVIOUS
<1>2. \A y \in S : m >= y
  OBVIOUS
<1> QED
  BY <1>1, <1>2 DEF Max

LEMMA LastOf ==
  ASSUME NEW n \in Nat, NEW k \in 1..n
  PROVE  1..k \in SUBSET (1..n) /\ 1..k # {} /\ Max(1..k) = k /\ (1..k) \ {k} = 1..(k - 1)
<1>1. k \in 1..k /\ 1..k \in SUBSET Int /\ \A i \in 1..k : i <= k
  OBVIOUS
<1>2. Max(1..k) = k
  BY <1>1, LargestOf
<1>3. \A i \in 1..k : i \in 1..n
  OBVIOUS
<1>4. \A i : i \in 1..(k - 1) <=> i \in 1..k /\ i # k
  OBVIOUS
<1> QED
  BY <1>1, <1>2, <1>3, <1>4

(* What the folds of this project do with one element. *)
Step(fold, value, element) ==
  CASE fold = "spend"   -> SpendInput(value, element)
    [] fold = "perform" -> Perform(value, element)
    [] fold = "digits"  -> 10 * value + (CHOOSE d \in 0..9 : Digits[d + 1] = element)

(* The function that a fold over the first k elements of a sequence builds on
   the sets of their places. *)
Folds(fold, f, k, base, s) ==
  f = [t \in SUBSET (1..k) |-> IF t = {} THEN base ELSE Step(fold, f[t \ {Max(t)}], s[Max(t)])]

LEMMA FoldExists ==
  ASSUME NEW fold, NEW base, NEW s
  PROVE  \A n \in Nat : \E f : Folds(fold, f, n, base, s)
<1> DEFINE T == {k \in Nat : \E f : Folds(fold, f, k, base, s)}
<1>1. 0 \in T
  <2>1. \A t \in SUBSET (1..0) : t = {}
    OBVIOUS
  <2> DEFINE f == [t \in SUBSET (1..0) |-> base]
  <2>2. f = [t \in SUBSET (1..0) |-> IF t = {} THEN base ELSE Step(fold, f[t \ {Max(t)}], s[Max(t)])]
    BY <2>1
  <2> QED
    BY <2>2 DEF Folds
<1>2. ASSUME NEW k \in T
      PROVE  k + 1 \in T
  <2>1. PICK f : Folds(fold, f, k, base, s)
    OBVIOUS
  <2> DEFINE g == [t \in SUBSET (1..(k + 1)) |->
                     IF k + 1 \in t THEN Step(fold, f[t \ {k + 1}], s[k + 1]) ELSE f[t]]
             h == [t \in SUBSET (1..(k + 1)) |->
                     IF t = {} THEN base ELSE Step(fold, g[t \ {Max(t)}], s[Max(t)])]
  <2>2. ASSUME NEW t \in SUBSET (1..(k + 1))
        PROVE  g[t] = h[t]
    <3>1. k \in Nat
      OBVIOUS
    <3>2. CASE k + 1 \in t
      <4>1. Max(t) = k + 1
        <5>1. \A i \in t : i <= k + 1
          BY <3>1
        <5>2. t \in SUBSET Int
          BY <3>1
        <5> QED
          BY <3>2, <5>1, <5>2, LargestOf
      <4>2. t # {} /\ t \ {k + 1} \in SUBSET (1..(k + 1)) /\ k + 1 \notin t \ {k + 1}
        BY <3>2
      <4>3. g[t \ {k + 1}] = f[t \ {k + 1}]
        BY <4>2
      <4> QED
        BY <3>2, <4>1, <4>2, <4>3
    <3>3. CASE k + 1 \notin t
      <4>1. t \in SUBSET (1..k)
        BY <3>1, <3>3
      <4>2. f[t] = IF t = {} THEN base ELSE Step(fold, f[t \ {Max(t)}], s[Max(t)])
        <5> DEFINE d == [u \in SUBSET (1..k) |-> IF u = {} THEN base ELSE Step(fold, f[u \ {Max(u)}], s[Max(u)])]
        <5>1. f = d
          BY <2>1 DEF Folds
        <5>2. d[t] = IF t = {} THEN base ELSE Step(fold, f[t \ {Max(t)}], s[Max(t)])
          BY <4>1
        <5> HIDE DEF d
        <5> QED
          BY <5>1, <5>2, Zenon
      <4>3. t \ {Max(t)} \in SUBSET (1..(k + 1)) /\ k + 1 \notin t \ {Max(t)}
        BY <3>3
      <4>4. g[t \ {Max(t)}] = f[t \ {Max(t)}]
        BY <4>3
      <4> QED
        BY <3>3, <4>2, <4>4
    <3> QED
      BY <3>2, <3>3
  <2>3. g = h
    <3>1. DOMAIN g = SUBSET (1..(k + 1)) /\ DOMAIN h = SUBSET (1..(k + 1))
      OBVIOUS
    <3>2. g = [t \in SUBSET (1..(k + 1)) |-> g[t]] /\ h = [t \in SUBSET (1..(k + 1)) |-> h[t]]
      OBVIOUS
    <3> HIDE DEF g, h
    <3> QED
      BY <2>2, <3>2
  <2>4. Folds(fold, g, k + 1, base, s)
    <3> HIDE DEF g
    <3> QED
      BY <2>3 DEF Folds
  <2> QED
    BY <2>4
<1> HIDE DEF T
<1>3. T \in SUBSET Nat
  BY DEF T
<1>4. T = Nat
  BY <1>1, <1>2, <1>3, AllNumbers
<1> QED
  BY <1>4 DEF T

(* One element after the other. *)
Steps(fold, h, base, s, n) == h[0] = base /\ \A k \in 1..n : h[k] = Step(fold, h[k - 1], s[k])

LEMMA FoldSteps ==
  ASSUME NEW fold, NEW base, NEW s, NEW n \in Nat, NEW f, Folds(fold, f, n, base, s)
  PROVE  \E h : Steps(fold, h, base, s, n) /\ f[1..n] = h[n]
<1> DEFINE d == [u \in SUBSET (1..n) |-> IF u = {} THEN base ELSE Step(fold, f[u \ {Max(u)}], s[Max(u)])]
           h == [k \in 0..n |-> f[1..k]]
<1>3. \A t \in SUBSET (1..n) :
        f[t] = IF t = {} THEN base ELSE Step(fold, f[t \ {Max(t)}], s[Max(t)])
  <2>1. f = d
    BY DEF Folds
  <2>2. \A t \in SUBSET (1..n) : d[t] = IF t = {} THEN base ELSE Step(fold, f[t \ {Max(t)}], s[Max(t)])
    OBVIOUS
  <2> HIDE DEF d
  <2> QED
    BY <2>1, <2>2, Zenon
<1>4. f[1..0] = base
  <2>1. 1..0 = {} /\ 1..0 \in SUBSET (1..n)
    OBVIOUS
  <2> QED
    BY <1>3, <2>1
<1>5. ASSUME NEW k \in 1..n
      PROVE  f[1..k] = Step(fold, f[1..(k - 1)], s[k])
  <2>1. 1..k \in SUBSET (1..n) /\ 1..k # {} /\ Max(1..k) = k /\ (1..k) \ {k} = 1..(k - 1)
    BY LastOf
  <2> QED
    BY <1>3, <2>1
<1>6. /\ h[0] = f[1..0] /\ h[n] = f[1..n]
      /\ \A k \in 1..n : h[k] = f[1..k] /\ h[k - 1] = f[1..(k - 1)]
  OBVIOUS
<1> HIDE DEF h
<1>7. Steps(fold, h, base, s, n) /\ f[1..n] = h[n]
  BY <1>4, <1>5, <1>6 DEF Steps
<1> QED
  BY <1>7

(* The steps from one base to its fold are determined. *)
LEMMA StepsAgree ==
  ASSUME NEW fold, NEW base, NEW s, NEW n \in Nat, NEW g, NEW h,
         Steps(fold, g, base, s, n), Steps(fold, h, base, s, n)
  PROVE  g[n] = h[n]
<1> DEFINE T == {k \in Nat : k <= n => g[k] = h[k]}
<1>2. 0 \in T
  BY DEF Steps
<1>3. ASSUME NEW k \in T
      PROVE  k + 1 \in T
  <2> SUFFICES ASSUME k + 1 <= n
               PROVE  g[k + 1] = h[k + 1]
    OBVIOUS
  <2>1. k + 1 \in 1..n /\ (k + 1) - 1 = k /\ g[k] = h[k]
    OBVIOUS
  <2> QED
    BY <2>1 DEF Steps
<1> HIDE DEF T
<1>4. T = Nat
  <2>1. T \in SUBSET Nat
    BY DEF T
  <2> QED
    BY <1>2, <1>3, <2>1, AllNumbers
<1> QED
  BY <1>4 DEF T

(* What each element keeps, all of them keep. *)
LEMMA StepsKeep ==
  ASSUME NEW fold, NEW base, NEW s, NEW n \in Nat, NEW g, Steps(fold, g, base, s, n),
         NEW S, base \in S, \A m \in S, i \in 1..n : Step(fold, m, s[i]) \in S
  PROVE  g[n] \in S
<1> DEFINE T == {k \in Nat : k <= n => g[k] \in S}
<1>2. 0 \in T
  BY DEF Steps
<1>3. ASSUME NEW k \in T
      PROVE  k + 1 \in T
  <2> SUFFICES ASSUME k + 1 <= n
               PROVE  g[k + 1] \in S
    OBVIOUS
  <2>1. k + 1 \in 1..n /\ (k + 1) - 1 = k /\ g[k] \in S
    OBVIOUS
  <2>2. g[k + 1] = Step(fold, g[k], s[k + 1])
    BY <2>1 DEF Steps
  <2> QED
    BY <2>1, <2>2
<1> HIDE DEF T
<1>4. T = Nat
  <2>1. T \in SUBSET Nat
    BY DEF T
  <2> QED
    BY <1>2, <1>3, <2>1, AllNumbers
<1> QED
  BY <1>4 DEF T

(* All inputs of a local state are spent, one after the other. *)
SpendAll(base, s) == FoldLeft(SpendInput, base, s)

LEMMA SpendSteps ==
  ASSUME NEW base, NEW s, NEW n \in Nat, DOMAIN s = 1..n
  PROVE  \E h : Steps("spend", h, base, s, n) /\ SpendAll(base, s) = h[n]
<1> DEFINE built(f) == f = [t \in SUBSET (1..n) |->
                              IF t = {} THEN base ELSE SpendInput(f[t \ {Max(t)}], s[Max(t)])]
           f == CHOOSE g : built(g)
<1>1. SpendAll(base, s) = f[1..n]
  BY DEF SpendAll, FoldLeft, MapThenFoldSet
<1>2. \A v, e : Step("spend", v, e) = SpendInput(v, e)
  BY DEF Step
<1>3. \A g : Folds("spend", g, n, base, s) <=> built(g)
  BY <1>2 DEF Folds
<1>4. \E g : built(g)
  BY <1>3, FoldExists
<1> HIDE DEF built
<1>5. built(f)
  BY <1>4
<1>6. Folds("spend", f, n, base, s)
  BY <1>3, <1>5
<1> HIDE DEF f
<1> QED
  BY <1>1, <1>6, FoldSteps

LEMMA FoldIs ==
  ASSUME NEW base, NEW s, NEW n \in Nat, DOMAIN s = 1..n, NEW h,
         h[0] = base, \A k \in 1..n : h[k] = SpendInput(h[k - 1], s[k])
  PROVE  SpendAll(base, s) = h[n]
<1>1. Steps("spend", h, base, s, n)
  BY DEF Steps, Step
<1> QED
  BY <1>1, SpendSteps, StepsAgree

(* What each input keeps of the maps, all of the inputs keep. *)
LEMMA FoldKeeps ==
  ASSUME NEW base, NEW s, NEW n \in Nat, DOMAIN s = 1..n, NEW S, base \in S,
         \A m \in S, i \in 1..n : SpendInput(m, s[i]) \in S
  PROVE  SpendAll(base, s) \in S
<1>1. \A m \in S, i \in 1..n : Step("spend", m, s[i]) \in S
  BY DEF Step
<1> QED
  BY <1>1, SpendSteps, StepsKeep

-----------------------------------------------------------------------------

(* A serialized coin is read back as it was. *)
LEMMA CoinReadBack ==
  ASSUME NEW Value, NEW c \in [CoinInfo -> Value]
  PROVE  DeserializeCoinInfo(SerializeCoinInfo(c)) = c
<1>1. SerializeCoinInfo(c) = {<<k, c[k]>> : k \in CoinInfo}
  BY DEF SerializeCoinInfo, CheckKeys
<1>2. ASSUME NEW k \in CoinInfo
      PROVE  (CHOOSE pair \in SerializeCoinInfo(c) : pair[1] = k)[2] = c[k]
  <2>1. <<k, c[k]>> \in SerializeCoinInfo(c) /\ <<k, c[k]>>[1] = k
    BY <1>1
  <2>2. \A pair \in SerializeCoinInfo(c) : pair[1] = k => pair[2] = c[k]
    BY <1>1
  <2> QED
    BY <2>1, <2>2
<1>3. DeserializeCoinInfo(SerializeCoinInfo(c)) = [k \in CoinInfo |-> c[k]]
  BY <1>2 DEF DeserializeCoinInfo
<1> QED
  BY <1>3

(* The local state of a circuit: the coins it created, each with a recipient,
   and those it spent. *)
Coins(Value) == [CoinInfo -> Value]
Recipient(Value) == [is_left : BOOLEAN, left : Value, right : Value]
Output(Value) == [coinInfo : Coins(Value), recipient : Recipient(Value)]
Input(Value) == [CoinInfo \cup {"mt_index"} -> Value]
ZswapState(Value) == [outputs : Seq(Output(Value)), inputs : Seq(Input(Value))]

SpentCoin(q) == [k \in CoinInfo |-> q[k]]
Created(state) == {o.coinInfo : o \in ToSet(state.outputs)}
Spent(state) == {SpentCoin(q) : q \in ToSet(state.inputs)}
Serialized(coins) == {SerializeCoinInfo(c) : c \in coins}

LEMMA ElementsOf ==
  ASSUME NEW E, NEW s \in Seq(E)
  PROVE  /\ Len(s) \in Nat
         /\ DOMAIN s = 1..Len(s)
         /\ \A i \in 1..Len(s) : s[i] \in E
         /\ ToSet(s) = {s[i] : i \in 1..Len(s)}
         /\ ToSet(s) \subseteq E
  BY DEF ToSet

LEMMA SpentKey ==
  ASSUME NEW Value, NEW q \in Input(Value)
  PROVE  /\ SpentCoin(q) \in Coins(Value)
         /\ SerializeQualifiedCoinInfo(q) = SerializeCoinInfo(SpentCoin(q))
<1>1. (CoinInfo \cup {"mt_index"}) \ {"mt_index"} = CoinInfo
  BY DEF CoinInfo
<1>2. DOMAIN q = CoinInfo \cup {"mt_index"}
  BY DEF Input
<1>3. [k \in DOMAIN q \ {"mt_index"} |-> q[k]] = SpentCoin(q)
  BY <1>1, <1>2 DEF SpentCoin
<1>4. SpentCoin(q) \in Coins(Value)
  BY DEF SpentCoin, Coins, Input
<1> QED
  BY <1>3, <1>4 DEF SerializeQualifiedCoinInfo

(* What a set of serialized coins is read back as. *)
LEMMA ReadBack ==
  ASSUME NEW Value, NEW A \in SUBSET Coins(Value), NEW B \in SUBSET Coins(Value)
  PROVE  /\ {DeserializeCoinInfo(x) : x \in Serialized(A) \cap Serialized(B)} = A \cap B
         /\ {DeserializeCoinInfo(x) : x \in Serialized(A) \ Serialized(B)} = A \ B
         /\ Serialized(A) \ Serialized(B) = {} <=> A \subseteq B
<1>1. \A c \in Coins(Value) : DeserializeCoinInfo(SerializeCoinInfo(c)) = c
  BY CoinReadBack DEF Coins
<1>2. \A c \in Coins(Value), D \in SUBSET Coins(Value) :
        SerializeCoinInfo(c) \in Serialized(D) <=> c \in D
  BY <1>1 DEF Serialized
<1>3. \A x \in Serialized(A) : DeserializeCoinInfo(x) \in A /\ x = SerializeCoinInfo(DeserializeCoinInfo(x))
  BY <1>1 DEF Serialized
<1>4. \A c \in A : SerializeCoinInfo(c) \in Serialized(A)
  BY DEF Serialized
<1> QED
  BY <1>1, <1>2, <1>3, <1>4

(* The maps of zswapStateToOffer, for the keys of the coins that were created
   and the keys of those spent so far, and what one more input makes of them. *)
Maps(created, spent) ==
  [inputs |-> spent \ created, transients |-> spent \cap created, outputs |-> created \ spent]

LEMMA InputSpent ==
  ASSUME NEW O, NEW K, NEW q, NEW x, x = SerializeQualifiedCoinInfo(q), x \notin K
  PROVE  SpendInput(Maps(O, K), q) = Maps(O, K \cup {x})
<1>1. SpendInput(Maps(O, K), q)
        = IF x \in O \ K THEN Spend(Maps(O, K), x) ELSE [Maps(O, K) EXCEPT !.inputs = @ \cup {x}]
  BY DEF SpendInput, Maps
<1>2. CASE x \in O
  <2>1. Maps(O, K \cup {x}) = [inputs |-> K \ O, transients |-> (K \cap O) \cup {x}, outputs |-> (O \ K) \ {x}]
    <3>1. (K \cup {x}) \ O = K \ O /\ (K \cup {x}) \cap O = (K \cap O) \cup {x}
            /\ O \ (K \cup {x}) = (O \ K) \ {x}
      BY <1>2
    <3> QED
      BY <3>1, Zenon DEF Maps
  <2>2. ASSUME NEW i, NEW t, NEW o
        PROVE  Spend([inputs |-> i, transients |-> t, outputs |-> o], x)
                 = [inputs |-> i, transients |-> t \cup {x}, outputs |-> o \ {x}]
    <3> DEFINE r == [inputs |-> i, transients |-> t, outputs |-> o]
               u == Spend(r, x)
               w == [inputs |-> i, transients |-> t \cup {x}, outputs |-> o \ {x}]
    <3>1. DOMAIN r = {"inputs", "transients", "outputs"} /\ r.transients = t /\ r.outputs = o /\ r.inputs = i
      OBVIOUS
    <3> HIDE DEF r
    <3>2. u = [[r EXCEPT !.transients = r.transients \cup {x}] EXCEPT !.outputs = r.outputs \ {x}]
      BY DEF Spend
    <3>3. DOMAIN u = DOMAIN r /\ u.transients = t \cup {x} /\ u.outputs = o \ {x} /\ u.inputs = i
            /\ u = [f \in DOMAIN r |-> u[f]]
      BY <3>1, <3>2
    <3>4. DOMAIN w = {"inputs", "transients", "outputs"} /\ w.transients = t \cup {x} /\ w.outputs = o \ {x}
            /\ w.inputs = i /\ w = [f \in DOMAIN w |-> w[f]]
      OBVIOUS
    <3> HIDE DEF u, w
    <3>5. u = w
      BY <3>1, <3>3, <3>4
    <3> QED
      BY <3>5 DEF u, w, r
  <2>3. Spend(Maps(O, K), x) = [inputs |-> K \ O, transients |-> (K \cap O) \cup {x}, outputs |-> (O \ K) \ {x}]
    <3>1. Maps(O, K) = [inputs |-> K \ O, transients |-> K \cap O, outputs |-> O \ K]
      BY DEF Maps
    <3> QED
      BY <2>2, <3>1
  <2> QED
    BY <1>1, <1>2, <2>1, <2>3
<1>3. CASE x \notin O
  <2>1. Maps(O, K \cup {x}) = [inputs |-> (K \ O) \cup {x}, transients |-> K \cap O, outputs |-> O \ K]
    <3>1. (K \cup {x}) \ O = (K \ O) \cup {x} /\ (K \cup {x}) \cap O = K \cap O
            /\ O \ (K \cup {x}) = O \ K
      BY <1>3
    <3> QED
      BY <3>1, Zenon DEF Maps
  <2>2. ASSUME NEW i, NEW t, NEW o
        PROVE  [[inputs |-> i, transients |-> t, outputs |-> o] EXCEPT !.inputs = @ \cup {x}]
                 = [inputs |-> i \cup {x}, transients |-> t, outputs |-> o]
    OBVIOUS
  <2>3. [Maps(O, K) EXCEPT !.inputs = @ \cup {x}]
          = [inputs |-> (K \ O) \cup {x}, transients |-> K \cap O, outputs |-> O \ K]
    <3>1. Maps(O, K) = [inputs |-> K \ O, transients |-> K \cap O, outputs |-> O \ K]
      BY DEF Maps
    <3> QED
      BY <2>2, <3>1
  <2> QED
    BY <1>1, <1>3, <2>1, <2>3
<1> QED
  BY <1>2, <1>3

(* After all of the inputs, for coins that are distinct. *)
LEMMA InputsSpent ==
  ASSUME NEW O, NEW n \in Nat, NEW s, DOMAIN s = 1..n, NEW key,
         \A i \in 1..n : key[i] = SerializeQualifiedCoinInfo(s[i]),
         \A i, j \in 1..n : i # j => key[i] # key[j]
  PROVE  SpendAll(Maps(O, {}), s) = Maps(O, {key[i] : i \in 1..n})
<1> DEFINE first == [k \in 0..n |-> {key[i] : i \in 1..k}]
           h == [k \in 0..n |-> Maps(O, first[k])]
<1>1. h[0] = Maps(O, {})
  OBVIOUS
<1>2. ASSUME NEW k \in 1..n
      PROVE  h[k] = SpendInput(h[k - 1], s[k])
  <2>1. k - 1 \in 0..n /\ k \in 0..n
    OBVIOUS
  <2>2. h[k - 1] = Maps(O, first[k - 1]) /\ h[k] = Maps(O, first[k])
    BY <2>1
  <2>3. first[k] = first[k - 1] \cup {key[k]}
    <3>1. \A i : i \in 1..k <=> i \in 1..(k - 1) \/ i = k
      OBVIOUS
    <3> QED
      BY <2>1, <3>1
  <2>4. key[k] \notin first[k - 1]
    <3>1. \A i \in 1..(k - 1) : i \in 1..n /\ i # k
      OBVIOUS
    <3> QED
      BY <2>1, <3>1
  <2>5. key[k] = SerializeQualifiedCoinInfo(s[k])
    OBVIOUS
  <2> HIDE DEF first, h
  <2> QED
    BY <2>2, <2>3, <2>4, <2>5, InputSpent
<1>3. h[n] = Maps(O, {key[i] : i \in 1..n})
  OBVIOUS
<1> HIDE DEF h
<1>4. SpendAll(Maps(O, {}), s) = h[n]
  BY <1>1, <1>2, FoldIs
<1> QED
  BY <1>3, <1>4

-----------------------------------------------------------------------------
(* zswapStateToOffer, of coins that are distinct. *)

(* The maps for all of a local state. *)
LEMMA OfferMaps ==
  ASSUME NEW Value, NEW state \in ZswapState(Value),
         LET spent == [i \in DOMAIN state.inputs |-> SpentCoin(state.inputs[i])] IN Distinct(spent)
  PROVE  SpendAll(Maps(Serialized(Created(state)), {}), state.inputs)
           = Maps(Serialized(Created(state)), Serialized(Spent(state)))
<1> DEFINE s == state.inputs
           n == Len(s)
           key == [i \in 1..n |-> SerializeCoinInfo(SpentCoin(s[i]))]
<1>1. /\ n \in Nat /\ DOMAIN s = 1..n
      /\ \A i \in 1..n : s[i] \in Input(Value)
      /\ ToSet(s) = {s[i] : i \in 1..n}
  <2>1. s \in Seq(Input(Value))
    BY DEF ZswapState
  <2> HIDE DEF s
  <2> QED
    BY <2>1, ElementsOf
<1>2. \A i \in 1..n : SpentCoin(s[i]) \in Coins(Value)
                        /\ SerializeQualifiedCoinInfo(s[i]) = SerializeCoinInfo(SpentCoin(s[i]))
  BY <1>1, SpentKey
<1>3. \A i \in 1..n : key[i] = SerializeQualifiedCoinInfo(s[i])
  BY <1>2
<1>4. \A i, j \in 1..n : i # j => key[i] # key[j]
  <2> SUFFICES ASSUME NEW i \in 1..n, NEW j \in 1..n, key[i] = key[j]
               PROVE  i = j
    OBVIOUS
  <2>1. SerializeCoinInfo(SpentCoin(s[i])) = SerializeCoinInfo(SpentCoin(s[j]))
    OBVIOUS
  <2>2. SpentCoin(s[i]) = SpentCoin(s[j])
    BY <1>2, <2>1, CoinReadBack DEF Coins
  <2> QED
    BY <1>1, <2>2 DEF Distinct
<1>5. {key[i] : i \in 1..n} = Serialized(Spent(state))
  <2>1. Spent(state) = {SpentCoin(s[i]) : i \in 1..n}
    BY <1>1 DEF Spent
  <2>2. Serialized({SpentCoin(s[i]) : i \in 1..n}) = {SerializeCoinInfo(SpentCoin(s[i])) : i \in 1..n}
    BY DEF Serialized
  <2> QED
    BY <2>1, <2>2
<1> HIDE DEF s, n, key
<1>6. SpendAll(Maps(Serialized(Created(state)), {}), s)
        = Maps(Serialized(Created(state)), {key[i] : i \in 1..n})
  BY <1>1, <1>3, <1>4, InputsSpent
<1> QED
  BY <1>5, <1>6 DEF s

LEMMA CoinTypes ==
  ASSUME NEW Value, NEW state \in ZswapState(Value)
  PROVE  /\ Created(state) \in SUBSET Coins(Value)
         /\ Spent(state) \in SUBSET Coins(Value)
         /\ \A o \in ToSet(state.outputs) : o.recipient.is_left \in BOOLEAN
<1>1. state.outputs \in Seq(Output(Value)) /\ state.inputs \in Seq(Input(Value))
  BY DEF ZswapState
<1>2. \A q \in ToSet(state.inputs) : SpentCoin(q) \in Coins(Value)
  BY <1>1, ElementsOf, SpentKey
<1>3. \A o \in ToSet(state.outputs) : o \in Output(Value)
  BY <1>1, ElementsOf
<1> QED
  BY <1>2, <1>3 DEF Created, Spent, Output, Recipient

(* The offer in terms of the maps, and of the coins. *)
LEMMA OfferFromMaps ==
  ASSUME NEW state, NEW encryptionKey, NEW chainState
  PROVE  LET m == SpendAll(Maps(Serialized(Created(state)), {}), state.inputs)
             coins(keys) == {DeserializeCoinInfo(x) : x \in keys}
         IN ZswapStateToOffer(state, encryptionKey, chainState)
              = IF m.inputs # {} /\ ~chainState THEN Left
                ELSE [right |-> TRUE, inputs |-> coins(m.inputs), transients |-> coins(m.transients),
                      outputs |-> {u \in {CreateUnprovenOutput(o, encryptionKey) : o \in ToSet(state.outputs)} :
                                     u.coin \in coins(m.outputs)}]
<1> DEFINE O == Serialized(Created(state))
           m == SpendAll(Maps(O, {}), state.inputs)
<1>1. {SerializeCoinInfo(o.coinInfo) : o \in ToSet(state.outputs)} = O
  BY DEF Serialized, Created
<1>2. Maps(O, {}) = [inputs |-> {}, transients |-> {}, outputs |-> O]
  BY DEF Maps
<1>3. FoldLeft(SpendInput, [inputs |-> {}, transients |-> {}, outputs |-> O], state.inputs) = m
  BY <1>2 DEF SpendAll
<1> HIDE DEF O, m
<1>4. FoldLeft(SpendInput, [inputs |-> {}, transients |-> {},
                            outputs |-> {SerializeCoinInfo(o.coinInfo) : o \in ToSet(state.outputs)}],
               state.inputs) = m
  BY <1>1, <1>3
<1> QED
  BY <1>4 DEF ZswapStateToOffer, m, O

LEMMA OfferOf ==
  ASSUME NEW Value, NEW state \in ZswapState(Value), NEW encryptionKey, NEW chainState \in BOOLEAN,
         LET spent == [i \in DOMAIN state.inputs |-> SpentCoin(state.inputs[i])] IN Distinct(spent)
  PROVE  LET in == Spent(state)
             out == Created(state)
         IN ZswapStateToOffer(state, encryptionKey, chainState)
              = IF ~(in \subseteq out) /\ ~chainState THEN Left
                ELSE [right |-> TRUE, inputs |-> in \ out, transients |-> in \cap out,
                      outputs |-> {u \in {CreateUnprovenOutput(o, encryptionKey) : o \in ToSet(state.outputs)} :
                                     u.coin \in out \ in}]
<1> DEFINE O == Serialized(Created(state))
           K == Serialized(Spent(state))
           m == Maps(O, K)
           coins(keys) == {DeserializeCoinInfo(x) : x \in keys}
           made == {CreateUnprovenOutput(o, encryptionKey) : o \in ToSet(state.outputs)}
<1>1. ZswapStateToOffer(state, encryptionKey, chainState)
        = IF m.inputs # {} /\ ~chainState THEN Left
          ELSE [right |-> TRUE, inputs |-> coins(m.inputs), transients |-> coins(m.transients),
                outputs |-> {u \in made : u.coin \in coins(m.outputs)}]
  <2>1. SpendAll(Maps(O, {}), state.inputs) = m
    BY OfferMaps
  <2> HIDE DEF m
  <2> QED
    BY <2>1, OfferFromMaps
<1>2. m.inputs = K \ O /\ m.transients = K \cap O /\ m.outputs = O \ K
  BY DEF Maps
<1>3. /\ coins(K \cap O) = Spent(state) \cap Created(state)
      /\ coins(K \ O) = Spent(state) \ Created(state)
      /\ coins(O \ K) = Created(state) \ Spent(state)
      /\ K \ O = {} <=> Spent(state) \subseteq Created(state)
  BY CoinTypes, ReadBack
<1> HIDE DEF m, coins, O, K, made
<1>4. ZswapStateToOffer(state, encryptionKey, chainState)
        = IF ~(Spent(state) \subseteq Created(state)) /\ ~chainState THEN Left
          ELSE [right |-> TRUE, inputs |-> Spent(state) \ Created(state),
                transients |-> Spent(state) \cap Created(state),
                outputs |-> {u \in made : u.coin \in Created(state) \ Spent(state)}]
  BY <1>1, <1>2, <1>3
<1> QED
  BY <1>4 DEF made

(* For any local state of a circuit: of coins that are distinct each is in the
   offer once, as a transient if it was created and spent, else as an input or
   an output, encrypted if and only if it is for a user; and there is no offer
   only where an input needs the state of the chain and that is not given. *)
THEOREM OfferBalances ==
  ASSUME NEW Value, NEW state \in ZswapState(Value), NEW chainState \in BOOLEAN
  PROVE  OfferLaw(state, chainState)
<1> DEFINE created == [i \in DOMAIN state.outputs |-> state.outputs[i].coinInfo]
           spent == [i \in DOMAIN state.inputs |-> SpentCoin(state.inputs[i])]
           encryption == <<"d", "0">>
           offer == ZswapStateToOffer(state, encryption, chainState)
           in == Spent(state)
           out == Created(state)
           made == {CreateUnprovenOutput(o, encryption) : o \in ToSet(state.outputs)}
<1>1. SUFFICES ASSUME Distinct(created), Distinct(spent)
               PROVE  /\ offer.right <=> chainState \/ in \subseteq out
                      /\ offer.right => /\ offer.transients = in \cap out
                                        /\ offer.inputs = in \ out
                                        /\ {u.coin : u \in offer.outputs} = out \ in
                                        /\ \A u \in offer.outputs, o \in ToSet(state.outputs) :
                                             o.coinInfo = u.coin => (u.key = None <=> ~o.recipient.is_left)
  <2>1. ToSet(created) = out
    <3>1. DOMAIN created = DOMAIN state.outputs
      OBVIOUS
    <3>2. \A i \in DOMAIN created : created[i] = state.outputs[i].coinInfo
      OBVIOUS
    <3> HIDE DEF created
    <3> QED
      BY <3>1, <3>2 DEF ToSet, Created
  <2>2. ToSet(spent) = in
    <3>1. DOMAIN spent = DOMAIN state.inputs
      OBVIOUS
    <3>2. \A i \in DOMAIN spent : spent[i] = SpentCoin(state.inputs[i])
      OBVIOUS
    <3> HIDE DEF spent
    <3> QED
      BY <3>1, <3>2 DEF ToSet, Spent
  <2>3. created = [i \in DOMAIN state.outputs |-> state.outputs[i].coinInfo]
          /\ spent = [i \in DOMAIN state.inputs |-> [k \in CoinInfo |-> state.inputs[i][k]]]
          /\ offer = ZswapStateToOffer(state, <<"d", "0">>, chainState)
    BY DEF SpentCoin
  <2> HIDE DEF created, spent, offer, in, out
  <2> QED
    BY <2>1, <2>2, <2>3, Zenon DEF OfferLaw
<1>2. offer = IF ~(in \subseteq out) /\ ~chainState THEN Left
              ELSE [right |-> TRUE, inputs |-> in \ out, transients |-> in \cap out,
                    outputs |-> {u \in made : u.coin \in out \ in}]
  BY <1>1, OfferOf
<1>3. encryption # None
  <2>1. Len(encryption) = 2 /\ Len(None) = 1
    BY DEF None
  <2> QED
    BY <2>1
<1>4. {u.coin : u \in {v \in made : v.coin \in out \ in}} = out \ in
  <2>1. \A o : CreateUnprovenOutput(o, encryption).coin = o.coinInfo
    BY DEF CreateUnprovenOutput
  <2> QED
    BY <2>1 DEF Created
<1>5. ASSUME NEW o \in ToSet(state.outputs), NEW p \in ToSet(state.outputs), o.coinInfo = p.coinInfo
      PROVE  o = p
  <2>1. PICK i \in DOMAIN state.outputs, j \in DOMAIN state.outputs : o = state.outputs[i] /\ p = state.outputs[j]
    BY DEF ToSet
  <2>2. created[i] = created[j] /\ DOMAIN created = DOMAIN state.outputs
    BY <1>5, <2>1
  <2>3. i = j
    BY <1>1, <2>2 DEF Distinct
  <2> QED
    BY <2>1, <2>3
<1>6. ASSUME NEW u \in made, NEW o \in ToSet(state.outputs), o.coinInfo = u.coin
      PROVE  u.key = None <=> ~o.recipient.is_left
  <2>1. PICK p \in ToSet(state.outputs) : u = CreateUnprovenOutput(p, encryption)
    OBVIOUS
  <2>2. u.coin = p.coinInfo /\ u.key = IF p.recipient.is_left THEN encryption ELSE None
    BY <2>1 DEF CreateUnprovenOutput
  <2>3. o = p
    BY <1>5, <1>6, <2>2
  <2>4. o.recipient.is_left \in BOOLEAN
    BY CoinTypes
  <2> HIDE DEF encryption, made
  <2> QED
    BY <1>3, <2>2, <2>3, <2>4
<1> HIDE DEF created, spent, encryption, made, in, out, offer
<1>7. CASE ~(in \subseteq out) /\ ~chainState
  <2>1. offer = [right |-> FALSE]
    BY <1>2, <1>7 DEF Left
  <2> QED
    BY <1>7, <2>1
<1>8. CASE chainState \/ in \subseteq out
  <2>1. offer = [right |-> TRUE, inputs |-> in \ out, transients |-> in \cap out,
                 outputs |-> {u \in made : u.coin \in out \ in}]
    BY <1>2, <1>8
  <2>2. offer.right /\ offer.inputs = in \ out /\ offer.transients = in \cap out
          /\ offer.outputs = {u \in made : u.coin \in out \ in}
    BY <2>1
  <2> QED
    BY <1>4, <1>6, <1>8, <2>2
<1> QED
  BY <1>7, <1>8

(* A coin that was created is in the offer, whatever was spent, and also if
   coins are alike. *)
LEMMA CreatedOffered ==
  ASSUME NEW Value, NEW state \in ZswapState(Value), NEW encryptionKey, NEW chainState \in BOOLEAN,
         ZswapStateToOffer(state, encryptionKey, chainState).right
  PROVE  LET offer == ZswapStateToOffer(state, encryptionKey, chainState) IN
         /\ Created(state) \subseteq {u.coin : u \in offer.outputs} \cup offer.transients
         /\ offer.outputs \subseteq {CreateUnprovenOutput(o, encryptionKey) : o \in ToSet(state.outputs)}
<1> DEFINE O == Serialized(Created(state))
           X == O \cup {SerializeQualifiedCoinInfo(q) : q \in ToSet(state.inputs)}
           Kept == {m \in [inputs : SUBSET X, transients : SUBSET X, outputs : SUBSET X] :
                      O \subseteq m.outputs \cup m.transients}
           m == SpendAll(Maps(O, {}), state.inputs)
           coins(keys) == {DeserializeCoinInfo(x) : x \in keys}
           made == {CreateUnprovenOutput(o, encryptionKey) : o \in ToSet(state.outputs)}
           offer == ZswapStateToOffer(state, encryptionKey, chainState)
<1>1. /\ Len(state.inputs) \in Nat /\ DOMAIN state.inputs = 1..Len(state.inputs)
      /\ ToSet(state.inputs) = {state.inputs[i] : i \in 1..Len(state.inputs)}
  <2>1. state.inputs \in Seq(Input(Value))
    BY DEF ZswapState
  <2> QED
    BY <2>1, ElementsOf
<1>2. Maps(O, {}) \in Kept
  BY DEF Maps
<1>3. ASSUME NEW v \in Kept, NEW i \in 1..Len(state.inputs)
      PROVE  SpendInput(v, state.inputs[i]) \in Kept
  <2> DEFINE x == SerializeQualifiedCoinInfo(state.inputs[i])
  <2>1. x \in X
    BY <1>1
  <2>2. SpendInput(v, state.inputs[i])
          = IF x \in v.outputs THEN Spend(v, x) ELSE [v EXCEPT !.inputs = @ \cup {x}]
    BY DEF SpendInput
  <2> HIDE DEF x, X, O
  <2>3. Spend(v, x) \in Kept
    BY <2>1 DEF Spend
  <2>4. [v EXCEPT !.inputs = @ \cup {x}] \in Kept
    BY <2>1
  <2> HIDE DEF Kept
  <2> QED
    BY <2>2, <2>3, <2>4
<1> HIDE DEF Kept
<1>4. m \in Kept
  BY <1>1, <1>2, <1>3, FoldKeeps
<1>5. O \subseteq m.outputs \cup m.transients
  BY <1>4 DEF Kept
<1>6. offer = [right |-> TRUE, inputs |-> coins(m.inputs), transients |-> coins(m.transients),
               outputs |-> {u \in made : u.coin \in coins(m.outputs)}]
  <2>1. offer = IF m.inputs # {} /\ ~chainState THEN Left
                ELSE [right |-> TRUE, inputs |-> coins(m.inputs), transients |-> coins(m.transients),
                      outputs |-> {u \in made : u.coin \in coins(m.outputs)}]
    BY OfferFromMaps
  <2>2. offer.right /\ ~Left.right
    BY DEF Left
  <2> HIDE DEF offer, m, coins, made
  <2> QED
    BY <2>1, <2>2
<1>7. \A c \in Created(state) : SerializeCoinInfo(c) \in O /\ DeserializeCoinInfo(SerializeCoinInfo(c)) = c
  BY CoinTypes, CoinReadBack DEF Serialized, Coins
<1>8. \A c \in Created(state) : \E u \in made : u.coin = c
  <2>1. \A o : CreateUnprovenOutput(o, encryptionKey).coin = o.coinInfo
    BY DEF CreateUnprovenOutput
  <2> QED
    BY <2>1 DEF Created
<1> HIDE DEF m, O, made, offer
<1>9. offer.outputs = {u \in made : u.coin \in coins(m.outputs)} /\ offer.transients = coins(m.transients)
  BY <1>6
<1>10. Created(state) \subseteq {u.coin : u \in offer.outputs} \cup offer.transients
  BY <1>5, <1>7, <1>8, <1>9
<1> QED
  BY <1>9, <1>10 DEF offer, made

-----------------------------------------------------------------------------
(* A deployment and a call of what was deployed. *)

LEMMA LeftIsWrong == Left.right = FALSE
BY DEF Left

(* parseHex, for what is in front of the digits and what is left of it. *)
LEMMA ParseHexOf ==
  ASSUME NEW source, NEW prefix, prefix = (Len(source) >= 2 /\ source[1] = "0" /\ source[2] = "x"),
         NEW rest, rest = IF prefix THEN SubSeq(source, 3, Len(source)) ELSE source
  PROVE  ParseHex(source) = IF 2 * AsBytes(rest) # Len(rest) \/ AsBytes(rest) = 0 THEN Left
                            ELSE [right |-> TRUE, hasPrefix |-> prefix, bytes |-> AsBytes(rest)]
<1> DEFINE p == Len(source) >= 2 /\ source[1] = "0" /\ source[2] = "x"
           r == IF p THEN SubSeq(source, 3, Len(source)) ELSE source
<1>1. ParseHex(source) = IF 2 * AsBytes(r) # Len(r) \/ AsBytes(r) = 0 THEN Left
                         ELSE [right |-> TRUE, hasPrefix |-> p, bytes |-> AsBytes(r)]
  BY Zenon DEF ParseHex, AsBytes
<1>2. prefix = p /\ rest = r
  OBVIOUS
<1> HIDE DEF p, r
<1> QED
  BY <1>1, <1>2

(* Two digits are hex. *)
LEMMA TwoDigitsAreHex == IsHexOf(<<"d", "d">>, {})
<1> DEFINE source == <<"d", "d">>
           lengths == {n \in 0..(Len(source) \div 2) : \A i \in 1..(2 * n) : source[i] \in HexDigit}
<1>1. Len(source) = 2 /\ source[1] = "d" /\ source[2] = "d" /\ source[1] # "0"
  OBVIOUS
<1> HIDE DEF source
<1>2. lengths \in SUBSET Int /\ 1 \in lengths /\ \A n \in lengths : n <= 1
  <2>1. Len(source) \div 2 = 1
    BY <1>1
  <2>2. \A i \in 1..(2 * 1) : i = 1 \/ i = 2
    OBVIOUS
  <2> QED
    BY <1>1, <2>1, <2>2 DEF HexDigit
<1> HIDE DEF lengths
<1>3. Max(lengths) = 1
  BY <1>2, LargestOf
<1>4. AsBytes(source) = 1
  BY <1>3, Zenon DEF AsBytes, lengths
<1>5. ParseHex(source) = [right |-> TRUE, hasPrefix |-> FALSE, bytes |-> 1]
  <2>1. FALSE = (Len(source) >= 2 /\ source[1] = "0" /\ source[2] = "x")
    BY <1>1
  <2>2. source = IF FALSE THEN SubSeq(source, 3, Len(source)) ELSE source
    OBVIOUS
  <2>3. ParseHex(source) = IF 2 * AsBytes(source) # Len(source) \/ AsBytes(source) = 0 THEN Left
                           ELSE [right |-> TRUE, hasPrefix |-> FALSE, bytes |-> AsBytes(source)]
    BY <2>1, <2>2, ParseHexOf
  <2>4. ~(2 * AsBytes(source) # Len(source) \/ AsBytes(source) = 0)
    BY <1>1, <1>4
  <2> QED
    BY <1>4, <2>3, <2>4
<1>6. IsHexOf(source, {})
  BY <1>5 DEF IsHexOf
<1> QED
  BY <1>6 DEF source

(* A key in hex is hex, and is read as what it is. *)
LEMMA KeyReadAgain ==
  ASSUME NEW k, ParseKeyToHex(k).right
  PROVE  /\ IsHexOf(ParseKeyToHex(k).hex, {})
         /\ ParseKeyToHex(ParseKeyToHex(k).hex) = ParseKeyToHex(k)
         /\ ParseKeyToHex(k) # Left
<1>1. CASE IsHexOf(k, {})
  <2>1. ParseKeyToHex(k) = [right |-> TRUE, hex |-> k]
    BY <1>1 DEF ParseKeyToHex
  <2>2. ParseKeyToHex(k).hex = k
    BY <2>1
  <2> QED
    BY <1>1, <2>2, LeftIsWrong
<1>2. CASE ~IsHexOf(k, {})
  <2>1. ParseKeyToHex(k) = Decode(k)
    BY <1>2 DEF ParseKeyToHex
  <2>2. k = <<"g">>
    BY <2>1, LeftIsWrong DEF Decode
  <2>3. ParseKeyToHex(k) = [right |-> TRUE, hex |-> <<"d", "d">>]
    BY <2>1, <2>2 DEF Decode
  <2>4. ParseKeyToHex(<<"d", "d">>) = [right |-> TRUE, hex |-> <<"d", "d">>]
    BY TwoDigitsAreHex DEF ParseKeyToHex
  <2>5. ParseKeyToHex(k).hex = <<"d", "d">>
    BY <2>3
  <2> QED
    BY <2>3, <2>4, <2>5, TwoDigitsAreHex, LeftIsWrong
<1> QED
  BY <1>1, <1>2

(* The key of a wallet decodes for a call on the wallet's own coin public key
   if its encryption key does. *)
LEMMA OwnEncryptionKey ==
  ASSUME NEW coinKey, NEW encryptionKey, ParseKeyToHex(coinKey).right
  PROVE  EncryptionPublicKeyFor(ParseKeyToHex(coinKey).hex, coinKey, encryptionKey)
           = ParseKeyToHex(encryptionKey)
<1> DEFINE p == ParseKeyToHex(coinKey)
<1>1. ParseKeyToHex(p.hex) = p /\ p # Left
  BY KeyReadAgain
<1> HIDE DEF p
<1>2. {ParseKeyToHex(p.hex), p} = {p}
  BY <1>1
<1>3. Cardinality({p}) = 1
  BY FS_Singleton
<1>4. Left \notin {p} /\ ~(Cardinality({p}) > 1)
  BY <1>1, <1>3
<1> QED
  BY <1>2, <1>4 DEF EncryptionPublicKeyFor, p

(* What a deployment yields that can be made. *)
DeployedState(options) ==
  [right |-> TRUE, operation |-> [c \in options.contract |-> VerifierKeyOf(c)],
   authority |-> [key |-> options.signingKey, counter |-> 0]]

LEMMA DeployOf ==
  ASSUME NEW wallet, NEW options, NEW constructed,
         CreateUnprovenDeployTx(wallet, options, constructed).right
  PROVE  LET deploy == CreateUnprovenDeployTx(wallet, options, constructed)
             offer == ZswapStateToOffer(constructed.zswap, wallet.encryptionPublicKey, FALSE)
         IN /\ ParseKeyToHex(wallet.coinPublicKey).right
            /\ offer.right
            /\ deploy.contractState = DeployedState(options)
            /\ deploy.signingKey = options.signingKey
            /\ deploy.unprovenTx.offer = offer
            /\ deploy.newCoins = ZswapStateToNewCoins(ParseKeyToHex(wallet.coinPublicKey).hex, constructed.zswap)
<1> DEFINE pk == ParseKeyToHex(wallet.coinPublicKey)
           keys == [c \in options.contract |-> VerifierKeyOf(c)]
           operation == [c \in options.contract |-> IF c \in constructed.defined THEN Blank ELSE NoOperation]
           next == [right |-> TRUE, operation |-> operation]
           keyed == AddVerifierKeys(keys, operation)
           offer == ZswapStateToOffer(constructed.zswap, wallet.encryptionPublicKey, FALSE)
           tx == CreateUnprovenLedgerDeployTx(keys, options.signingKey, next, constructed.zswap, wallet.encryptionPublicKey)
           deploy == CreateUnprovenDeployTx(wallet, options, constructed)
           result == CallContractConstructor(CreateContractConstructorOptions(options, pk.hex), constructed)
<1>1. result.nextContractState = next /\ result.nextZswapLocalState = constructed.zswap
  BY DEF CallContractConstructor, CreateContractConstructorOptions, ConstructorOptions
<1>2. tx = IF ~keyed.right \/ ~offer.right THEN Left
           ELSE [right |-> TRUE, offer |-> offer,
                 initialContractState |-> [right |-> TRUE, operation |-> keyed.operation,
                                           authority |-> ContractMaintenanceAuthority(options.signingKey, 0)]]
  <2>1. next.operation = operation
    OBVIOUS
  <2> HIDE DEF next, operation, keys
  <2> QED
    BY <2>1 DEF CreateUnprovenLedgerDeployTx
<1>3. keyed.right => keyed.operation = keys
  <2>1. DOMAIN operation = options.contract
    OBVIOUS
  <2>2. keyed.right => keyed.operation = [c \in DOMAIN operation |-> keys[c]]
    BY LeftIsWrong DEF AddVerifierKeys
  <2>3. [c \in options.contract |-> keys[c]] = keys
    OBVIOUS
  <2> HIDE DEF keyed, operation, keys
  <2> QED
    BY <2>1, <2>2, <2>3
<1> HIDE DEF next, operation, keyed, offer, tx
<1>4. deploy = IF ~pk.right THEN Left
               ELSE IF ~tx.right THEN Left
               ELSE UnsubmittedDeployTxData(tx, options.signingKey, result.nextPrivateState,
                                            ZswapStateToNewCoins(pk.hex, constructed.zswap))
  BY <1>1 DEF CreateUnprovenDeployTx, CreateUnprovenDeployTxFromVerifierKeys, tx
<1>5. deploy.right
  OBVIOUS
<1> HIDE DEF deploy, pk, result
<1>6. pk.right /\ tx.right
        /\ deploy = UnsubmittedDeployTxData(tx, options.signingKey, result.nextPrivateState,
                                            ZswapStateToNewCoins(pk.hex, constructed.zswap))
  BY <1>4, <1>5, LeftIsWrong
<1>7. /\ keyed.right /\ offer.right /\ tx.offer = offer
      /\ tx.initialContractState = [right |-> TRUE, operation |-> keyed.operation,
                                    authority |-> ContractMaintenanceAuthority(options.signingKey, 0)]
  BY <1>2, <1>6, LeftIsWrong
<1>8. tx.initialContractState = DeployedState(options)
  BY <1>3, <1>7 DEF DeployedState, ContractMaintenanceAuthority
<1>9. /\ deploy.contractState = tx.initialContractState /\ deploy.signingKey = options.signingKey
      /\ deploy.unprovenTx = tx /\ deploy.newCoins = ZswapStateToNewCoins(pk.hex, constructed.zswap)
  BY <1>6 DEF UnsubmittedDeployTxData
<1> QED
  BY <1>6, <1>7, <1>8, <1>9 DEF deploy, pk, offer

(* What becomes of a call of a contract that was deployed. *)
CallYields(wallet, options, provider, stored, ran, state) ==
  LET providers == [wallet |-> wallet, privateStateProvider |-> provider,
                    contractState |-> state, stored |-> stored]
      coinKey == ParseKeyToHex(wallet.coinPublicKey).hex
      key == ParseKeyToHex(wallet.encryptionPublicKey)
      call == CreateUnprovenCallTx(providers, options, ran)
      able == /\ AssertIsContractAddress(options.contractAddress) /\ state.right
              /\ options.circuitId \in options.contract /\ ran.pairs = 1
              /\ options.privateStateId => provider /\ stored \notin Falsy
              /\ key.right
  IN /\ call.right <=> able
     /\ call.right => /\ call.ranOn = IF options.privateStateId THEN stored ELSE Undefined
                      /\ call.unprovenTx.call.operation = VerifierKeyOf(options.circuitId)
                      /\ call.unprovenTx.offer = ZswapStateToOffer(ran.zswap, key.hex, TRUE)
                      /\ call.newCoins = ZswapStateToNewCoins(coinKey, ran.zswap)

LEMMA CallOf ==
  ASSUME NEW wallet, NEW options, NEW provider \in BOOLEAN, NEW stored, NEW ran, NEW state,
         options.privateStateId \in BOOLEAN,
         ParseKeyToHex(wallet.coinPublicKey).right,
         state.right => state = DeployedState(options), state.right \in BOOLEAN
  PROVE  CallYields(wallet, options, provider, stored, ran, state)
<1>. USE DEF CallYields
<1> DEFINE coinKey == ParseKeyToHex(wallet.coinPublicKey).hex
           key == ParseKeyToHex(wallet.encryptionPublicKey)
           private == IF options.privateStateId THEN stored ELSE Undefined
           providers == [wallet |-> wallet, privateStateProvider |-> provider,
                         contractState |-> state, stored |-> stored]
           call == CreateUnprovenCallTx(providers, options, ran)
           refused == \/ ~AssertIsContractAddress(options.contractAddress)
                      \/ options.circuitId \notin options.contract
                      \/ options.privateStateId /\ ~provider
                      \/ ~state.right
                      \/ options.privateStateId /\ stored \in Falsy
           inner == CreateCallOptions(options, wallet.coinPublicKey, state, private)
           made == CreateUnprovenCallTxFromInitialStates(inner, wallet, ran)
<1>1. call = IF refused THEN Left ELSE made
  BY DEF CreateUnprovenCallTx, AssertDefined
<1>2. CASE refused
  <2>1. call.right = FALSE
    BY <1>1, <1>2, LeftIsWrong
  <2>2. ~(/\ AssertIsContractAddress(options.contractAddress) /\ state.right
          /\ options.circuitId \in options.contract /\ ran.pairs = 1
          /\ options.privateStateId => provider /\ stored \notin Falsy
          /\ key.right)
    BY <1>2
  <2> HIDE DEF call
  <2> QED
    BY <2>1, <2>2 DEF call
<1>3. CASE ~refused
  <2>1. /\ state = DeployedState(options) /\ options.circuitId \in options.contract
        /\ options.privateStateId => stored \notin Falsy
    BY <1>3
  <2>2. (IF private \in Falsy THEN Undefined ELSE private) = private
    BY <2>1 DEF Undefined, Falsy
  <2>3. inner = [contract |-> options.contract, circuitId |-> options.circuitId, coinPublicKey |-> coinKey,
                 initialContractState |-> state, initialPrivateState |-> private]
    <3> HIDE DEF private
    <3> QED
      BY <2>2 DEF CreateCallOptions, CallOptions
  <2>4. /\ inner.contract = options.contract /\ inner.circuitId = options.circuitId
        /\ inner.coinPublicKey = coinKey /\ inner.initialContractState = state
        /\ inner.initialPrivateState = private
    BY <2>3
  <2> DEFINE result == Call(inner, ran)
             tx == CreateUnprovenLedgerCallTx(options.circuitId, state, result.zswap, key.hex)
             found == EncryptionPublicKeyFor(result.coinPublicKey, wallet.coinPublicKey, wallet.encryptionPublicKey)
  <2> HIDE DEF inner
  <2>5. result = IF ran.pairs # 1 THEN Left ELSE RunResult(private, coinKey, ran.zswap)
    BY <2>1, <2>4 DEF Call
  <2>6. made = IF ~result.right \/ ~found.right
                    \/ ~CreateUnprovenLedgerCallTx(options.circuitId, state, result.zswap, found.hex).right THEN Left
               ELSE UnsubmittedCallTxData(result, CreateUnprovenLedgerCallTx(options.circuitId, state, result.zswap, found.hex),
                                          ZswapStateToNewCoins(coinKey, result.zswap))
    BY <2>4 DEF CreateUnprovenCallTxFromInitialStates
  <2> HIDE DEF result, found, made, call, key, private, coinKey
  <2>7. CASE ran.pairs # 1
    <3>1. result.right = FALSE
      BY <2>5, <2>7, LeftIsWrong
    <3>2. call.right = FALSE
      BY <1>1, <1>3, <2>6, <3>1, LeftIsWrong
    <3> QED
      BY <2>7, <3>2 DEF call, key
  <2>8. CASE ran.pairs = 1
    <3>1. result.right /\ result.ranOn = private /\ result.coinPublicKey = coinKey /\ result.zswap = ran.zswap
      BY <2>5, <2>8 DEF RunResult
    <3>2. found = key
      BY <3>1, OwnEncryptionKey DEF found, key, coinKey
    <3>3. tx = [right |-> TRUE, offer |-> ZswapStateToOffer(ran.zswap, key.hex, TRUE),
                call |-> [circuitId |-> options.circuitId, operation |-> VerifierKeyOf(options.circuitId)]]
      <4>1. state.operation[options.circuitId] = VerifierKeyOf(options.circuitId)
        BY <2>1 DEF DeployedState
      <4>2. VerifierKeyOf(options.circuitId) # NoOperation
        <5>1. Len(VerifierKeyOf(options.circuitId)) = 2 /\ Len(NoOperation) = 1
          BY DEF VerifierKeyOf, NoOperation
        <5> QED
          BY <5>1
      <4> QED
        BY <3>1, <4>1, <4>2 DEF CreateUnprovenLedgerCallTx
    <3>4. tx.right /\ tx.offer = ZswapStateToOffer(ran.zswap, key.hex, TRUE)
            /\ tx.call.operation = VerifierKeyOf(options.circuitId)
      BY <3>3
    <3> HIDE DEF tx
    <3>5. made = IF ~key.right THEN Left
                 ELSE UnsubmittedCallTxData(result, tx, ZswapStateToNewCoins(coinKey, ran.zswap))
      BY <2>6, <3>1, <3>2, <3>4 DEF tx
    <3>6. CASE ~key.right
      <4>1. call.right = FALSE
        BY <1>1, <1>3, <3>5, <3>6, LeftIsWrong
      <4> QED
        BY <3>6, <4>1 DEF call, key
    <3>7. CASE key.right
      <4>1. call = UnsubmittedCallTxData(result, tx, ZswapStateToNewCoins(coinKey, ran.zswap))
        BY <1>1, <1>3, <3>5, <3>7
      <4>2. /\ call.right = TRUE /\ call.ranOn = private /\ call.unprovenTx = tx
            /\ call.newCoins = ZswapStateToNewCoins(coinKey, ran.zswap)
        BY <3>1, <4>1 DEF UnsubmittedCallTxData
      <4> QED
        BY <1>3, <2>1, <2>8, <3>4, <3>7, <4>2 DEF call, key, coinKey, private
    <3> QED
      BY <3>6, <3>7
  <2> QED
    BY <2>7, <2>8
<1> QED
  BY <1>2, <1>3

(* For any wallet, coins and outcomes of a constructor and a circuit: what is
   deployed can be called with the state the deployment leaves, unless that
   state is falsy, or a provider, the contract, its circuit or a key is not what a
   call needs; and neither loses a coin that is for the wallet. *)
THEOREM DeployedCanBeCalled ==
  ASSUME NEW Value, NEW wallet, NEW options, NEW provider \in BOOLEAN, NEW found \in BOOLEAN,
         NEW constructed, NEW ran, options.privateStateId \in BOOLEAN,
         constructed.zswap \in ZswapState(Value), ran.zswap \in ZswapState(Value)
  PROVE  DeployThenCallLaw(wallet, options, provider, found, constructed, ran)
<1> DEFINE deploy == CreateUnprovenDeployTx(wallet, options, constructed)
           state == IF found THEN deploy.contractState ELSE Left
           stored == deploy.initialPrivateState
           providers == [wallet |-> wallet, privateStateProvider |-> provider,
                         contractState |-> state, stored |-> stored]
           call == CreateUnprovenCallTx(providers, options, ran)
           coinKey == ParseKeyToHex(wallet.coinPublicKey).hex
           key == ParseKeyToHex(wallet.encryptionPublicKey)
           offered(offer) == {u.coin : u \in offer.outputs} \cup offer.transients
           possible == /\ AssertIsContractAddress(options.contractAddress) /\ found
                       /\ options.circuitId \in options.contract /\ ran.pairs = 1
                       /\ options.privateStateId => provider /\ stored \notin Falsy
                       /\ key.right
           private == IF options.privateStateId THEN stored ELSE Undefined
<1>1. SUFFICES ASSUME deploy.right
               PROVE  /\ deploy.newCoins \subseteq offered(deploy.unprovenTx.offer)
                      /\ deploy.contractState.authority.key = deploy.signingKey
                      /\ call.right <=> possible
                      /\ call.right =>
                           /\ call.ranOn = private
                           /\ call.unprovenTx.call.operation = VerifierKeyOf(options.circuitId)
                           /\ call.newCoins \subseteq offered(call.unprovenTx.offer)
                           /\ \A u \in call.unprovenTx.offer.outputs : u.key = None \/ IsHexOf(u.key, {})
  BY Zenon DEF DeployThenCallLaw
<1>2. ASSUME NEW zswap \in ZswapState(Value), NEW receiver
      PROVE  ZswapStateToNewCoins(receiver, zswap) \subseteq Created(zswap)
  BY DEF ZswapStateToNewCoins, Created
<1>3. LET offer == ZswapStateToOffer(constructed.zswap, wallet.encryptionPublicKey, FALSE)
      IN /\ ParseKeyToHex(wallet.coinPublicKey).right
         /\ offer.right
         /\ deploy.contractState = DeployedState(options)
         /\ deploy.signingKey = options.signingKey
         /\ deploy.unprovenTx.offer = offer
         /\ deploy.newCoins = ZswapStateToNewCoins(coinKey, constructed.zswap)
  BY <1>1, DeployOf
<1>4. deploy.newCoins \subseteq offered(deploy.unprovenTx.offer)
  <2> DEFINE offer == ZswapStateToOffer(constructed.zswap, wallet.encryptionPublicKey, FALSE)
  <2>1. Created(constructed.zswap) \subseteq offered(offer)
    BY <1>3, CreatedOffered
  <2>2. deploy.newCoins \subseteq Created(constructed.zswap) /\ deploy.unprovenTx.offer = offer
    BY <1>2, <1>3
  <2> HIDE DEF deploy, offer
  <2> QED
    BY <2>1, <2>2
<1>5. deploy.contractState.authority.key = deploy.signingKey
  BY <1>3 DEF DeployedState
<1>6. /\ state.right = found /\ state.right \in BOOLEAN
      /\ state.right => state = DeployedState(options)
  <2>1. DeployedState(options).right = TRUE
    BY DEF DeployedState
  <2>2. deploy.contractState = DeployedState(options)
    BY <1>3
  <2> HIDE DEF deploy
  <2> QED
    BY <2>1, <2>2, LeftIsWrong
<1> HIDE DEF deploy, state, stored
<1>7. /\ call.right <=> possible
      /\ call.right => /\ call.ranOn = private
                       /\ call.unprovenTx.call.operation = VerifierKeyOf(options.circuitId)
                       /\ call.unprovenTx.offer = ZswapStateToOffer(ran.zswap, key.hex, TRUE)
                       /\ call.newCoins = ZswapStateToNewCoins(coinKey, ran.zswap)
  <2> DEFINE able == /\ AssertIsContractAddress(options.contractAddress) /\ state.right
                     /\ options.circuitId \in options.contract /\ ran.pairs = 1
                     /\ options.privateStateId => provider /\ stored \notin Falsy
                     /\ key.right
  <2>1. ParseKeyToHex(wallet.coinPublicKey).right
    BY <1>3
  <2>2. /\ call.right <=> able
        /\ call.right => /\ call.ranOn = private
                         /\ call.unprovenTx.call.operation = VerifierKeyOf(options.circuitId)
                         /\ call.unprovenTx.offer = ZswapStateToOffer(ran.zswap, key.hex, TRUE)
                         /\ call.newCoins = ZswapStateToNewCoins(coinKey, ran.zswap)
    <3>1. CallYields(wallet, options, provider, stored, ran, state)
      BY <1>6, <2>1, CallOf
    <3> QED
      BY <3>1, Zenon DEF CallYields
  <2>3. able <=> possible
    BY <1>6
  <2> HIDE DEF able, call, possible, private, key, coinKey
  <2> QED
    BY <2>2, <2>3
<1> HIDE DEF call, possible, private, key, coinKey
<1>8. ASSUME call.right
      PROVE  /\ call.newCoins \subseteq offered(call.unprovenTx.offer)
             /\ \A u \in call.unprovenTx.offer.outputs : u.key = None \/ IsHexOf(u.key, {})
  <2> DEFINE offer == ZswapStateToOffer(ran.zswap, key.hex, TRUE)
             made == {CreateUnprovenOutput(o, key.hex) : o \in ToSet(ran.zswap.outputs)}
  <2>1. offer.right
    BY OfferFromMaps
  <2>2. Created(ran.zswap) \subseteq offered(offer) /\ offer.outputs \subseteq made
    BY <2>1, CreatedOffered
  <2>3. IsHexOf(key.hex, {})
    BY <1>7, <1>8, KeyReadAgain DEF possible, key
  <2>4. \A u \in made : u.key = None \/ u.key = key.hex
    BY DEF CreateUnprovenOutput
  <2>5. call.newCoins \subseteq Created(ran.zswap) /\ call.unprovenTx.offer = offer
    BY <1>2, <1>7, <1>8
  <2> HIDE DEF offer, made
  <2> QED
    BY <2>2, <2>3, <2>4, <2>5
<1> HIDE DEF offered
<1> QED
  BY <1>4, <1>5, <1>7, <1>8

-----------------------------------------------------------------------------
(* Hex: the addresses and keys that a deployment and a call are given *)

(* A set of numbers that is not empty and has a bound has a largest one. *)
LEMMA LargestIn ==
  ASSUME NEW S \in SUBSET Nat, 0 \in S, NEW b \in Nat, \A i \in S : i <= b
  PROVE  Max(S) \in S /\ \A i \in S : i <= Max(S)
<1> DEFINE T == {k \in Nat : (\E m \in S : m >= b - k) => \E m \in S : \A i \in S : i <= m}
<1>1. 0 \in T
  <2>1. ASSUME NEW m \in S, m >= b
        PROVE  \A i \in S : i <= m
    BY <2>1
  <2> QED
    BY <2>1
<1>2. ASSUME NEW k \in T
      PROVE  k + 1 \in T
  <2> SUFFICES ASSUME NEW m \in S, m >= b - (k + 1)
               PROVE  \E n \in S : \A i \in S : i <= n
    OBVIOUS
  <2>1. CASE \E n \in S : n >= b - k
    BY <2>1
  <2>2. CASE \A n \in S : ~(n >= b - k)
    <3>1. \A n \in S : n <= m
      BY <2>2
    <3> QED
      BY <3>1
  <2> QED
    BY <2>1, <2>2
<1> HIDE DEF T
<1>3. T = Nat
  <2>1. T \in SUBSET Nat
    BY DEF T
  <2> QED
    BY <1>1, <1>2, <2>1, AllNumbers
<1>4. PICK m \in S : \A i \in S : i <= m
  <2>1. b \in T
    BY <1>3
  <2>2. 0 >= b - b
    OBVIOUS
  <2> QED
    BY <2>1, <2>2 DEF T
<1>5. Max(S) = m
  BY <1>4, LargestOf
<1> QED
  BY <1>4, <1>5

(* As many whole bytes as the digits make. *)
LEMMA BytesOf ==
  ASSUME NEW E, NEW s \in Seq(E)
  PROVE  /\ AsBytes(s) \in 0..(Len(s) \div 2)
         /\ 2 * AsBytes(s) = Len(s) <=> Len(s) % 2 = 0 /\ \A i \in 1..Len(s) : s[i] \in HexDigit
<1> DEFINE lengths == {n \in 0..(Len(s) \div 2) : \A i \in 1..(2 * n) : s[i] \in HexDigit}
           h == Len(s) \div 2
<1>1. Len(s) \in Nat /\ h \in Nat /\ 2 * h <= Len(s) /\ (Len(s) % 2 = 0 <=> 2 * h = Len(s))
  OBVIOUS
<1> HIDE DEF h
<1>2. lengths \in SUBSET Nat /\ 0 \in lengths /\ \A n \in lengths : n <= h
  BY <1>1 DEF h
<1>3. AsBytes(s) = Max(lengths)
  BY Zenon DEF AsBytes
<1>4. AsBytes(s) \in lengths /\ \A n \in lengths : n <= AsBytes(s)
  <2> HIDE DEF lengths
  <2> QED
    BY <1>1, <1>2, <1>3, LargestIn
<1>5. AsBytes(s) \in 0..h /\ \A i \in 1..(2 * AsBytes(s)) : s[i] \in HexDigit
  BY <1>4 DEF h
<1>6. ASSUME 2 * AsBytes(s) = Len(s)
      PROVE  Len(s) % 2 = 0 /\ \A i \in 1..Len(s) : s[i] \in HexDigit
  BY <1>1, <1>5, <1>6
<1>7. ASSUME Len(s) % 2 = 0, \A i \in 1..Len(s) : s[i] \in HexDigit
      PROVE  2 * AsBytes(s) = Len(s)
  <2>1. 2 * h = Len(s)
    BY <1>1, <1>7
  <2>2. h \in lengths
    BY <1>1, <1>7, <2>1 DEF h
  <2>3. h <= AsBytes(s)
    BY <1>4, <2>2
  <2> QED
    BY <1>1, <1>5, <2>1, <2>3
<1> QED
  BY <1>5, <1>6, <1>7 DEF h

(* What parses, in the words of HexLaw. *)
DigitsFrom(source, from) == \A i \in from..Len(source) : source[i] \in HexDigit
WholeFrom(source, from) ==
  Len(source) > from /\ (Len(source) - from) % 2 = 1 /\ DigitsFrom(source, from)
HexPrefix(source) == Len(source) >= 2 /\ source[1] = "0" /\ source[2] = "x"

(* What is left of a string after its first two characters. *)
LEMMA DropTwo ==
  ASSUME NEW E, NEW s \in Seq(E), Len(s) >= 2
  PROVE  /\ SubSeq(s, 3, Len(s)) \in Seq(E)
         /\ Len(SubSeq(s, 3, Len(s))) = Len(s) - 2
         /\ \A i \in 1..(Len(s) - 2) : SubSeq(s, 3, Len(s))[i] = s[i + 2]
<1>1. Len(s) \in Int /\ 3 \in Int /\ \A i \in 3..Len(s) : s[i] \in E
  OBVIOUS
<1>2. SubSeq(s, 3, Len(s)) \in Seq(E)
  BY <1>1, SubSeqProperties
<1>3. \A i \in 1..(Len(s) - 2) : SubSeq(s, 3, Len(s))[i] = s[i + 2]
  OBVIOUS
<1>4. Len(SubSeq(s, 3, Len(s))) = IF 3 <= Len(s) THEN Len(s) - 3 + 1 ELSE 0
  BY <1>1, SubSeqProperties
<1>5. CASE 3 <= Len(s)
  BY <1>1, <1>2, <1>3, <1>4, <1>5
<1>6. CASE ~(3 <= Len(s))
  <2>1. \A n \in Int : n >= 2 /\ ~(3 <= n) => n = 2
    OBVIOUS
  <2>2. Len(s) = 2
    BY <1>1, <1>6, <2>1
  <2> QED
    BY <1>2, <1>3, <1>4, <1>6, <2>2
<1> QED
  BY <1>5, <1>6

LEMMA PrefixedParses ==
  ASSUME NEW E, NEW source \in Seq(E), HexPrefix(source)
  PROVE  /\ ~WholeFrom(source, 1) /\ ParseHex(source).right \in BOOLEAN
         /\ ParseHex(source).right = TRUE <=> Len(source) > 2 /\ WholeFrom(source, 3)
         /\ ParseHex(source).right => ParseHex(source).hasPrefix = TRUE
<1> DEFINE rest == SubSeq(source, 3, Len(source))
<1>1. /\ Len(source) \in Nat /\ Len(source) >= 2 /\ source[2] = "x"
      /\ rest \in Seq(E) /\ Len(rest) = Len(source) - 2
      /\ \A i \in 1..Len(rest) : rest[i] = source[i + 2]
  <2>1. Len(source) \in Nat /\ Len(source) >= 2 /\ source[2] = "x"
    BY DEF HexPrefix
  <2>2. /\ rest \in Seq(E) /\ Len(rest) = Len(source) - 2
        /\ \A i \in 1..(Len(source) - 2) : rest[i] = source[i + 2]
    BY <2>1, DropTwo
  <2> HIDE DEF rest
  <2> QED
    BY <2>1, <2>2
<1>2. ~WholeFrom(source, 1)
  BY <1>1 DEF WholeFrom, DigitsFrom, HexDigit
<1>3. ParseHex(source) = IF 2 * AsBytes(rest) # Len(rest) \/ AsBytes(rest) = 0 THEN Left
                         ELSE [right |-> TRUE, hasPrefix |-> TRUE, bytes |-> AsBytes(rest)]
  <2>1. TRUE = (Len(source) >= 2 /\ source[1] = "0" /\ source[2] = "x")
    BY DEF HexPrefix
  <2>2. rest = IF TRUE THEN SubSeq(source, 3, Len(source)) ELSE source
    OBVIOUS
  <2> HIDE DEF rest
  <2> QED
    BY <2>1, <2>2, ParseHexOf
<1> HIDE DEF rest
<1>4. /\ AsBytes(rest) \in Nat
      /\ 2 * AsBytes(rest) = Len(rest) <=> Len(rest) % 2 = 0 /\ \A i \in 1..Len(rest) : rest[i] \in HexDigit
  <2>1. AsBytes(rest) \in 0..(Len(rest) \div 2)
    BY <1>1, BytesOf
  <2>2. 2 * AsBytes(rest) = Len(rest)
          <=> Len(rest) % 2 = 0 /\ \A i \in 1..Len(rest) : rest[i] \in HexDigit
    BY <1>1, BytesOf
  <2> QED
    BY <2>1, <2>2
<1>5. (\A i \in 1..Len(rest) : rest[i] \in HexDigit) <=> DigitsFrom(source, 3)
  <2>1. ASSUME \A i \in 1..Len(rest) : rest[i] \in HexDigit, NEW i \in 3..Len(source)
        PROVE  source[i] \in HexDigit
    <3>1. i - 2 \in 1..Len(rest) /\ (i - 2) + 2 = i
      BY <1>1
    <3> QED
      BY <1>1, <2>1, <3>1
  <2>2. ASSUME DigitsFrom(source, 3), NEW i \in 1..Len(rest)
        PROVE  rest[i] \in HexDigit
    <3>1. i + 2 \in 3..Len(source)
      BY <1>1
    <3> QED
      BY <1>1, <2>2, <3>1 DEF DigitsFrom
  <2> QED
    BY <2>1, <2>2 DEF DigitsFrom
<1>6. ~(2 * AsBytes(rest) # Len(rest) \/ AsBytes(rest) = 0) <=> Len(source) > 2 /\ WholeFrom(source, 3)
  <2>1. Len(rest) % 2 = 0 <=> (Len(source) - 3) % 2 = 1
    <3>1. \A n \in Nat : (n - 2) % 2 = 0 <=> (n - 3) % 2 = 1
      OBVIOUS
    <3> QED
      BY <1>1, <3>1
  <2>2. Len(rest) % 2 = 0 /\ Len(rest) > 0 => Len(source) > 3
    BY <1>1
  <2> QED
    BY <1>1, <1>4, <1>5, <2>1, <2>2 DEF WholeFrom
<1>7. CASE Len(source) > 2 /\ WholeFrom(source, 3)
  <2>1. ParseHex(source) = [right |-> TRUE, hasPrefix |-> TRUE, bytes |-> AsBytes(rest)]
    BY <1>3, <1>6, <1>7
  <2>2. ParseHex(source).right = TRUE /\ ParseHex(source).hasPrefix = TRUE
    BY <2>1
  <2> QED
    BY <1>2, <1>7, <2>2
<1>8. CASE ~(Len(source) > 2 /\ WholeFrom(source, 3))
  BY <1>2, <1>3, <1>6, <1>8, LeftIsWrong
<1> QED
  BY <1>7, <1>8

LEMMA PlainParses ==
  ASSUME NEW E, NEW source \in Seq(E), ~HexPrefix(source)
  PROVE  /\ ParseHex(source).right \in BOOLEAN
         /\ ParseHex(source).right = TRUE <=> WholeFrom(source, 1)
         /\ ParseHex(source).right => /\ ParseHex(source).hasPrefix = FALSE
                                      /\ ParseHex(source).bytes = AsBytes(source)
                                      /\ 2 * AsBytes(source) = Len(source)
<1>1. ParseHex(source) = IF 2 * AsBytes(source) # Len(source) \/ AsBytes(source) = 0 THEN Left
                         ELSE [right |-> TRUE, hasPrefix |-> FALSE, bytes |-> AsBytes(source)]
  <2>1. FALSE = (Len(source) >= 2 /\ source[1] = "0" /\ source[2] = "x")
    BY DEF HexPrefix
  <2>2. source = IF FALSE THEN SubSeq(source, 3, Len(source)) ELSE source
    OBVIOUS
  <2> QED
    BY <2>1, <2>2, ParseHexOf
<1>2. /\ AsBytes(source) \in Nat /\ Len(source) \in Nat
      /\ 2 * AsBytes(source) = Len(source) <=> Len(source) % 2 = 0 /\ DigitsFrom(source, 1)
  BY BytesOf DEF DigitsFrom
<1>3. ~(2 * AsBytes(source) # Len(source) \/ AsBytes(source) = 0) <=> WholeFrom(source, 1)
  <2>1. Len(source) % 2 = 0 <=> (Len(source) - 1) % 2 = 1
    BY <1>2
  <2>2. Len(source) % 2 = 0 /\ Len(source) > 0 => Len(source) > 1
    BY <1>2
  <2> QED
    BY <1>2, <2>1, <2>2 DEF WholeFrom
<1>4. CASE WholeFrom(source, 1)
  <2>1. ParseHex(source) = [right |-> TRUE, hasPrefix |-> FALSE, bytes |-> AsBytes(source)]
    BY <1>1, <1>3, <1>4
  <2>2. /\ ParseHex(source).right = TRUE /\ ParseHex(source).hasPrefix = FALSE
        /\ ParseHex(source).bytes = AsBytes(source)
    BY <2>1
  <2> QED
    BY <1>3, <1>4, <2>2
<1>5. CASE ~WholeFrom(source, 1)
  BY <1>1, <1>3, <1>5, LeftIsWrong
<1> QED
  BY <1>4, <1>5

(* For every string: what is taken for hex is an even number of digits, at
   least two, after the prefix or without one, and no string is both; and an
   address is also a signing key. *)
THEOREM HexIsDigits ==
  ASSUME NEW E, NEW source \in Seq(E)
  PROVE  HexLaw(source)
<1>1. PlainHex(source) <=> ParseHex(source).right /\ ParseHex(source).hasPrefix = FALSE
  BY DEF PlainHex, IsHex
<1>2. PrefixedHex(source) <=> ParseHex(source).right /\ ParseHex(source).hasPrefix = TRUE
  BY DEF PrefixedHex, IsHex
<1>3. ContractAddress(source) => SigningKey(source) /\ ParseHex(source).bytes = 1 /\ PlainHex(source)
  <2>1. RangeContains(MakeRange("Inclusive", 1, 1), ParseHex(source).bytes) =>
          ParseHex(source).bytes >= 1 /\ ParseHex(source).bytes < 1 + 1
    BY DEF RangeContains, MakeRange, IsInclusive, Between, From
  <2>2. RangeContains(MakeRange("Inclusive", 1, 2), 1)
    BY DEF RangeContains, MakeRange, IsInclusive, Between, From
  <2>3. ASSUME ContractAddress(source)
        PROVE  /\ ParseHex(source).right /\ ParseHex(source).hasPrefix = FALSE
               /\ RangeContains(MakeRange("Inclusive", 1, 1), ParseHex(source).bytes)
    BY <2>3, Zenon DEF ContractAddress, IsHex
  <2>4. ASSUME ParseHex(source).right, ParseHex(source).hasPrefix = FALSE, ParseHex(source).bytes = 1
        PROVE  SigningKey(source) /\ PlainHex(source)
    <3>1. \A range \in {MakeRange("Inclusive", 1, 2)} : RangeContains(range, ParseHex(source).bytes)
      BY <2>2, <2>4
    <3> QED
      BY <2>4, <3>1, Zenon DEF SigningKey, PlainHex, IsHex
  <2>5. ParseHex(source).right /\ ParseHex(source).hasPrefix = FALSE => ParseHex(source).bytes \in Nat
    <3>1. CASE HexPrefix(source)
      BY <3>1, PrefixedParses
    <3>2. CASE ~HexPrefix(source)
      <4>1. AsBytes(source) \in 0..(Len(source) \div 2)
        BY BytesOf
      <4>2. AsBytes(source) \in Nat
        BY <4>1
      <4> QED
        BY <3>2, <4>2, PlainParses
    <3> QED
      BY <3>1, <3>2
  <2>6. ASSUME ContractAddress(source)
        PROVE  ParseHex(source).bytes = 1
    <3> DEFINE b == ParseHex(source).bytes
    <3>1. b \in Nat /\ b >= 1 /\ b < 1 + 1
      BY <2>1, <2>3, <2>5, <2>6
    <3> HIDE DEF b
    <3>2. b = 1
      BY <3>1
    <3> QED
      BY <3>2 DEF b
  <2> QED
    BY <2>3, <2>4, <2>6
<1>4. /\ PlainHex(source) <=> WholeFrom(source, 1)
      /\ PrefixedHex(source) <=> Len(source) > 2 /\ HexPrefix(source) /\ WholeFrom(source, 3)
      /\ ParseHex(source).right <=> PlainHex(source) \/ PrefixedHex(source)
      /\ PlainHex(source) => 2 * AsBytes(source) = Len(source) /\ ParseHex(source).bytes = AsBytes(source)
  <2>1. CASE HexPrefix(source)
    BY <1>1, <1>2, <2>1, PrefixedParses
  <2>2. CASE ~HexPrefix(source)
    BY <1>1, <1>2, <2>2, PlainParses
  <2> QED
    BY <2>1, <2>2
<1> QED
  BY <1>3, <1>4 DEF HexLaw, WholeFrom, DigitsFrom, HexPrefix

(* For every string and every length, or none: isHex accepts what assertIsHex
   does not throw for. *)
THEOREM AssertedIsHex ==
  ASSUME NEW E, NEW source \in Seq(E), NEW byteLen \in SUBSET Int
  PROVE  AssertLaw(source, byteLen)
<1> DEFINE parsed == ParseHex(source)
<1>1. ASSUME source = <<>>
      PROVE  ~parsed.right
  <2>1. ~HexPrefix(source) /\ ~WholeFrom(source, 1)
    BY <1>1 DEF HexPrefix, WholeFrom
  <2> QED
    BY <2>1, PlainParses
<1>2. \A n \in byteLen : n > 0 <=> ~(n <= 0)
  OBVIOUS
<1> HIDE DEF parsed
<1>3. AssertIsHex(source, byteLen) = "none" <=>
        /\ source # <<>> /\ (\A n \in byteLen : ~(n <= 0))
        /\ parsed.right /\ (\A n \in byteLen : n = parsed.bytes)
  BY Zenon DEF AssertIsHex, parsed
<1>4. IsHexOf(source, byteLen) <=>
        (\A n \in byteLen : n > 0) /\ parsed.right /\ (\A n \in byteLen : parsed.bytes = n)
  BY Zenon DEF IsHexOf, parsed
<1> QED
  BY <1>1, <1>2, <1>3, <1>4 DEF AssertLaw

-----------------------------------------------------------------------------
(* Configuration: keys and networks *)

(* What an option is set to, or None. *)
Option == Seq(Char) \cup {None}
Provider == [coinPublic : Option, signing : Option, network : Option]

(* For every configuration of the file, the environment and the command line:
   the key that is used is the first that is given, the command line before the
   environment and the environment before the file, and it can be used as hex
   if it is made as hex. *)
THEOREM FirstKeyCounts ==
  ASSUME NEW json \in Provider, NEW env \in Provider, NEW cli \in Provider
  PROVE  KeyLaw(json, env, cli)
<1> DEFINE provider == CommandConfigProvider(json, env, cli)
           keys == MakeKeys(provider)
           given == <<cli["coinPublic"], env["coinPublic"], json["coinPublic"]>>
           first == IF given[1] # None THEN given[1] ELSE IF given[2] # None THEN given[2] ELSE given[3]
<1>1. provider["coinPublic"] = first
  BY DEF CommandConfigProvider, ConfigProvider, OrElse, Provider
<1>2. keys.right => keys.coinPublicKey = first
  <2> HIDE DEF provider, first
  <2>1. keys = Left \/ keys = [right |-> TRUE, coinPublicKey |-> provider["coinPublic"],
                               signingKey |-> provider["signing"]]
    BY DEF MakeKeys
  <2> QED
    BY <1>1, <2>1, LeftIsWrong
<1>3. \A source : AsHex(source).right <=> MakeCoinPublicKey(source) = [right |-> TRUE, kind |-> "Hex"]
  <2> TAKE source
  <2>1. PlainHex(source) => ParseHex(source).right
    BY DEF PlainHex, IsHex
  <2>2. CASE PlainHex(source)
    <3>1. AsHex(source).right
      BY <2>2 DEF AsHex
    <3>2. MakeCoinPublicKey(source) = [right |-> TRUE, kind |-> "Hex"]
      BY <2>1, <2>2 DEF MakeCoinPublicKey
    <3> QED
      BY <3>1, <3>2
  <2>3. CASE ~PlainHex(source)
    <3>1. ~AsHex(source).right
      BY <2>3, LeftIsWrong DEF AsHex
    <3>2. MakeCoinPublicKey(source) \in {Left, [right |-> TRUE, kind |-> "Bech32m"]}
      BY <2>3 DEF MakeCoinPublicKey
    <3>3. [right |-> TRUE, kind |-> "Bech32m"] # [right |-> TRUE, kind |-> "Hex"]
      OBVIOUS
    <3>4. Left # [right |-> TRUE, kind |-> "Hex"]
      BY LeftIsWrong
    <3> QED
      BY <3>1, <3>2, <3>3, <3>4
  <2> QED
    BY <2>2, <2>3
<1>4. ASSUME NEW i \in 1..3, given[i] # None, \A j \in 1..(i - 1) : given[j] = None
      PROVE  given[i] = first
  <2>1. i = 1 \/ i = 2 \/ i = 3
    OBVIOUS
  <2> HIDE DEF given
  <2>2. CASE i = 1
    BY <1>4, <2>2
  <2>3. CASE i = 2
    BY <1>4, <2>3
  <2>4. CASE i = 3
    BY <1>4, <2>4
  <2> QED
    BY <2>1, <2>2, <2>3, <2>4
<1> HIDE DEF first
<1>5. ASSUME NEW i \in 1..3, keys.right, given[i] # None, \A j \in 1..(i - 1) : given[j] = None
      PROVE  /\ keys.coinPublicKey = given[i]
             /\ AsHex(given[i]).right <=> MakeCoinPublicKey(given[i]) = [right |-> TRUE, kind |-> "Hex"]
  BY <1>2, <1>3, <1>4, <1>5
<1> QED
  BY <1>5, Zenon DEF KeyLaw

(* For every moniker: a network that is configured by name is not MainNet, and
   one with MainNet's own name is not either; and only MainNet cannot be told
   by its name again. *)
THEOREM NamedIsNotMainNet ==
  ASSUME NEW source \in Seq(Char \cup {"m"}) \cup {None}
  PROVE  NetworkLaw([network |-> source])
<1> DEFINE provider == [network |-> source]
           network == MakeNetwork(provider)
<1>1. provider["network"] = source
  OBVIOUS
<1>2. MainNetMark # MainNetMoniker
  BY DEF MainNetMark, MainNetMoniker
<1>3. source # MainNetMark
  <2>1. CASE source = None
    BY <2>1 DEF None, MainNetMark
  <2>2. CASE source \in Seq(Char \cup {"m"})
    <3> DEFINE Letter == Char \cup {"m"}
    <3>1. "" \notin Letter
      BY DEF Char, HexDigit
    <3>2. source \in Seq(Letter)
      BY <2>2
    <3> HIDE DEF Letter
    <3>3. ASSUME source = MainNetMark
          PROVE  FALSE
      <4>1. source \in Seq(Letter) /\ Len(source) = 1 /\ source[1] = ""
        BY <3>2, <3>3 DEF MainNetMark
      <4>2. \A s \in Seq(Letter) : Len(s) = 1 => s[1] \in Letter
        OBVIOUS
      <4> QED
        BY <3>1, <4>1, <4>2, Zenon
    <3> QED
      BY <3>3
  <2> QED
    BY <2>1, <2>2
<1> HIDE DEF provider
<1>4. CASE source = None
  <2>1. network = [right |-> TRUE, id |-> MainNet]
    BY <1>1, <1>4 DEF MakeNetwork
  <2> HIDE DEF network
  <2>2. network.id = MainNet /\ network.id.mark = MainNetMark /\ MainNet.mark = MainNetMark
    BY <2>1 DEF MainNet
  <2>3. NetworkName(network.id) = MainNetMoniker
    BY <2>2 DEF NetworkName, IsMainNet
  <2>4. NetworkOf(MainNetMoniker).mark = MainNetMoniker
    BY DEF NetworkOf
  <2> QED
    BY <1>1, <1>2, <1>4, <2>2, <2>3, <2>4 DEF NetworkLaw, EqualNetworks, IsMainNet, network, provider
<1>5. CASE source # None /\ ~NetworkIdMoniker(source)
  <2>1. network = Left
    BY <1>1, <1>5 DEF MakeNetwork
  <2> QED
    BY <2>1, LeftIsWrong DEF NetworkLaw, provider
<1>6. CASE source # None /\ NetworkIdMoniker(source)
  <2>1. network = [right |-> TRUE, id |-> NetworkOf(source)]
    BY <1>1, <1>6 DEF MakeNetwork
  <2> HIDE DEF network
  <2>2. network.id.mark = source /\ MainNet.mark = MainNetMark
    BY <2>1 DEF MainNet, NetworkOf
  <2>3. NetworkName(network.id) = source
    BY <1>3, <2>2 DEF NetworkName, IsMainNet
  <2>4. NetworkOf(source).mark = source
    BY DEF NetworkOf
  <2> QED
    BY <1>1, <1>3, <1>6, <2>2, <2>3, <2>4 DEF NetworkLaw, EqualNetworks, IsMainNet, network, provider
<1> QED
  BY <1>4, <1>5, <1>6

-----------------------------------------------------------------------------
(* Ranges: what they hold, and their notation *)

LEMMA SmallestOf ==
  ASSUME NEW S \in SUBSET Int, NEW m \in S, \A i \in S : m <= i
  PROVE  Min(S) = m
<1>1. \A x \in S : (\A y \in S : x <= y) => x = m
  OBVIOUS
<1>2. \A y \in S : m <= y
  OBVIOUS
<1> QED
  BY <1>1, <1>2 DEF Min

(* The number that digits stand for. *)
NumberOf(s) == FoldLeft(LAMBDA n, digit : 10 * n + (CHOOSE d \in 0..9 : Digits[d + 1] = digit), 0, s)

LEMMA NumberSteps ==
  ASSUME NEW s, NEW n \in Nat, DOMAIN s = 1..n
  PROVE  \E h : Steps("digits", h, 0, s, n) /\ NumberOf(s) = h[n]
<1> DEFINE digit(c) == CHOOSE d \in 0..9 : Digits[d + 1] = c
           built(f) == f = [t \in SUBSET (1..n) |->
                              IF t = {} THEN 0 ELSE 10 * f[t \ {Max(t)}] + digit(s[Max(t)])]
           f == CHOOSE g : built(g)
<1>1. NumberOf(s) = f[1..n]
  BY Zenon DEF NumberOf, FoldLeft, MapThenFoldSet
<1>2. \A v, c : Step("digits", v, c) = 10 * v + digit(c)
  BY DEF Step
<1> HIDE DEF digit
<1>3. \A g : Folds("digits", g, n, 0, s) <=> built(g)
  BY <1>2 DEF Folds
<1>4. \E g : built(g)
  BY <1>3, FoldExists
<1> HIDE DEF built
<1>5. built(f)
  BY <1>4
<1>6. Folds("digits", f, n, 0, s)
  BY <1>3, <1>5
<1> HIDE DEF f
<1> QED
  BY <1>1, <1>6, FoldSteps

LEMMA DigitsApart ==
  /\ \A d, e \in 0..9 : Digits[d + 1] = Digits[e + 1] => d = e
  /\ \A d \in 0..9 : Digits[d + 1] \in ToSet(Digits)
  /\ "-" \notin ToSet(Digits) /\ "." \notin ToSet(Digits) /\ "=" \notin ToSet(Digits)
<1>1. \A d \in 0..9 : d \in {0, 1, 2, 3, 4, 5, 6, 7, 8, 9}
  OBVIOUS
<1>2. /\ Digits[1] = "0" /\ Digits[2] = "1" /\ Digits[3] = "2" /\ Digits[4] = "3" /\ Digits[5] = "4"
      /\ Digits[6] = "5" /\ Digits[7] = "6" /\ Digits[8] = "7" /\ Digits[9] = "8" /\ Digits[10] = "9"
      /\ DOMAIN Digits = 1..10
  BY DEF Digits
<1>3. ToSet(Digits) = {"0", "1", "2", "3", "4", "5", "6", "7", "8", "9"}
  <2>1. \A i \in 1..10 : i \in {1, 2, 3, 4, 5, 6, 7, 8, 9, 10}
    OBVIOUS
  <2> QED
    BY <1>2, <2>1 DEF ToSet
<1>4. \A d, e \in 0..9 : Digits[d + 1] = Digits[e + 1] => d = e
  <2> TAKE d, e \in 0..9
  <2>1. d + 1 \in 1..10 /\ e + 1 \in 1..10
    OBVIOUS
  <2> QED
    BY <1>1, <1>2, <2>1
<1>5. \A d \in 0..9 : Digits[d + 1] \in ToSet(Digits)
  BY <1>2 DEF ToSet
<1> QED
  BY <1>3, <1>4, <1>5

(* No digits are a zero, and one digit is what it says. *)
LEMMA SmallNumbers ==
  ASSUME NEW s
  PROVE  /\ DOMAIN s = 1..0 => NumberOf(s) = 0
         /\ \A d \in 0..9 : DOMAIN s = 1..1 /\ s[1] = Digits[d + 1] => NumberOf(s) = d
<1>1. ASSUME DOMAIN s = 1..0
      PROVE  NumberOf(s) = 0
  BY <1>1, NumberSteps DEF Steps
<1>2. ASSUME NEW d \in 0..9, DOMAIN s = 1..1, s[1] = Digits[d + 1]
      PROVE  NumberOf(s) = d
  <2>1. PICK h : Steps("digits", h, 0, s, 1) /\ NumberOf(s) = h[1]
    BY <1>2, NumberSteps
  <2>2. h[1] = Step("digits", h[0], s[1]) /\ h[0] = 0
    <3>1. 1 \in 1..1 /\ 1 - 1 = 0
      OBVIOUS
    <3> QED
      BY <2>1, <3>1 DEF Steps
  <2>3. (CHOOSE e \in 0..9 : Digits[e + 1] = s[1]) = d
    BY <1>2, DigitsApart
  <2>4. h[1] = 10 * 0 + d
    BY <2>2, <2>3 DEF Step
  <2> QED
    BY <2>1, <2>4
<1> QED
  BY <1>1, <1>2

(* FromText in terms of where the two dots are, and of NumberOf. *)
Dots(text) == {i \in 1..(Len(text) - 1) : text[i] = "." /\ text[i + 1] = "."}
Starts(text, k) == {i \in 1..k : \A n \in i..(k - 1) : text[n] \in ToSet(Digits)}
Ends(text, after) == {j \in (after - 1)..Len(text) : \A n \in after..j : text[n] \in ToSet(Digits)}

LEMMA FromTextOf ==
  ASSUME NEW text, NEW k, NEW tag \in {"Inclusive", "Exclusive"}, NEW first, NEW last,
         Dots(text) = {k}, k \in Int,
         tag = "Inclusive" <=> k + 2 <= Len(text) /\ text[k + 2] = "=",
         NEW after, after = IF tag = "Inclusive" THEN k + 3 ELSE k + 2,
         first = Min(Starts(text, k)), last = Max(Ends(text, after))
  PROVE  FromText(text) = MakeRange(tag, NumberOf(SubSeq(text, first, k - 1)), NumberOf(SubSeq(text, after, last)))
<1> DEFINE dots == Dots(text)
           m == Min(dots)
           incl == m + 2 <= Len(text) /\ text[m + 2] = "="
           aft == IF incl THEN m + 3 ELSE m + 2
           fst == Min(Starts(text, m))
           lst == Max(Ends(text, aft))
<1>1. FromText(text) = IF dots = {} THEN Left
                       ELSE MakeRange(IF incl THEN "Inclusive" ELSE "Exclusive",
                                      NumberOf(SubSeq(text, fst, m - 1)), NumberOf(SubSeq(text, aft, lst)))
  BY Zenon DEF FromText, NumberOf, Dots, Starts, Ends
<1>2. dots = {k}
  OBVIOUS
<1> HIDE DEF dots
<1>3. m = k
  BY <1>2, SmallestOf
<1> HIDE DEF m
<1>4. incl <=> tag = "Inclusive"
  BY <1>3
<1> HIDE DEF incl
<1>5. aft = after
  BY <1>3, <1>4
<1> HIDE DEF aft
<1>6. fst = first /\ lst = last
  BY <1>3, <1>5, Zenon
<1> HIDE DEF fst, lst
<1> QED
  BY <1>1, <1>2, <1>3, <1>4, <1>5, <1>6

(* The notation of a range, place by place: the lower bound takes the places to
   p, the upper one those from after. *)
Notation(text, tag, p, low, after, high, negative) ==
  /\ Len(text) = IF negative THEN after + 1 ELSE after
  /\ p = 2 => text[1] = "-"
  /\ text[p] = Digits[low + 1] /\ text[p + 1] = "." /\ text[p + 2] = "."
  /\ tag = "Inclusive" => text[p + 3] = "="
  /\ text[after] = IF negative THEN "-" ELSE Digits[high + 1]
  /\ negative => text[after + 1] = Digits[high + 1]

LEMMA NotationRead ==
  ASSUME NEW E, NEW text \in Seq(E), NEW tag \in {"Inclusive", "Exclusive"}, NEW p \in {1, 2},
         NEW low \in 0..9, NEW high \in 0..9, NEW negative \in BOOLEAN,
         NEW after, after = IF tag = "Inclusive" THEN p + 4 ELSE p + 3,
         Notation(text, tag, p, low, after, high, negative)
  PROVE  FromText(text) = MakeRange(tag, low, IF negative THEN 0 ELSE high)
<1> DEFINE k == p + 1
           L == Len(text)
           last == IF negative THEN after - 1 ELSE after
           starts == Starts(text, k)
           ends == Ends(text, after)
           dots == Dots(text)
<1>1. /\ p \in Int /\ after \in Int /\ L = IF negative THEN after + 1 ELSE after
      /\ text[p] \in ToSet(Digits) /\ text[p] = Digits[low + 1]
      /\ text[after] = IF negative THEN "-" ELSE Digits[high + 1]
      /\ ~negative => text[after] \in ToSet(Digits)
      /\ negative => text[after + 1] \in ToSet(Digits)
  <2>1. p \in Int /\ after \in Int /\ L = IF negative THEN after + 1 ELSE after
    BY DEF Notation
  <2>2. text[p] = Digits[low + 1] /\ text[after] = IF negative THEN "-" ELSE Digits[high + 1]
    BY DEF Notation
  <2>3. negative => text[after + 1] = Digits[high + 1]
    BY DEF Notation
  <2>4. Digits[low + 1] \in ToSet(Digits) /\ Digits[high + 1] \in ToSet(Digits)
    BY DigitsApart
  <2> QED
    BY <2>1, <2>2, <2>3, <2>4
<1>2. dots = {k}
  <2>1. k \in dots
    BY <1>1 DEF Notation, Dots
  <2>2. ASSUME NEW i \in 1..(L - 1), text[i] = ".", text[i + 1] = ".", i # k
        PROVE  FALSE
    <3>1. text[p + 3] # "."
      BY <1>1, DigitsApart DEF Notation
    <3>2. i = p \/ (p = 2 /\ i = 1) \/ i = p + 2 \/ i = p + 3 \/ i = p + 4 \/ i = p + 5
      BY <1>1, <2>2
    <3>3. text[p] # "." /\ (p = 2 => text[1] # ".")
      BY <1>1, DigitsApart DEF Notation
    <3>4. i # p + 2 /\ i # p /\ i # p + 3
      BY <1>1, <2>2, <3>1, <3>3
    <3>5. i # 1 \/ p # 2
      BY <2>2, <3>3
    <3>6. i >= p + 4 => i = after /\ negative
      BY <1>1, <2>2
    <3>7. negative => text[after] # "."
      BY <1>1
    <3> QED
      BY <1>1, <2>2, <3>2, <3>4, <3>5, <3>6, <3>7
  <2> QED
    BY <2>1, <2>2 DEF Dots
<1>3. tag = "Inclusive" <=> k + 2 <= L /\ text[k + 2] = "="
  <2>1. k + 2 = p + 3
    BY <1>1
  <2>2. k + 2 <= L
    BY <1>1
  <2>3. CASE tag = "Inclusive"
    BY <2>1, <2>2, <2>3 DEF Notation
  <2>4. CASE tag # "Inclusive"
    <3>1. after = p + 3
      BY <2>4
    <3>2. text[after] # "="
      BY <1>1, DigitsApart
    <3> QED
      BY <2>1, <2>4, <3>1, <3>2
  <2> QED
    BY <2>3, <2>4
<1>4. after = IF tag = "Inclusive" THEN k + 3 ELSE k + 2
  BY <1>1
<1>5. p = Min(starts)
  <2>1. p \in starts
    <3>1. \A n \in p..(k - 1) : n = p
      BY <1>1
    <3> QED
      BY <1>1, <3>1 DEF Starts
  <2>2. ASSUME NEW i \in starts
        PROVE  p <= i
    <3>1. CASE p = 1
      BY <3>1 DEF Starts
    <3>2. CASE p = 2
      <4>1. 1 \in 1..(k - 1) /\ text[1] \notin ToSet(Digits)
        BY <3>2, DigitsApart DEF Notation
      <4>2. i # 1
        BY <4>1 DEF Starts
      <4> QED
        BY <3>2, <4>2 DEF Starts
    <3> QED
      BY <3>1, <3>2 DEF Starts
  <2>3. starts \in SUBSET Int
    BY DEF Starts
  <2> HIDE DEF starts
  <2> QED
    BY <2>1, <2>2, <2>3, SmallestOf
<1>6. last = Max(ends)
  <2>1. last \in ends
    <3>1. \A n \in after..last : n = after /\ ~negative
      BY <1>1
    <3>2. last \in (after - 1)..L
      BY <1>1
    <3> QED
      BY <1>1, <3>1, <3>2 DEF Ends
  <2>2. ASSUME NEW j \in ends
        PROVE  j <= last
    <3>1. CASE ~negative
      BY <1>1, <3>1 DEF Ends
    <3>2. CASE negative
      <4>1. text[after] \notin ToSet(Digits)
        BY <1>1, <3>2, DigitsApart
      <4>2. after \notin after..j
        BY <4>1 DEF Ends
      <4> QED
        BY <1>1, <3>2, <4>2 DEF Ends
    <3> QED
      BY <3>1, <3>2
  <2>3. ends \in SUBSET Int
    BY <1>1 DEF Ends
  <2> HIDE DEF ends, last
  <2> QED
    BY <2>1, <2>2, <2>3, LargestOf
<1>7. NumberOf(SubSeq(text, p, k - 1)) = low
  <2>1. k - 1 = p /\ p \in 1..L
    BY <1>1
  <2>2. DOMAIN SubSeq(text, p, p) = 1..1 /\ SubSeq(text, p, p)[1] = text[p]
    BY <2>1
  <2> QED
    BY <1>1, <2>1, <2>2, SmallNumbers
<1>8. NumberOf(SubSeq(text, after, last)) = IF negative THEN 0 ELSE high
  <2>1. CASE negative
    <3>1. last = after - 1 /\ after - 1 \in Int /\ after \in Int /\ ~(after <= after - 1)
      BY <1>1, <2>1
    <3>2. DOMAIN SubSeq(text, after, after - 1) = 1..0
      BY <3>1
    <3> QED
      BY <2>1, <3>1, <3>2, SmallNumbers
  <2>2. CASE ~negative
    <3>1. last = after /\ after \in 1..L
      BY <1>1, <2>2
    <3>2. DOMAIN SubSeq(text, after, after) = 1..1 /\ SubSeq(text, after, after)[1] = text[after]
      BY <3>1
    <3> QED
      BY <1>1, <2>2, <3>1, <3>2, SmallNumbers
  <2> QED
    BY <2>1, <2>2
<1>9. FromText(text) = MakeRange(tag, NumberOf(SubSeq(text, p, k - 1)), NumberOf(SubSeq(text, after, last)))
  <2> HIDE DEF last
  <2>1. k \in Int
    BY <1>1
  <2> HIDE DEF k
  <2> QED
    BY <1>2, <1>3, <1>4, <1>5, <1>6, <2>1, FromTextOf
<1> HIDE DEF last, k
<1> QED
  BY <1>7, <1>8, <1>9

(* A bound in decimals: a sign in front of a negative one. *)
DecimalOf(n) == IF n < 0 THEN <<"-", Digits[-n + 1]>> ELSE <<Digits[n + 1]>>

LEMMA JoinedOf ==
  ASSUME NEW E, NEW a \in Seq(E), NEW b \in Seq(E), NEW c \in Seq(E)
  PROVE  /\ a \o b \o c \in Seq(E) /\ Len(a \o b \o c) = Len(a) + Len(b) + Len(c)
         /\ \A i \in 1..Len(a) : (a \o b \o c)[i] = a[i]
         /\ \A i \in 1..Len(b) : (a \o b \o c)[Len(a) + i] = b[i]
         /\ \A i \in 1..Len(c) : (a \o b \o c)[Len(a) + Len(b) + i] = c[i]
<1>1. a \o b \in Seq(E) /\ Len(a \o b) = Len(a) + Len(b) /\ Len(a) \in Nat /\ Len(b) \in Nat /\ Len(c) \in Nat
  OBVIOUS
<1>2. /\ \A i \in 1..Len(a) : (a \o b)[i] = a[i]
      /\ \A i \in 1..Len(b) : (a \o b)[Len(a) + i] = b[i]
  OBVIOUS
<1> DEFINE d == a \o b
<1>3. /\ d \in Seq(E) /\ Len(d) = Len(a) + Len(b)
      /\ \A i \in 1..Len(a) : d[i] = a[i]
      /\ \A i \in 1..Len(b) : d[Len(a) + i] = b[i]
  BY <1>1, <1>2
<1> HIDE DEF d
<1>4. /\ d \o c \in Seq(E) /\ Len(d \o c) = Len(d) + Len(c)
      /\ \A i \in 1..Len(d) : (d \o c)[i] = d[i]
      /\ \A i \in 1..Len(c) : (d \o c)[Len(d) + i] = c[i]
  <2>1. d \in Seq(E)
    BY <1>3
  <2>2. d \o c \in Seq(E) /\ Len(d \o c) = Len(d) + Len(c)
    BY <2>1
  <2>3. /\ \A i \in 1..Len(d) : (d \o c)[i] = d[i]
        /\ \A i \in 1..Len(c) : (d \o c)[Len(d) + i] = c[i]
    BY <2>1
  <2> QED
    BY <2>2, <2>3
<1>5. /\ \A i \in 1..Len(a) : i \in 1..Len(d)
      /\ \A i \in 1..Len(b) : Len(a) + i \in 1..Len(d)
  BY <1>1, <1>3
<1>6. /\ d \o c \in Seq(E) /\ Len(d \o c) = Len(a) + Len(b) + Len(c)
      /\ \A i \in 1..Len(a) : (d \o c)[i] = a[i]
      /\ \A i \in 1..Len(b) : (d \o c)[Len(a) + i] = b[i]
      /\ \A i \in 1..Len(c) : (d \o c)[Len(a) + Len(b) + i] = c[i]
  BY <1>1, <1>3, <1>4, <1>5
<1> QED
  BY <1>6 DEF d

(* For bounds of one digit: reading its notation gives a range back, but for
   the signs of its bounds. *)
LEMMA TextRead ==
  ASSUME NEW tag \in {"Inclusive", "Exclusive"}, NEW min \in -9..9, NEW max \in -9..9
  PROVE  FromText(RangeText(MakeRange(tag, min, max)))
           = MakeRange(tag, IF min < 0 THEN -min ELSE min, IF max < 0 THEN 0 ELSE max)
<1> DEFINE Sign == {"-", ".", "="} \cup ToSet(Digits)
           separator == IF tag = "Inclusive" THEN <<".", ".", "=">> ELSE <<".", ".">>
           text == DecimalOf(min) \o separator \o DecimalOf(max)
           p == IF min < 0 THEN 2 ELSE 1
           low == IF min < 0 THEN -min ELSE min
           high == IF max < 0 THEN -max ELSE max
           negative == max < 0
           after == IF tag = "Inclusive" THEN p + 4 ELSE p + 3
<1>1. RangeText(MakeRange(tag, min, max)) = text
  <2> DEFINE range == MakeRange(tag, min, max)
  <2>1. range.tag = tag /\ range.min = min /\ range.max = max
    BY DEF MakeRange
  <2> HIDE DEF range
  <2> QED
    BY <2>1 DEF RangeText, DecimalOf, range
<1>2. ASSUME NEW n \in -9..9
      PROVE  /\ DecimalOf(n) \in Seq(Sign) /\ Len(DecimalOf(n)) = IF n < 0 THEN 2 ELSE 1
             /\ n < 0 => DecimalOf(n)[1] = "-" /\ DecimalOf(n)[2] = Digits[-n + 1]
             /\ ~(n < 0) => DecimalOf(n)[1] = Digits[n + 1]
  <2>1. CASE n < 0
    <3>1. -n \in 0..9
      BY <2>1
    <3>2. Digits[-n + 1] \in Sign
      BY <3>1, DigitsApart
    <3> HIDE DEF Sign
    <3>3. "-" \in Sign
      BY DEF Sign
    <3> QED
      BY <2>1, <3>2, <3>3 DEF DecimalOf
  <2>2. CASE ~(n < 0)
    <3>1. n \in 0..9
      BY <2>2
    <3>2. Digits[n + 1] \in Sign
      BY <3>1, DigitsApart
    <3> HIDE DEF Sign
    <3> QED
      BY <2>2, <3>2 DEF DecimalOf
  <2> QED
    BY <2>1, <2>2
<1>3. /\ separator \in Seq(Sign) /\ Len(separator) = IF tag = "Inclusive" THEN 3 ELSE 2
      /\ separator[1] = "." /\ separator[2] = "."
      /\ tag = "Inclusive" => separator[3] = "="
  <2>1. "." \in Sign /\ "=" \in Sign
    OBVIOUS
  <2> HIDE DEF Sign
  <2>2. CASE tag = "Inclusive"
    BY <2>1, <2>2
  <2>3. CASE tag # "Inclusive"
    BY <2>1, <2>3
  <2> QED
    BY <2>2, <2>3
<1> HIDE DEF Sign, separator
<1> DEFINE a == DecimalOf(min)
           c == DecimalOf(max)
<1>4. /\ text \in Seq(Sign) /\ Len(text) = Len(a) + Len(separator) + Len(c)
      /\ \A i \in 1..Len(a) : text[i] = a[i]
      /\ \A i \in 1..Len(separator) : text[Len(a) + i] = separator[i]
      /\ \A i \in 1..Len(c) : text[Len(a) + Len(separator) + i] = c[i]
  <2>1. a \in Seq(Sign) /\ c \in Seq(Sign)
    BY <1>2
  <2> HIDE DEF a, c
  <2>2. text = a \o separator \o c
    BY DEF a, c
  <2>3. separator \in Seq(Sign)
    BY <1>3
  <2> HIDE DEF text
  <2>4. /\ a \o separator \o c \in Seq(Sign) /\ Len(a \o separator \o c) = Len(a) + Len(separator) + Len(c)
        /\ \A i \in 1..Len(a) : (a \o separator \o c)[i] = a[i]
        /\ \A i \in 1..Len(separator) : (a \o separator \o c)[Len(a) + i] = separator[i]
        /\ \A i \in 1..Len(c) : (a \o separator \o c)[Len(a) + Len(separator) + i] = c[i]
    BY <2>1, <2>3, JoinedOf
  <2> QED
    BY <2>2, <2>4
<1>5. /\ a[p] = Digits[low + 1]
      /\ p = 2 => a[1] = "-"
      /\ Len(c) = IF negative THEN 2 ELSE 1
      /\ c[1] = IF negative THEN "-" ELSE Digits[high + 1]
      /\ negative => c[2] = Digits[high + 1]
  <2>1. /\ min < 0 => a[1] = "-" /\ a[2] = Digits[-min + 1]
        /\ ~(min < 0) => a[1] = Digits[min + 1]
    BY <1>2
  <2>2. /\ max < 0 => c[1] = "-" /\ c[2] = Digits[-max + 1]
        /\ ~(max < 0) => c[1] = Digits[max + 1]
        /\ Len(c) = IF max < 0 THEN 2 ELSE 1
    BY <1>2
  <2> HIDE DEF a, c
  <2> QED
    BY <2>1, <2>2
<1>6. low \in 0..9 /\ high \in 0..9 /\ p \in {1, 2} /\ negative \in BOOLEAN
  OBVIOUS
<1> HIDE DEF a, c, text
<1>7. Len(a) = p
  BY <1>2 DEF a
<1>8. Len(a) + Len(separator) + 1 = after
  BY <1>3, <1>7
<1> HIDE DEF low, high, negative, p, after
<1>9. Notation(text, tag, p, low, after, high, negative)
  <2>1. Len(text) = IF negative THEN after + 1 ELSE after
    BY <1>3, <1>4, <1>5, <1>6, <1>7, <1>8
  <2>2. text[p] = Digits[low + 1] /\ (p = 2 => text[1] = "-")
    <3>1. p \in 1..Len(a) /\ (p = 2 => 1 \in 1..Len(a))
      BY <1>6, <1>7
    <3> QED
      BY <1>4, <1>5, <3>1
  <2>3. text[p + 1] = "." /\ text[p + 2] = "." /\ (tag = "Inclusive" => text[p + 3] = "=")
    <3>1. 1 \in 1..Len(separator) /\ 2 \in 1..Len(separator)
      BY <1>3
    <3>2. tag = "Inclusive" => 3 \in 1..Len(separator)
      BY <1>3
    <3> QED
      BY <1>3, <1>4, <1>7, <3>1, <3>2
  <2>4. text[after] = IF negative THEN "-" ELSE Digits[high + 1]
    <3>1. 1 \in 1..Len(c)
      BY <1>5
    <3> QED
      BY <1>4, <1>5, <1>8, <3>1
  <2>5. negative => text[after + 1] = Digits[high + 1]
    <3>1. negative => 2 \in 1..Len(c) /\ Len(a) + Len(separator) + 2 = after + 1
      BY <1>3, <1>5, <1>6, <1>7, <1>8
    <3> QED
      BY <1>4, <1>5, <3>1
  <2> QED
    BY <2>1, <2>2, <2>3, <2>4, <2>5 DEF Notation
<1>10. FromText(text) = MakeRange(tag, low, IF negative THEN 0 ELSE high)
  BY <1>4, <1>6, <1>9, NotationRead DEF after
<1> QED
  BY <1>1, <1>10 DEF low, high, negative

(* For every range, and every set of values: a range holds what its bounds say,
   its inclusive and its exclusive form hold the same, and its notation is read
   as the same range just if no bound is negative. *)
THEOREM RangeHoldsWhatItSays ==
  ASSUME NEW tag \in {"Inclusive", "Exclusive"}, NEW min \in -9..9, NEW max \in -9..9,
         NEW values \in SUBSET Int
  PROVE  RangeLaw(MakeRange(tag, min, max), values)
<1> DEFINE range == MakeRange(tag, min, max)
           holds(v) == min <= v /\ (v < max \/ (tag = "Inclusive" /\ v = max))
<1>1. \A t, m, n : /\ MakeRange(t, m, n).tag = t /\ MakeRange(t, m, n).min = m
                   /\ MakeRange(t, m, n).max = n
  BY DEF MakeRange
<1>2. ASSUME NEW t \in {"Inclusive", "Exclusive"}, NEW n \in Int, NEW v \in Int
      PROVE  RangeContains(MakeRange(t, min, n), v)
               <=> min <= v /\ (v < n \/ (t = "Inclusive" /\ v = n))
  BY <1>1 DEF RangeContains, IsInclusive, Between, From
<1>3. Inclusive(range) = IF tag = "Inclusive" THEN range ELSE MakeRange("Inclusive", min, max - 1)
  BY <1>1 DEF Inclusive, IsInclusive
<1>4. Exclusive(range) = IF tag = "Exclusive" THEN range ELSE MakeRange("Exclusive", min, max + 1)
  BY <1>1 DEF Exclusive, IsExclusive
<1>5. \A v \in values : RangeContains(range, v) <=> holds(v)
  BY <1>2
<1>6. \A v \in values : RangeContains(Inclusive(range), v) <=> holds(v)
  BY <1>2, <1>3
<1>7. \A v \in values : RangeContains(Exclusive(range), v) <=> holds(v)
  BY <1>2, <1>4
<1>8. Exclusive(Inclusive(range)) = Exclusive(range)
  <2>1. CASE tag = "Inclusive"
    BY <1>3, <2>1
  <2>2. CASE tag = "Exclusive"
    <3>1. Exclusive(MakeRange("Inclusive", min, max - 1)) = MakeRange("Exclusive", min, (max - 1) + 1)
      BY <1>1 DEF Exclusive, IsExclusive
    <3>2. (max - 1) + 1 = max
      OBVIOUS
    <3> QED
      BY <1>3, <1>4, <2>2, <3>1, <3>2
  <2> QED
    BY <2>1, <2>2
<1>9. FromText(RangeText(range)) = range <=> min >= 0 /\ max >= 0
  <2> DEFINE low == IF min < 0 THEN -min ELSE min
             high == IF max < 0 THEN 0 ELSE max
  <2>1. FromText(RangeText(range)) = MakeRange(tag, low, high)
    BY TextRead
  <2>2. MakeRange(tag, low, high) = range <=> low = min /\ high = max
    <3> HIDE DEF low, high
    <3> QED
      BY <1>1
  <2>3. low = min /\ high = max <=> min >= 0 /\ max >= 0
    OBVIOUS
  <2> QED
    BY <2>1, <2>2, <2>3
<1> HIDE DEF holds
<1>10. range.tag = tag /\ range.min = min /\ range.max = max
  BY <1>1
<1> HIDE DEF range
<1>11. {v \in values : RangeContains(range, v)}
         = {v \in values : range.min <= v /\ (v < range.max \/ (range.tag = "Inclusive" /\ v = range.max))}
  BY <1>5, <1>10 DEF holds
<1>12. \A other \in {Inclusive(range), Exclusive(range)} :
         {v \in values : RangeContains(range, v)} = {v \in values : RangeContains(other, v)}
  BY <1>5, <1>6, <1>7
<1>13. EqualRanges(Exclusive(Inclusive(range)), Exclusive(range))
  BY <1>8 DEF EqualRanges
<1>14. EqualRanges(FromText(RangeText(range)), range) <=> range.min >= 0 /\ range.max >= 0
  BY <1>9, <1>10 DEF EqualRanges
<1>15. RangeLaw(range, values)
  BY <1>11, <1>12, <1>13, <1>14, Zenon DEF RangeLaw
<1> QED
  BY <1>15 DEF range

-----------------------------------------------------------------------------
(* The arguments of a command, by their types *)

(* A word by its type, at any depth. *)
ScalarOf(kind, text, quotedStrings) ==
  CASE kind = "number"     -> Arg!AsNumber(text)
    [] kind = "bigint"     -> Arg!AsBigInt(text)
    [] kind = "string"     -> Arg!AsString(text, quotedStrings)
    [] kind = "boolean"    -> Arg!AsBoolean(text)
    [] kind = "Uint8Array" -> Arg!AsBytes(text, quotedStrings)
    [] OTHER               -> Arg!Value(Arg!Undefined)

LEMMA ScalarAtAnyDepth ==
  ASSUME NEW kind \in Arg!Keyword, NEW text, NEW q
  PROVE  /\ Arg!TransformParam(text, Arg!Scalar(kind), q) = ScalarOf(kind, text, q)
         /\ Arg!TransformInner(text, Arg!Scalar(kind), q) = ScalarOf(kind, text, q)
         /\ Arg!TransformInnermost(text, Arg!Scalar(kind), q) = ScalarOf(kind, text, q)
<1> DEFINE type == Arg!Scalar(kind)
<1>1. type.kind = kind
  BY DEF Arg!Scalar
<1>2. kind # "array" /\ kind # "tuple" /\ kind # "literal"
  BY DEF Arg!Keyword
<1> HIDE DEF type
<1>3. \A inside : Arg!TransformBy(text, type, q, inside) = ScalarOf(kind, text, q)
  BY <1>1, <1>2 DEF Arg!TransformBy, ScalarOf
<1> QED
  BY <1>3 DEF type, Arg!TransformParam, Arg!TransformInner, Arg!TransformInnermost

(* A string or bytes in quotes inside an array, and without them alone. *)
LEMMA QuotedAlike ==
  ASSUME NEW kind \in {"string", "Uint8Array"}, NEW word, word \notin Arg!Apostrophe
  PROVE  ScalarOf(kind, Arg!Quoted(word), TRUE) = ScalarOf(kind, Arg!Bare(word), FALSE)
<1>1. Arg!Plain(Arg!Quoted(word), TRUE) = Arg!Plain(Arg!Bare(word), FALSE)
  BY DEF Arg!Plain, Arg!Unquote, Arg!Quoted, Arg!Bare
<1>2. /\ Arg!Quoted(word).is = "word" /\ Arg!Bare(word).is = "word"
      /\ Arg!Quoted(word) # Arg!Undefined /\ Arg!Bare(word) # Arg!Undefined
  BY DEF Arg!Quoted, Arg!Bare, Arg!Undefined
<1>3. Arg!AsString(Arg!Quoted(word), TRUE) = Arg!AsString(Arg!Bare(word), FALSE)
  BY <1>1, <1>2 DEF Arg!AsString
<1>4. Arg!AsBytes(Arg!Quoted(word), TRUE) = Arg!AsBytes(Arg!Bare(word), FALSE)
  BY <1>1, <1>2 DEF Arg!AsBytes
<1> QED
  BY <1>3, <1>4 DEF ScalarOf

(* A word that JSON5 takes, inside an array and alone. *)
LEMMA BareAlike ==
  ASSUME NEW kind \in Arg!Keyword, NEW word \in Arg!JsonWord,
         word = "0xab" => kind \notin {"string", "Uint8Array"}
  PROVE  ScalarOf(kind, Arg!Stringify(Arg!Bare(word)), TRUE) = ScalarOf(kind, Arg!Bare(word), FALSE)
<1> DEFINE text == Arg!Bare(word)
           inner == Arg!Stringify(text)
<1>1. /\ \A w, words : Arg!IsBare(Arg!Bare(w), words) <=> w \in words
      /\ \A w : Arg!Bare(w).word = w /\ Arg!Bare(w).is = "word"
  BY DEF Arg!IsBare, Arg!Bare
<1>2. inner = Arg!Bare(Arg!Decimal(word))
  BY <1>1 DEF Arg!Stringify
<1>3. CASE word # "0xab"
  <2>1. inner = text
    BY <1>2, <1>3 DEF Arg!Decimal, Arg!JsonWord
  <2>2. Arg!Unquote(text) = text
    BY DEF Arg!Unquote, Arg!Bare, Arg!JsonWord, Arg!Apostrophe
  <2>3. Arg!AsString(text, TRUE) = Arg!AsString(text, FALSE) /\ Arg!AsBytes(text, TRUE) = Arg!AsBytes(text, FALSE)
    BY <2>2 DEF Arg!AsString, Arg!AsBytes, Arg!Plain
  <2> QED
    BY <2>1, <2>3 DEF ScalarOf
<1>4. CASE word = "0xab"
  <2>1. inner = Arg!Bare("171")
    BY <1>2, <1>4 DEF Arg!Decimal
  <2>6. text = Arg!Bare("0xab") /\ "171" \in Arg!Numeral /\ "0xab" \in Arg!Numeral
    BY <1>4 DEF Arg!Numeral
  <2>4. /\ inner.word = "171" /\ text.word = "0xab"
        /\ Arg!IsBare(inner, Arg!Numeral) /\ Arg!IsBare(text, Arg!Numeral)
    <3> HIDE DEF inner, text
    <3> QED
      BY <1>1, <2>1, <2>6
  <2>5. Arg!Decimal(inner.word) = Arg!Decimal(text.word)
    BY <2>4 DEF Arg!Decimal
  <2> HIDE DEF inner, text
  <2>2. Arg!AsNumber(inner) = Arg!AsNumber(text) /\ Arg!AsBigInt(inner) = Arg!AsBigInt(text)
    BY <2>4, <2>5 DEF Arg!AsNumber, Arg!AsBigInt
  <2>3. Arg!AsBoolean(inner) = Arg!AsBoolean(text)
    BY <1>1, <1>4, <2>1 DEF Arg!AsBoolean, Arg!TrueOrFalse, inner, text
  <2> QED
    BY <1>4, <2>2, <2>3 DEF ScalarOf, inner, text
<1> QED
  BY <1>3, <1>4

(* What JSON5 takes inside an array, a tuple or an object: a word as such, and
   an array or an object of words that it takes. *)
Nested(text) == ~Arg!Misread(text) /\ \A part \in Arg!Parts(text) : ~Arg!Misread(part)

LEMMA NestedJson ==
  ASSUME NEW text
  PROVE  /\ Arg!IsJson(Arg!Items(<<text>>)) <=> Nested(text)
         /\ Arg!IsJson(Arg!Items(<<text, text>>)) <=> Nested(text)
         /\ Arg!IsJson(Arg!Fields([a |-> text])) <=> Nested(text)
         /\ Nested(Arg!Items(<<text, text>>)) <=> ~Arg!Misread(text)
         /\ Nested(Arg!Fields([a |-> text])) <=> ~Arg!Misread(text)
<1> DEFINE one == <<text>>
           two == <<text, text>>
           named == [a |-> text]
<1>1. /\ {one[i] : i \in DOMAIN one} = {text} /\ {two[i] : i \in DOMAIN two} = {text}
      /\ {named[n] : n \in DOMAIN named} = {text}
  OBVIOUS
<1> HIDE DEF one, two, named
<1>2. /\ \A s : /\ Arg!Items(s).is = "array" /\ Arg!Items(s).items = s
                /\ Arg!Fields(s).is = "object" /\ Arg!Fields(s).fields = s
  BY DEF Arg!Items, Arg!Fields
<1>3. /\ Arg!Parts(Arg!Items(one)) = {text} /\ Arg!Parts(Arg!Items(two)) = {text}
      /\ Arg!Parts(Arg!Fields(named)) = {text}
  BY <1>1, <1>2 DEF Arg!Parts
<1>4. \A s : ~Arg!Misread(Arg!Items(s)) /\ ~Arg!Misread(Arg!Fields(s))
  BY <1>2 DEF Arg!Misread
<1>5. \A t \in {Arg!Items(one), Arg!Items(two), Arg!Fields(named)} :
        /\ Arg!IsJson(t) <=> Nested(text)
        /\ Nested(t) <=> ~Arg!Misread(text)
  BY <1>2, <1>3, <1>4 DEF Arg!IsJson, Nested
<1> QED
  BY <1>5 DEF one, two, named

(* What it does not take is an error, whatever is declared inside it. *)
LEMMA SyntaxErrors ==
  ASSUME NEW text, NEW type, NEW q, ~Arg!IsJson(text), type.kind \in {"array", "tuple", "literal"}
  PROVE  Arg!TransformParam(text, type, q) = Arg!Failed
<1>1. \A inside : Arg!TransformBy(text, type, q, inside) = Arg!Failed
  BY DEF Arg!TransformBy, Arg!TransformItems, Arg!TransformLiteral
<1> QED
  BY <1>1 DEF Arg!TransformParam

(* One, two or a named one of a result: none of them, if it failed. *)
Single(r) == IF r.ok THEN Arg!Value(<<r.value>>) ELSE Arg!Failed
Twice(r) == IF r.ok THEN Arg!Value(<<r.value, r.value>>) ELSE Arg!Failed
Object(value) == [null |-> FALSE, members |-> [a |-> value], rest |-> [name \in {} |-> value]]
Named(r) == IF r.ok THEN Arg!Value(Object(r.value)) ELSE Arg!Failed

(* One argument, or two with results that are alike. *)
LEMMA FewParams ==
  ASSUME NEW args, NEW types, NEW results, NEW r, results[1] = r
  PROVE  /\ DOMAIN types = 1..1 /\ Len(types) = 1 /\ Len(args) = 1 =>
              Arg!TransformParams(args, types, results) = Single(r)
         /\ DOMAIN types = 1..2 /\ Len(types) = 2 /\ Len(args) = 2 /\ results[2] = r =>
              Arg!TransformParams(args, types, results) = Twice(r)
<1>1. 1..1 = {1} /\ 1..2 = {1, 2}
  OBVIOUS
<1>2. [i \in 1..1 |-> results[i].value] = <<r.value>>
  OBVIOUS
<1>3. results[2] = r => [i \in 1..2 |-> results[i].value] = <<r.value, r.value>>
  OBVIOUS
<1> QED
  BY <1>1, <1>2, <1>3 DEF Arg!TransformParams, Single, Twice

(* An argument on its own. *)
LEMMA ParsedAlone ==
  ASSUME NEW text, NEW type
  PROVE  Arg!TransformArgs(<<text>>, <<type>>) = Single(Arg!TransformParam(text, type, FALSE))
<1> DEFINE args == <<text>>
           types == <<type>>
           no == FALSE
           results == [i \in DOMAIN types |-> Arg!TransformParam(args[i], types[i], no)]
<1>1. DOMAIN types = 1..1 /\ Len(types) = 1 /\ Len(args) = 1 /\ args[1] = text /\ types[1] = type
  OBVIOUS
<1> HIDE DEF args, types, no
<1>2. results[1] = Arg!TransformParam(text, type, no)
  BY <1>1
<1> HIDE DEF results
<1>3. Arg!TransformParams(args, types, results) = Single(Arg!TransformParam(text, type, no))
  BY <1>1, <1>2, FewParams
<1> QED
  BY <1>3 DEF results, args, types, no, Arg!TransformArgs

(* What became of the texts inside a text, at the first and the second level. *)
InsideParam(text, type) ==
  [i \in DOMAIN Arg!InnerTypes(text, type) |->
     Arg!TransformInner(Arg!InnerText(text, type, i), Arg!InnerTypes(text, type)[i], TRUE)]
InsideInner(text, type) ==
  [i \in DOMAIN Arg!InnerTypes(text, type) |->
     Arg!TransformInnermost(Arg!InnerText(text, type, i), Arg!InnerTypes(text, type)[i], TRUE)]

LEMMA Inside ==
  ASSUME NEW text, NEW type, NEW q
  PROVE  /\ Arg!TransformParam(text, type, q) = Arg!TransformBy(text, type, q, InsideParam(text, type))
         /\ Arg!TransformInner(text, type, q) = Arg!TransformBy(text, type, q, InsideInner(text, type))
BY DEF Arg!TransformParam, Arg!TransformInner, InsideParam, InsideInner

(* An item, or a member. *)
LEMMA InsideAt ==
  ASSUME NEW text, NEW type, NEW types, Arg!InnerTypes(text, type) = types
  PROVE  \A i \in DOMAIN types :
           /\ InsideParam(text, type)[i]
                = Arg!TransformInner(Arg!InnerText(text, type, i), types[i], TRUE)
           /\ InsideInner(text, type)[i]
                = Arg!TransformInnermost(Arg!InnerText(text, type, i), types[i], TRUE)
BY DEF InsideParam, InsideInner

HasItems(type) == type.kind \in {"array", "tuple"}

(* The items of an array or a tuple are transformed one by one. *)
LEMMA ItemsRead ==
  ASSUME NEW s, NEW type, NEW q, HasItems(type), Arg!IsJson(Arg!Items(s))
  PROVE  LET items == Arg!Items(s)
             types == Arg!InnerTypes(items, type)
         IN /\ Arg!TransformParam(items, type, q) = Arg!TransformParams(s, types, InsideParam(items, type))
            /\ Arg!TransformInner(items, type, q) = Arg!TransformParams(s, types, InsideInner(items, type))
            /\ \A i \in DOMAIN types :
                 /\ InsideParam(items, type)[i] = Arg!TransformInner(Arg!Stringify(s[i]), types[i], TRUE)
                 /\ InsideInner(items, type)[i] = Arg!TransformInnermost(Arg!Stringify(s[i]), types[i], TRUE)
<1> DEFINE items == Arg!Items(s)
<1>1. items.is = "array" /\ items.items = s /\ \A i : Arg!InnerText(items, type, i) = Arg!Stringify(s[i])
  BY DEF Arg!Items, Arg!InnerText, HasItems
<1> DEFINE types == Arg!InnerTypes(items, type)
<1>2. Arg!InnerTypes(items, type) = types
  OBVIOUS
<1> HIDE DEF items, types
<1>3. \A inside : Arg!TransformBy(items, type, q, inside) = Arg!TransformParams(s, types, inside)
  <2>1. Arg!IsJson(items)
    BY DEF items
  <2> QED
    BY <1>1, <1>2, <2>1 DEF Arg!TransformBy, Arg!TransformItems, HasItems
<1>4. /\ Arg!TransformParam(items, type, q) = Arg!TransformParams(s, types, InsideParam(items, type))
      /\ Arg!TransformInner(items, type, q) = Arg!TransformParams(s, types, InsideInner(items, type))
  BY <1>3, Inside
<1>5. \A i \in DOMAIN types :
        /\ InsideParam(items, type)[i] = Arg!TransformInner(Arg!Stringify(s[i]), types[i], TRUE)
        /\ InsideInner(items, type)[i] = Arg!TransformInnermost(Arg!Stringify(s[i]), types[i], TRUE)
  <2>1. \A i \in DOMAIN types :
          /\ InsideParam(items, type)[i]
               = Arg!TransformInner(Arg!InnerText(items, type, i), types[i], TRUE)
          /\ InsideInner(items, type)[i]
               = Arg!TransformInnermost(Arg!InnerText(items, type, i), types[i], TRUE)
    BY <1>2, InsideAt
  <2> QED
    BY <1>1, <2>1
<1> QED
  BY <1>4, <1>5 DEF items, types

(* One item, or two that are alike. *)
LEMMA FewItems ==
  ASSUME NEW s, NEW type, NEW q, HasItems(type), Arg!IsJson(Arg!Items(s))
  PROVE  LET types == Arg!InnerTypes(Arg!Items(s), type)
         IN /\ DOMAIN types = 1..1 /\ Len(types) = 1 /\ Len(s) = 1 =>
                 Arg!TransformParam(Arg!Items(s), type, q) = Single(Arg!TransformInner(Arg!Stringify(s[1]), types[1], TRUE))
            /\ /\ DOMAIN types = 1..2 /\ Len(types) = 2 /\ Len(s) = 2
               /\ s[2] = s[1] /\ types[2] = types[1]
               => /\ Arg!TransformParam(Arg!Items(s), type, q)
                       = Twice(Arg!TransformInner(Arg!Stringify(s[1]), types[1], TRUE))
                  /\ Arg!TransformInner(Arg!Items(s), type, q)
                       = Twice(Arg!TransformInnermost(Arg!Stringify(s[1]), types[1], TRUE))
<1> DEFINE first == InsideParam(Arg!Items(s), type)
           second == InsideInner(Arg!Items(s), type)
           types == Arg!InnerTypes(Arg!Items(s), type)
           yes == TRUE
           t == Arg!Stringify(s[1])
           of == types[1]
<1>1. /\ Arg!TransformParam(Arg!Items(s), type, q) = Arg!TransformParams(s, types, first)
      /\ Arg!TransformInner(Arg!Items(s), type, q) = Arg!TransformParams(s, types, second)
      /\ \A i \in DOMAIN types : /\ first[i] = Arg!TransformInner(Arg!Stringify(s[i]), types[i], yes)
                                /\ second[i] = Arg!TransformInnermost(Arg!Stringify(s[i]), types[i], yes)
  BY ItemsRead
<1>2. 1 \in 1..1 /\ 1 \in 1..2 /\ 2 \in 1..2
  OBVIOUS
<1> HIDE DEF first, second, types, yes
<1>3. ASSUME DOMAIN types = 1..1, Len(types) = 1, Len(s) = 1
      PROVE  Arg!TransformParam(Arg!Items(s), type, q) = Single(Arg!TransformInner(t, of, yes))
  <2>1. first[1] = Arg!TransformInner(t, of, yes)
    BY <1>1, <1>2, <1>3
  <2> HIDE DEF t, of
  <2>2. Arg!TransformParams(s, types, first) = Single(Arg!TransformInner(t, of, yes))
    BY <1>3, <2>1, FewParams
  <2> QED
    BY <1>1, <2>2
<1>4. ASSUME DOMAIN types = 1..2, Len(types) = 2, Len(s) = 2, s[2] = s[1], types[2] = types[1]
      PROVE  /\ Arg!TransformParam(Arg!Items(s), type, q) = Twice(Arg!TransformInner(t, of, yes))
             /\ Arg!TransformInner(Arg!Items(s), type, q) = Twice(Arg!TransformInnermost(t, of, yes))
  <2>1. /\ first[1] = Arg!TransformInner(t, of, yes)
        /\ second[1] = Arg!TransformInnermost(t, of, yes)
    BY <1>1, <1>2, <1>4
  <2>2. /\ first[2] = Arg!TransformInner(t, of, yes)
        /\ second[2] = Arg!TransformInnermost(t, of, yes)
    BY <1>1, <1>2, <1>4
  <2> HIDE DEF t, of
  <2>3. Arg!TransformParams(s, types, first) = Twice(Arg!TransformInner(t, of, yes))
    BY <1>4, <2>1, <2>2, FewParams
  <2>4. Arg!TransformParams(s, types, second) = Twice(Arg!TransformInnermost(t, of, yes))
    BY <1>4, <2>1, <2>2, FewParams
  <2> QED
    BY <1>1, <2>3, <2>4
<1> QED
  BY <1>3, <1>4 DEF types, yes

(* One text or two of them inside an array, at the first and the second level. *)
LEMMA ArrayAtAnyDepth ==
  ASSUME NEW text, NEW type, NEW q, Nested(text)
  PROVE  /\ Arg!TransformParam(Arg!Items(<<text>>), Arg!ArrayOf(type), q)
              = Single(Arg!TransformInner(Arg!Stringify(text), type, TRUE))
         /\ Arg!TransformParam(Arg!Items(<<text, text>>), Arg!ArrayOf(type), q)
              = Twice(Arg!TransformInner(Arg!Stringify(text), type, TRUE))
         /\ Arg!TransformInner(Arg!Items(<<text, text>>), Arg!ArrayOf(type), q)
              = Twice(Arg!TransformInnermost(Arg!Stringify(text), type, TRUE))
<1> DEFINE one == <<text>>
           two == <<text, text>>
           array == Arg!ArrayOf(type)
<1>1. /\ DOMAIN one = 1..1 /\ Len(one) = 1 /\ one[1] = text
      /\ DOMAIN two = 1..2 /\ Len(two) = 2 /\ two[1] = text /\ two[2] = text
  OBVIOUS
<1>8. Arg!IsJson(Arg!Items(one)) /\ Arg!IsJson(Arg!Items(two))
  BY NestedJson
<1>2. array.kind = "array" /\ array.element = type /\ HasItems(array)
  BY DEF Arg!ArrayOf, HasItems
<1> HIDE DEF one, two, array
<1>3. \A s : Arg!InnerTypes(Arg!Items(s), array) = [i \in DOMAIN s |-> type]
  BY <1>2 DEF Arg!InnerTypes, Arg!Items
<1> DEFINE first == Arg!InnerTypes(Arg!Items(one), array)
           both == Arg!InnerTypes(Arg!Items(two), array)
<1>4. /\ DOMAIN first = 1..1 /\ Len(first) = 1 /\ first[1] = type
      /\ DOMAIN both = 1..2 /\ Len(both) = 2 /\ both[1] = type /\ both[2] = type
  <2>1. first = [i \in 1..1 |-> type] /\ both = [i \in 1..2 |-> type]
    BY <1>1, <1>3
  <2> HIDE DEF first, both
  <2> QED
    BY <2>1
<1> DEFINE yes == TRUE
<1>5. Arg!TransformParam(Arg!Items(one), array, q) = Single(Arg!TransformInner(Arg!Stringify(one[1]), first[1], yes))
  BY <1>1, <1>2, <1>4, <1>8, FewItems
<1>6. /\ Arg!TransformParam(Arg!Items(two), array, q) = Twice(Arg!TransformInner(Arg!Stringify(two[1]), both[1], yes))
      /\ Arg!TransformInner(Arg!Items(two), array, q) = Twice(Arg!TransformInnermost(Arg!Stringify(two[1]), both[1], yes))
  BY <1>1, <1>2, <1>4, <1>8, FewItems
<1> HIDE DEF first, both, yes
<1>7. /\ Arg!TransformParam(Arg!Items(one), array, q) = Single(Arg!TransformInner(Arg!Stringify(text), type, yes))
      /\ Arg!TransformParam(Arg!Items(two), array, q) = Twice(Arg!TransformInner(Arg!Stringify(text), type, yes))
      /\ Arg!TransformInner(Arg!Items(two), array, q) = Twice(Arg!TransformInnermost(Arg!Stringify(text), type, yes))
  BY <1>1, <1>4, <1>5, <1>6
<1> QED
  BY <1>7 DEF one, two, array, yes

(* Two texts inside a tuple of two, and one that is not enough. *)
LEMMA TupleRead ==
  ASSUME NEW text, NEW type, NEW q
  PROVE  /\ Nested(text) =>
              Arg!TransformParam(Arg!Items(<<text, text>>), Arg!TupleOf(<<type, type>>), q)
                = Twice(Arg!TransformInner(Arg!Stringify(text), type, TRUE))
         /\ Arg!TransformParam(Arg!Items(<<text>>), Arg!TupleOf(<<type, type>>), q) = Arg!Failed
<1> DEFINE one == <<text>>
           two == <<text, text>>
           types == <<type, type>>
           tuple == Arg!TupleOf(types)
<1>1. /\ Len(one) = 1
      /\ Len(two) = 2 /\ two[1] = text /\ two[2] = text
      /\ DOMAIN types = 1..2 /\ Len(types) = 2 /\ types[1] = type /\ types[2] = type
  OBVIOUS
<1> HIDE DEF one, two, types
<1>2. tuple.kind = "tuple" /\ tuple.elements = types /\ HasItems(tuple)
  BY DEF Arg!TupleOf, HasItems
<1> HIDE DEF tuple
<1>3. \A s : Arg!InnerTypes(Arg!Items(s), tuple) = types
  BY <1>2 DEF Arg!InnerTypes
<1>4. ASSUME Nested(text)
      PROVE  Arg!TransformParam(Arg!Items(two), tuple, q)
               = Twice(Arg!TransformInner(Arg!Stringify(text), type, TRUE))
  <2> DEFINE yes == TRUE
  <2> DEFINE both == Arg!InnerTypes(Arg!Items(two), tuple)
  <2>1. both = types
    BY <1>3
  <2>2. DOMAIN both = 1..2 /\ Len(both) = 2 /\ both[1] = type /\ both[2] = type
    BY <1>1, <2>1
  <2>5. Arg!IsJson(Arg!Items(two))
    BY <1>4, NestedJson DEF two
  <2>3. Arg!TransformParam(Arg!Items(two), tuple, q) = Twice(Arg!TransformInner(Arg!Stringify(two[1]), both[1], yes))
    BY <1>1, <1>2, <2>2, <2>5, FewItems
  <2> HIDE DEF both, yes
  <2>4. Arg!TransformParam(Arg!Items(two), tuple, q) = Twice(Arg!TransformInner(Arg!Stringify(text), type, yes))
    BY <1>1, <2>2, <2>3
  <2> QED
    BY <2>4 DEF yes
<1>5. Arg!TransformParam(Arg!Items(one), tuple, q) = Arg!Failed
  <2>1. Arg!Items(one).is = "array" /\ Arg!Items(one).items = one
    BY DEF Arg!Items
  <2>2. \A inside : Arg!TransformBy(Arg!Items(one), tuple, q, inside)
                      \in {Arg!Failed, Arg!TransformParams(one, types, inside)}
    BY <1>2, <1>3, <2>1 DEF Arg!TransformBy, Arg!TransformItems
  <2> QED
    BY <1>1, <2>2, Inside DEF Arg!TransformParams
<1> QED
  BY <1>4, <1>5 DEF one, two, types, tuple

(* A text under a name. *)
LEMMA FieldRead ==
  ASSUME NEW text, NEW type, NEW q, Nested(text)
  PROVE  /\ Arg!TransformParam(Arg!Fields([a |-> text]), Arg!LiteralOf([a |-> type]), q)
              = Named(Arg!TransformInner(Arg!Stringify(text), type, TRUE))
         /\ Arg!TransformInner(Arg!Fields([a |-> text]), Arg!LiteralOf([a |-> type]), q)
              = Named(Arg!TransformInnermost(Arg!Stringify(text), type, TRUE))
<1> DEFINE fields == Arg!Fields([a |-> text])
           literal == Arg!LiteralOf([a |-> type])
<1>1. /\ literal.kind = "literal" /\ DOMAIN literal.members = {"a"} /\ literal.members["a"] = type
      /\ fields.is = "object" /\ DOMAIN fields.fields = {"a"} /\ fields.fields["a"] = text
  BY DEF Arg!LiteralOf, Arg!Fields
<1>7. Arg!IsJson(fields)
  BY NestedJson
<1> HIDE DEF fields, literal
<1>2. /\ Arg!InnerTypes(fields, literal) = literal.members
      /\ Arg!InnerText(fields, literal, "a") = Arg!Stringify(text)
  BY <1>1 DEF Arg!InnerTypes, Arg!InnerText
<1>3. /\ InsideParam(fields, literal)["a"] = Arg!TransformInner(Arg!Stringify(text), type, TRUE)
      /\ InsideInner(fields, literal)["a"] = Arg!TransformInnermost(Arg!Stringify(text), type, TRUE)
  <2> DEFINE types == literal.members
  <2>1. Arg!InnerTypes(fields, literal) = types /\ "a" \in DOMAIN types /\ types["a"] = type
    BY <1>1, <1>2
  <2> HIDE DEF types
  <2>2. \A i \in DOMAIN types :
          /\ InsideParam(fields, literal)[i]
               = Arg!TransformInner(Arg!InnerText(fields, literal, i), types[i], TRUE)
          /\ InsideInner(fields, literal)[i]
               = Arg!TransformInnermost(Arg!InnerText(fields, literal, i), types[i], TRUE)
    BY <2>1, InsideAt
  <2> QED
    BY <1>2, <2>1, <2>2
<1>4. ASSUME NEW inside, NEW r, inside["a"] = r
      PROVE  Arg!TransformBy(fields, literal, q, inside) = Named(r)
  <2>1. Arg!TransformBy(fields, literal, q, inside) = Arg!TransformLiteral(fields, literal, inside)
    BY <1>1 DEF Arg!TransformBy
  <2>2. fields # Arg!Bare("null")
    BY <1>1 DEF Arg!Bare
  <2> DEFINE rest == [name \in DOMAIN fields.fields \ DOMAIN literal.members |-> fields.fields[name]]
             members == [name \in DOMAIN literal.members |-> inside[name].value]
  <2>3. members = [a |-> r.value]
    BY <1>1, <1>4
  <2>4. rest = [name \in {} |-> r.value]
    BY <1>1
  <2>5. Arg!TransformLiteral(fields, literal, inside)
          = IF ~r.ok THEN Arg!Failed
            ELSE Arg!Value([null |-> FALSE, members |-> members, rest |-> rest])
    BY <1>1, <1>4, <1>7, <2>2 DEF Arg!TransformLiteral
  <2> QED
    BY <2>1, <2>3, <2>4, <2>5 DEF Named, Object
<1>5. Arg!TransformParam(fields, literal, q) = Named(Arg!TransformInner(Arg!Stringify(text), type, TRUE))
  BY <1>3, <1>4, Inside
<1>6. Arg!TransformInner(fields, literal, q) = Named(Arg!TransformInnermost(Arg!Stringify(text), type, TRUE))
  BY <1>3, <1>4, Inside
<1> QED
  BY <1>5, <1>6 DEF fields, literal

(* A word inside an array, a tuple or an object, and an array of those. *)
Containers(kind, text) ==
  LET type == Arg!Scalar(kind)
      parse(texts, of) == Arg!TransformArgs(<<texts>>, <<of>>)
  IN [array |-> parse(Arg!Items(<<text, text>>), Arg!ArrayOf(type)),
      tuple |-> parse(Arg!Items(<<text, text>>), Arg!TupleOf(<<type, type>>)),
      object |-> parse(Arg!Fields([a |-> text]), Arg!LiteralOf([a |-> type])),
      arrays |-> parse(Arg!Items(<<Arg!Items(<<text, text>>)>>), Arg!ArrayOf(Arg!ArrayOf(type))),
      objects |-> parse(Arg!Items(<<Arg!Fields([a |-> text])>>), Arg!ArrayOf(Arg!LiteralOf([a |-> type])))]

LEMMA Contained ==
  ASSUME NEW kind \in Arg!Keyword, NEW text, text.is = "word", ~Arg!Misread(text)
  PROVE  LET r == ScalarOf(kind, Arg!Stringify(text), TRUE) IN
         Containers(kind, text) = [array |-> Single(Twice(r)), tuple |-> Single(Twice(r)),
                                   object |-> Single(Named(r)), arrays |-> Single(Single(Twice(r))),
                                   objects |-> Single(Single(Named(r)))]
<1> DEFINE type == Arg!Scalar(kind)
           inner == Arg!Stringify(text)
           yes == TRUE
           r == ScalarOf(kind, inner, yes)
           pair == Arg!Items(<<text, text>>)
           field == Arg!Fields([a |-> text])
           array == Arg!ArrayOf(type)
           tuple == Arg!TupleOf(<<type, type>>)
           literal == Arg!LiteralOf([a |-> type])
           parse(texts, of) == Arg!TransformArgs(<<texts>>, <<of>>)
<1>1. Nested(text)
  BY DEF Nested, Arg!Parts
<1>2. Nested(pair) /\ Nested(field)
  BY NestedJson
<1>3. Arg!Stringify(pair) = pair /\ Arg!Stringify(field) = field
  BY DEF Arg!Stringify, Arg!IsBare, Arg!Items, Arg!Fields
<1>4. Arg!TransformInner(inner, type, yes) = r /\ Arg!TransformInnermost(inner, type, yes) = r
  BY ScalarAtAnyDepth
<1>5. \A texts, of : parse(texts, of) = Single(Arg!TransformParam(texts, of, FALSE))
  BY ParsedAlone
<1>6. /\ Arg!TransformParam(pair, array, FALSE) = Twice(Arg!TransformInner(inner, type, yes))
      /\ Arg!TransformInner(pair, array, yes) = Twice(Arg!TransformInnermost(inner, type, yes))
  BY <1>1, ArrayAtAnyDepth
<1>7. Arg!TransformParam(pair, tuple, FALSE) = Twice(Arg!TransformInner(inner, type, yes))
  BY <1>1, TupleRead
<1>8. /\ Arg!TransformParam(field, literal, FALSE) = Named(Arg!TransformInner(inner, type, yes))
      /\ Arg!TransformInner(field, literal, yes) = Named(Arg!TransformInnermost(inner, type, yes))
  BY <1>1, FieldRead
<1>9. /\ Arg!TransformParam(Arg!Items(<<pair>>), Arg!ArrayOf(array), FALSE)
           = Single(Arg!TransformInner(Arg!Stringify(pair), array, yes))
      /\ Arg!TransformParam(Arg!Items(<<field>>), Arg!ArrayOf(literal), FALSE)
           = Single(Arg!TransformInner(Arg!Stringify(field), literal, yes))
  <2> HIDE DEF pair, field, array, literal
  <2> QED
    BY <1>2, ArrayAtAnyDepth
<1> HIDE DEF type, inner, yes, r, pair, field, array, tuple, literal, parse
<1>10. /\ parse(pair, array) = Single(Twice(r)) /\ parse(pair, tuple) = Single(Twice(r))
       /\ parse(field, literal) = Single(Named(r))
       /\ parse(Arg!Items(<<pair>>), Arg!ArrayOf(array)) = Single(Single(Twice(r)))
       /\ parse(Arg!Items(<<field>>), Arg!ArrayOf(literal)) = Single(Single(Named(r)))
  BY <1>3, <1>4, <1>5, <1>6, <1>7, <1>8, <1>9
<1>11. Containers(kind, text) = [array |-> parse(pair, array), tuple |-> parse(pair, tuple),
                                object |-> parse(field, literal),
                                arrays |-> parse(Arg!Items(<<pair>>), Arg!ArrayOf(array)),
                                objects |-> parse(Arg!Items(<<field>>), Arg!ArrayOf(literal))]
  BY DEF Containers, type, pair, field, array, tuple, literal, parse
<1> QED
  BY <1>10, <1>11 DEF inner, yes, r

(* They succeed and fail together, and hold the same value. *)
LEMMA ContainersAlike ==
  ASSUME NEW r, r.ok = TRUE \/ r.ok = FALSE
  PROVE  /\ Single(r).ok = r.ok /\ Single(Twice(r)).ok = r.ok /\ Single(Named(r)).ok = r.ok
         /\ Single(Single(Twice(r))).ok = r.ok /\ Single(Single(Named(r))).ok = r.ok
         /\ r.ok => /\ Single(Twice(r)).value[1] = Single(r).value \o Single(r).value
                    /\ Single(Named(r)).value[1].members.a = Single(r).value[1]
                    /\ Single(Single(Twice(r))).value[1] = Single(Twice(r)).value
                    /\ Single(Single(Named(r))).value[1] = Single(Named(r)).value
<1> DEFINE two == <<r.value, r.value>>
           named == Object(r.value)
<1>1. Arg!Failed.ok = FALSE /\ \A v : Arg!Value(v).ok = TRUE /\ Arg!Value(v).value = v
  BY DEF Arg!Failed, Arg!Value
<1>2. \A v : Single(Arg!Value(v)) = Arg!Value(<<v>>)
  BY <1>1 DEF Single
<1>3. Single(Arg!Failed) = Arg!Failed
  BY <1>1 DEF Single
<1>4. CASE r.ok
  <2>1. Single(r) = Arg!Value(<<r.value>>) /\ Twice(r) = Arg!Value(two) /\ Named(r) = Arg!Value(named)
    BY <1>4 DEF Single, Twice, Named
  <2>2. two = <<r.value>> \o <<r.value>> /\ named.members.a = r.value
    BY DEF Object
  <2> HIDE DEF two, named
  <2>3. /\ Single(Twice(r)) = Arg!Value(<<two>>) /\ Single(Named(r)) = Arg!Value(<<named>>)
        /\ Single(Arg!Value(<<two>>)) = Arg!Value(<< <<two>> >>)
        /\ Single(Arg!Value(<<named>>)) = Arg!Value(<< <<named>> >>)
    BY <1>2, <2>1
  <2>4. <<two>>[1] = two /\ <<named>>[1] = named /\ <<r.value>>[1] = r.value
    OBVIOUS
  <2>5. << <<two>> >>[1] = <<two>> /\ << <<named>> >>[1] = <<named>>
    OBVIOUS
  <2>6. r.ok = TRUE
    BY <1>4
  <2>7. /\ Single(r).value = <<r.value>> /\ Single(Twice(r)).value = <<two>>
        /\ Single(Named(r)).value = <<named>>
        /\ Single(Single(Twice(r))).value = << <<two>> >>
        /\ Single(Single(Named(r))).value = << <<named>> >>
    BY <1>1, <2>1, <2>3
  <2>8. /\ Single(r).ok = TRUE /\ Single(Twice(r)).ok = TRUE /\ Single(Named(r)).ok = TRUE
        /\ Single(Single(Twice(r))).ok = TRUE /\ Single(Single(Named(r))).ok = TRUE
    BY <1>1, <2>1, <2>3
  <2> QED
    BY <2>2, <2>4, <2>5, <2>6, <2>7, <2>8
<1>5. CASE ~r.ok
  <2>1. Single(r) = Arg!Failed /\ Twice(r) = Arg!Failed /\ Named(r) = Arg!Failed
    BY <1>5 DEF Single, Twice, Named
  <2> QED
    BY <1>1, <1>3, <1>5, <2>1
<1> QED
  BY <1>4, <1>5

(* For every type and every word that is modelled: a word that JSON5 takes is
   the same value inside an array, a tuple or an object, and inside an array of
   those, as on its own, or in all of them it is an error, but for a hexadecimal
   numeral as a string or bytes; one that it does not take is an error there;
   strings and bytes in quotes there are read as they are alone without them;
   and a tuple that lacks an element is an error. *)
THEOREM WordsAreReadAlike ==
  ASSUME NEW kind \in Arg!Keyword, NEW word
  PROVE  Arg!ArgumentLaw(kind, word)
<1> DEFINE type == Arg!Scalar(kind)
           parse(texts, of) == Arg!TransformArgs(<<texts>>, <<of>>)
           alone == parse(Arg!Bare(word), type)
           in(text) == Containers(kind, text)
           inside(text) == {in(text).array.ok, in(text).tuple.ok, in(text).object.ok,
                            in(text).arrays.ok, in(text).objects.ok}
           alike(text) ==
             /\ inside(text) = {alone.ok}
             /\ alone.ok => /\ in(text).array.value[1] = alone.value \o alone.value
                            /\ in(text).tuple.value[1] = in(text).array.value[1]
                            /\ in(text).object.value[1].members.a = alone.value[1]
                            /\ in(text).arrays.value[1] = in(text).array.value
                            /\ in(text).objects.value[1] = in(text).object.value
           short(text) == parse(Arg!Items(<<text>>), Arg!TupleOf(<<type, type>>))
<1>1. alone = Single(ScalarOf(kind, Arg!Bare(word), FALSE))
  BY ParsedAlone, ScalarAtAnyDepth
<1>2. ASSUME NEW text, text.is = "word", ~Arg!Misread(text),
             ScalarOf(kind, Arg!Stringify(text), TRUE) = ScalarOf(kind, Arg!Bare(word), FALSE)
      PROVE  alike(text)
  <2> DEFINE r == ScalarOf(kind, Arg!Bare(word), FALSE)
  <2>1. r.ok = TRUE \/ r.ok = FALSE
    BY DEF ScalarOf, Arg!AsNumber, Arg!AsBigInt, Arg!AsString, Arg!AsBoolean, Arg!AsBytes, Arg!Value,
           Arg!Failed
  <2>2. in(text) = [array |-> Single(Twice(r)), tuple |-> Single(Twice(r)),
                    object |-> Single(Named(r)), arrays |-> Single(Single(Twice(r))),
                    objects |-> Single(Single(Named(r)))]
    BY <1>2, Contained
  <2> HIDE DEF r, in, alone
  <2>3. /\ in(text).array = Single(Twice(r)) /\ in(text).tuple = Single(Twice(r))
        /\ in(text).object = Single(Named(r)) /\ in(text).arrays = Single(Single(Twice(r)))
        /\ in(text).objects = Single(Single(Named(r)))
    BY <2>2
  <2>4. alone = Single(r)
    BY <1>1 DEF r
  <2> DEFINE array == Single(Twice(r))
             object == Single(Named(r))
             one == Single(r)
  <2>7. /\ one.ok = r.ok /\ array.ok = r.ok /\ object.ok = r.ok
        /\ Single(array).ok = r.ok /\ Single(object).ok = r.ok
        /\ r.ok => /\ array.value[1] = one.value \o one.value
                   /\ object.value[1].members.a = one.value[1]
                   /\ Single(array).value[1] = array.value
                   /\ Single(object).value[1] = object.value
    <3>1. r.ok = TRUE \/ r.ok = FALSE
      BY <2>1
    <3> QED
      BY ONLY <3>1, ContainersAlike
  <2>8. alone = one
    BY <2>4
  <2> HIDE DEF array, object, one
  <2>5. /\ alone.ok = r.ok /\ array.ok = r.ok /\ object.ok = r.ok
        /\ Single(array).ok = r.ok /\ Single(object).ok = r.ok
        /\ alone.ok => /\ array.value[1] = alone.value \o alone.value
                       /\ object.value[1].members.a = alone.value[1]
                       /\ Single(array).value[1] = array.value
                       /\ Single(object).value[1] = object.value
    BY <2>7, <2>8
  <2>6. /\ in(text).array = array /\ in(text).tuple = array /\ in(text).object = object
        /\ in(text).arrays = Single(array) /\ in(text).objects = Single(object)
    BY <2>3 DEF array, object
  <2> QED
    BY <2>5, <2>6
<1>3. /\ Arg!Bare(word).is = "word" /\ Arg!Quoted(word).is = "word" /\ ~Arg!Misread(Arg!Quoted(word))
      /\ Arg!Misread(Arg!Bare(word)) <=> word \notin Arg!JsonWord
      /\ Arg!Stringify(Arg!Quoted(word)) = Arg!Quoted(word)
  BY DEF Arg!Bare, Arg!Quoted, Arg!Misread, Arg!Stringify, Arg!IsBare
<1>4. ASSUME word \in Arg!JsonWord, word = "0xab" => kind \notin {"string", "Uint8Array"}
      PROVE  alike(Arg!Bare(word))
  BY <1>2, <1>3, <1>4, BareAlike
<1>5. ASSUME word \notin Arg!JsonWord
      PROVE  inside(Arg!Bare(word)) = {FALSE}
  <2> DEFINE text == Arg!Bare(word)
             pair == Arg!Items(<<text, text>>)
             field == Arg!Fields([a |-> text])
             nested == {"array", "tuple", "literal"}
  <2>1. ~Nested(text) /\ ~Nested(pair) /\ ~Nested(field)
    BY <1>3, <1>5, NestedJson DEF Nested
  <2> HIDE DEF text
  <2>2. ~Arg!IsJson(pair) /\ ~Arg!IsJson(field)
    BY <2>1, NestedJson
  <2> HIDE DEF pair, field
  <2>3. ~Arg!IsJson(Arg!Items(<<pair>>)) /\ ~Arg!IsJson(Arg!Items(<<field>>))
    BY <2>1, NestedJson
  <2>4. /\ \A of : Arg!ArrayOf(of).kind \in nested
        /\ \A of : Arg!TupleOf(of).kind \in nested
        /\ \A of : Arg!LiteralOf(of).kind \in nested
    BY DEF Arg!ArrayOf, Arg!TupleOf, Arg!LiteralOf
  <2>5. \A t, of : ~Arg!IsJson(t) /\ of.kind \in nested => parse(t, of).ok = FALSE
    <3>1. Single(Arg!Failed).ok = FALSE
      BY DEF Single, Arg!Failed
    <3> QED
      BY <3>1, ParsedAlone, SyntaxErrors
  <2> HIDE DEF parse
  <2>6. /\ parse(pair, Arg!ArrayOf(type)).ok = FALSE
        /\ parse(pair, Arg!TupleOf(<<type, type>>)).ok = FALSE
        /\ parse(field, Arg!LiteralOf([a |-> type])).ok = FALSE
        /\ parse(Arg!Items(<<pair>>), Arg!ArrayOf(Arg!ArrayOf(type))).ok = FALSE
        /\ parse(Arg!Items(<<field>>), Arg!ArrayOf(Arg!LiteralOf([a |-> type]))).ok = FALSE
    BY <2>2, <2>3, <2>4, <2>5
  <2>7. /\ in(text).array = parse(pair, Arg!ArrayOf(type))
        /\ in(text).tuple = parse(pair, Arg!TupleOf(<<type, type>>))
        /\ in(text).object = parse(field, Arg!LiteralOf([a |-> type]))
        /\ in(text).arrays = parse(Arg!Items(<<pair>>), Arg!ArrayOf(Arg!ArrayOf(type)))
        /\ in(text).objects = parse(Arg!Items(<<field>>), Arg!ArrayOf(Arg!LiteralOf([a |-> type])))
    BY DEF Containers, parse, pair, field
  <2> HIDE DEF in
  <2>8. inside(text) = {FALSE}
    BY <2>6, <2>7
  <2> QED
    BY <2>8 DEF text
<1>6. ASSUME word \notin Arg!Apostrophe, kind \in {"string", "Uint8Array"}
      PROVE  alike(Arg!Quoted(word))
  BY <1>2, <1>3, <1>6, QuotedAlike
<1>7. \A text : ~short(text).ok
  <2>1. ~Single(Arg!Failed).ok
    BY DEF Single, Arg!Failed
  <2> QED
    BY <2>1, ParsedAlone, TupleRead
<1> DEFINE array(text) == parse(Arg!Items(<<text, text>>), Arg!ArrayOf(type))
           tuple(text) == parse(Arg!Items(<<text, text>>), Arg!TupleOf(<<type, type>>))
           object(text) == parse(Arg!Fields([a |-> text]), Arg!LiteralOf([a |-> type]))
           arrays(text) == parse(Arg!Items(<<Arg!Items(<<text, text>>)>>), Arg!ArrayOf(Arg!ArrayOf(type)))
           objects(text) == parse(Arg!Items(<<Arg!Fields([a |-> text])>>),
                                  Arg!ArrayOf(Arg!LiteralOf([a |-> type])))
           within(text) == {array(text).ok, tuple(text).ok, object(text).ok, arrays(text).ok,
                            objects(text).ok}
           equal(text) ==
             /\ within(text) = {alone.ok}
             /\ alone.ok => /\ array(text).value[1] = alone.value \o alone.value
                            /\ tuple(text).value[1] = array(text).value[1]
                            /\ object(text).value[1].members.a = alone.value[1]
                            /\ arrays(text).value[1] = array(text).value
                            /\ objects(text).value[1] = object(text).value
<1>8. \A text : /\ in(text).array = array(text) /\ in(text).tuple = tuple(text)
                /\ in(text).object = object(text) /\ in(text).arrays = arrays(text)
                /\ in(text).objects = objects(text)
  BY DEF Containers
<1>9. \A text : (alike(text) => equal(text)) /\ within(text) = inside(text)
  <2> HIDE DEF in, array, tuple, object, arrays, objects, alone
  <2> QED
    BY <1>8
<1>10. /\ word \in Arg!JsonWord \ {"0xab"} => equal(Arg!Bare(word))
       /\ word = "0xab" /\ kind \notin {"string", "Uint8Array"} => equal(Arg!Bare(word))
       /\ word \notin Arg!JsonWord => within(Arg!Bare(word)) = {FALSE}
       /\ word \notin Arg!Apostrophe /\ kind \in {"string", "Uint8Array"} => equal(Arg!Quoted(word))
       /\ \A text \in {Arg!Bare(word), Arg!Quoted(word)} : ~short(text).ok
  <2> HIDE DEF alike, equal, inside, within, short
  <2>1. "0xab" \in Arg!JsonWord
    BY DEF Arg!JsonWord
  <2> QED
    BY <1>4, <1>5, <1>6, <1>7, <1>9, <2>1
<1> QED
  BY <1>10, Zenon DEF Arg!ArgumentLaw

-----------------------------------------------------------------------------
(* Maintenance with compact-js: any state of a contract, and any keys. *)

AnyKey == SigningKeys \cup {SampledKey}
MaintainedState ==
  [operation : [ImpureCircuit -> VerifierKey \cup {NoKey}], key : AnyKey, counter : Nat]

(* Keys that a configuration may give. *)
AnyKeys == [right : {TRUE}, coinPublicKey : Seq(Char), signingKey : AnyKey \cup {None}]

(* A key that can sign. *)
Signs(key) == key # None /\ key \notin Unverifiable

Signed(change, state, key) ==
  [change |-> change, counter |-> state.counter, signedBy |-> key]

(* An update is made where the configured key can sign; it is signed with that
   key, for the state it was made for. *)
LEMMA UpdateMade ==
  ASSUME NEW change, NEW keys, NEW state
  PROVE  LET result == CreateSignedMaintenanceUpdate(change, keys, state) IN
         /\ result.ok = Signs(keys.signingKey)
         /\ result.ok => result = [ok |-> TRUE, update |-> Signed(change, state, keys.signingKey),
                                   signingKey |-> keys.signingKey]
<1> DEFINE result == CreateSignedMaintenanceUpdate(change, keys, state)
           made == [ok |-> TRUE, update |-> Signed(change, state, keys.signingKey),
                    signingKey |-> keys.signingKey]
<1>1. made.ok = TRUE /\ \A kind : Failure(kind).ok = FALSE
  BY DEF Failure
<1>2. CASE Signs(keys.signingKey)
  <2>1. result = made
    BY <1>2 DEF CreateSignedMaintenanceUpdate, MaintenanceResult, Signs, Signed
  <2>2. Signs(keys.signingKey) = TRUE
    BY <1>2 DEF Signs
  <2> QED
    BY <1>1, <2>1, <2>2
<1>3. CASE ~Signs(keys.signingKey)
  <2>1. \E kind : result = Failure(kind)
    BY <1>3 DEF CreateSignedMaintenanceUpdate, Signs
  <2>2. Signs(keys.signingKey) = FALSE
    BY <1>3 DEF Signs
  <2> QED
    BY <1>1, <2>1, <2>2
<1> QED
  BY <1>2, <1>3

(* A replacement of the authority, if it is made, has a key that can sign; it
   is signed with the configured one. *)
LEMMA ReplacementMade ==
  ASSUME NEW newKey, NEW keys, NEW state
  PROVE  LET result == ReplaceContractMaintenanceAuthority(newKey, keys, state) IN
         result.ok =>
           /\ Signs(result.signingKey) /\ Signs(keys.signingKey)
           /\ result.update =
                Signed([kind |-> "ReplaceAuthority",
                        authority |-> [key |-> result.signingKey, counter |-> state.counter + 1]],
                       state, keys.signingKey)
<1> DEFINE result == ReplaceContractMaintenanceAuthority(newKey, keys, state)
           key == IF newKey = None THEN SampledKey ELSE newKey
           authority == [key |-> key, counter |-> state.counter + 1]
           change == [kind |-> "ReplaceAuthority", authority |-> authority]
           raw == CreateSignedMaintenanceUpdate(change, keys, state)
           made == CreateMaintenanceAuthority(newKey, state.counter + 1)
<1>1. \A kind : Failure(kind).ok = FALSE
  BY DEF Failure
<1> SUFFICES ASSUME result.ok
             PROVE  /\ Signs(result.signingKey) /\ Signs(keys.signingKey)
                    /\ result.update = Signed([kind |-> "ReplaceAuthority",
                                               authority |-> [key |-> result.signingKey,
                                                              counter |-> state.counter + 1]],
                                              state, keys.signingKey)
  OBVIOUS
<1>2. made.ok
  BY DEF ReplaceContractMaintenanceAuthority
<1>3. newKey \notin Unverifiable /\ made.authority = authority
  BY <1>1, <1>2 DEF CreateMaintenanceAuthority
<1>4. result = IF ~raw.ok THEN raw ELSE [raw EXCEPT !.signingKey = authority.key]
  BY <1>2, <1>3 DEF ReplaceContractMaintenanceAuthority
<1>5. authority.key = key
  OBVIOUS
<1> HIDE DEF result, made
<1>6. raw.ok /\ Signs(keys.signingKey)
  BY <1>4, UpdateMade
<1>7. raw = [ok |-> TRUE, update |-> Signed(change, state, keys.signingKey), signingKey |-> keys.signingKey]
  BY <1>6, UpdateMade
<1> HIDE DEF raw
<1>8. result = [raw EXCEPT !.signingKey = key]
  BY <1>4, <1>5, <1>6
<1>9. result.signingKey = key /\ result.update = Signed(change, state, keys.signingKey)
  BY <1>7, <1>8
<1>10. Signs(key)
  BY <1>3, ExecutableAssumption DEF Signs
<1> QED
  BY <1>6, <1>9, <1>10

(* The ledger does not take an update for another key or another counter. *)
LEMMA OtherUpdateRefused ==
  ASSUME NEW state, NEW change, NEW of, NEW key, key # state.key \/ of.counter # state.counter
  PROVE  Apply(state, Signed(change, of, key)) = state
BY DEF Apply, Signed

(* What it does with one of a verifier key. *)
LEMMA VerifierKeyUpdated ==
  ASSUME NEW state, NEW of, NEW circuitId, NEW verifierKey, of.counter = state.counter
  PROVE  LET counter == IF VkUpdatesCount THEN state.counter + 1 ELSE state.counter
             insert == [kind |-> "VerifierKeyInsert", circuit |-> circuitId, key |-> verifierKey]
             remove == [kind |-> "VerifierKeyRemove", circuit |-> circuitId]
         IN /\ Apply(state, Signed(insert, of, state.key))
                 = ContractState([state.operation EXCEPT ![circuitId] = verifierKey], state.key, counter)
            /\ Apply(state, Signed(remove, of, state.key))
                 = ContractState([state.operation EXCEPT ![circuitId] = NoKey], state.key, counter)
BY DEF Apply, Signed

(* And with one of the authority. *)
LEMMA AuthorityUpdated ==
  ASSUME NEW state, NEW key, NEW counter
  PROVE  Apply(state, Signed([kind |-> "ReplaceAuthority", authority |-> [key |-> key, counter |-> counter]],
                             state, state.key))
           = ContractState(state.operation, key, counter)
BY DEF Apply, Signed

(* Whoever has the key of the authority adds or replaces any verifier key and
   no other, removes it, and hands the contract over to the key the result
   holds, with which it is maintained from then on; an update made before the
   handover does nothing after it, and whoever has another key does nothing. *)
THEOREM UpdatesMaintain ==
  ASSUME NEW state \in MaintainedState, NEW keys \in AnyKeys, NEW newKey,
         NEW circuitId \in ImpureCircuit, NEW verifierKey \in VerifierKey
  PROVE  UpdateLaw(state, keys, newKey, circuitId, verifierKey)
<1> DEFINE insert == [kind |-> "VerifierKeyInsert", circuit |-> circuitId, key |-> verifierKey]
           remove == [kind |-> "VerifierKeyRemove", circuit |-> circuitId]
           insertion(by, of) == AddOrReplaceContractOperation(circuitId, verifierKey, by, of)
           removal == RemoveContractOperation(circuitId, keys, state)
           replacement == ReplaceContractMaintenanceAuthority(newKey, keys, state)
           inserted == Apply(state, insertion(keys, state).update)
           removed == Apply(state, removal.update)
           next == Apply(state, replacement.update)
           heir == [keys EXCEPT !.signingKey = replacement.signingKey]
           counter == IF VkUpdatesCount THEN state.counter + 1 ELSE state.counter
           key == keys.signingKey
           with(of, vk) == [of EXCEPT ![circuitId] = vk]
           handover == [kind |-> "ReplaceAuthority",
                        authority |-> [key |-> replacement.signingKey, counter |-> state.counter + 1]]
<1>1. /\ state.operation \in [ImpureCircuit -> VerifierKey \cup {NoKey}] /\ state.counter \in Nat
      /\ state.counter + 1 # state.counter
  BY DEF MaintainedState
<1>2. \A by, of : /\ insertion(by, of).ok = Signs(by.signingKey)
                  /\ insertion(by, of).ok => insertion(by, of).update = Signed(insert, of, by.signingKey)
  <2> SUFFICES ASSUME NEW by, NEW of
               PROVE  /\ insertion(by, of).ok = Signs(by.signingKey)
                      /\ insertion(by, of).ok => insertion(by, of).update = Signed(insert, of, by.signingKey)
    OBVIOUS
  <2>1. insertion(by, of) = CreateSignedMaintenanceUpdate(insert, by, of)
    BY DEF AddOrReplaceContractOperation
  <2> HIDE DEF insertion, insert
  <2> QED
    BY <2>1, UpdateMade
<1>3. Signs(key) => removal.update = Signed(remove, state, key)
  <2>1. removal = CreateSignedMaintenanceUpdate(remove, keys, state)
    BY DEF RemoveContractOperation
  <2> HIDE DEF removal, remove
  <2> QED
    BY <2>1, UpdateMade
<1>4. replacement.ok => /\ Signs(replacement.signingKey) /\ Signs(key)
                        /\ replacement.update = Signed(handover, state, key)
  BY ReplacementMade
<1>5. heir.signingKey = replacement.signingKey
  BY DEF AnyKeys
<1>6. \A s, of : of.counter = s.counter =>
         \E n : Apply(s, Signed(insert, of, s.key)) = ContractState(with(s.operation, verifierKey), s.key, n)
  BY DEF Apply, Signed
<1> HIDE DEF insertion, removal, replacement
<1>7. ASSUME key = state.key, Signs(key)
      PROVE  /\ inserted = ContractState(with(state.operation, verifierKey), state.key, counter)
             /\ removed = ContractState(with(state.operation, NoKey), state.key, counter)
  BY <1>2, <1>3, <1>7, VerifierKeyUpdated
<1>8. ASSUME key = state.key, insertion(keys, state).ok
      PROVE  /\ inserted.operation = with(state.operation, verifierKey)
             /\ removed.operation = with(state.operation, NoKey)
             /\ {inserted.key, removed.key} = {state.key}
             /\ Apply(removed, insertion(keys, state).update).operation
                  = (IF VkUpdatesCount THEN removed ELSE inserted).operation
  <2>1. Signs(key) /\ insertion(keys, state).update = Signed(insert, state, state.key)
    BY <1>2, <1>8
  <2>2. /\ inserted.operation = with(state.operation, verifierKey)
        /\ removed.operation = with(state.operation, NoKey)
        /\ inserted.key = state.key /\ removed.key = state.key /\ removed.counter = counter
    <3> HIDE DEF inserted, removed
    <3> QED
      BY <1>7, <1>8, <2>1 DEF ContractState
  <2> HIDE DEF inserted, removed, insert
  <2>3. CASE VkUpdatesCount
    <3>1. removed.counter # state.counter
      BY <1>1, <2>2, <2>3
    <3>2. Apply(removed, insertion(keys, state).update) = removed
      BY <2>1, <3>1, OtherUpdateRefused
    <3> QED
      BY <2>2, <2>3, <3>2
  <2>4. CASE ~VkUpdatesCount
    <3>1. state.counter = removed.counter
      BY <2>2, <2>4
    <3>2. \E n : Apply(removed, Signed(insert, state, removed.key))
                   = ContractState(with(removed.operation, verifierKey), removed.key, n)
      BY <1>6, <3>1
    <3>3. with(with(state.operation, NoKey), verifierKey) = with(state.operation, verifierKey)
      BY <1>1
    <3>4. Apply(removed, insertion(keys, state).update).operation = with(removed.operation, verifierKey)
      BY <2>1, <2>2, <3>2 DEF ContractState
    <3> QED
      BY <2>2, <2>4, <3>3, <3>4
  <2> QED
    BY <2>2, <2>3, <2>4
<1>9. ASSUME key = state.key, replacement.ok
      PROVE  /\ next.key = replacement.signingKey /\ next.operation = state.operation
             /\ {Apply(next, insertion(keys, state).update), Apply(next, removal.update)} = {next}
             /\ Apply(next, insertion(heir, next).update).operation[circuitId] = verifierKey
  <2>1. next = ContractState(state.operation, replacement.signingKey, state.counter + 1)
    BY <1>4, <1>9, AuthorityUpdated
  <2>2. /\ next.key = replacement.signingKey /\ next.operation = state.operation
        /\ next.counter = state.counter + 1
    <3> HIDE DEF next
    <3> QED
      BY <2>1 DEF ContractState
  <2> HIDE DEF next, insert, remove, heir
  <2>3. /\ insertion(keys, state).update = Signed(insert, state, key)
        /\ removal.update = Signed(remove, state, key)
    BY <1>2, <1>3, <1>4, <1>9
  <2>4. state.counter # next.counter
    BY <1>1, <2>2
  <2>5. /\ Apply(next, insertion(keys, state).update) = next
        /\ Apply(next, removal.update) = next
    BY <2>3, <2>4, OtherUpdateRefused
  <2>6. insertion(heir, next).update = Signed(insert, next, next.key)
    BY <1>2, <1>4, <1>5, <1>9, <2>2
  <2>7. \E n : Apply(next, Signed(insert, next, next.key))
                 = ContractState(with(next.operation, verifierKey), next.key, n)
    BY <1>6
  <2>8. with(state.operation, verifierKey)[circuitId] = verifierKey
    BY <1>1
  <2>9. Apply(next, insertion(heir, next).update).operation = with(next.operation, verifierKey)
    BY <2>6, <2>7 DEF ContractState
  <2> QED
    BY <2>2, <2>5, <2>8, <2>9
<1>10. ASSUME key # state.key, insertion(keys, state).ok
      PROVE  {inserted, removed} = {state} /\ (replacement.ok => next = state)
  <2>1. /\ insertion(keys, state).update = Signed(insert, state, key)
        /\ removal.update = Signed(remove, state, key)
    BY <1>2, <1>3, <1>10
  <2> HIDE DEF insert, remove, handover
  <2> QED
    BY <1>4, <1>10, <2>1, OtherUpdateRefused
<1> QED
  BY <1>8, <1>9, <1>10, Zenon DEF UpdateLaw, insertion, removal, replacement

(* Every deployment that compact-js makes can be maintained with the key that
   comes with it, and has a verifier key for each circuit. *)
THEOREM DeploymentsMaintainable ==
  ASSUME NEW self, NEW keys \in AnyKeys, keys.signingKey \in SigningKeys \cup {None},
         NEW files \in [ImpureCircuit -> VerifierKey \cup {NoKey}], NEW defined
  PROVE  DeployLaw(self, keys, files, defined)
<1> SUFFICES ASSUME NEW result \in Initialize(self, keys, files, defined, 0), result.ok
             PROVE  LET state == result.contractState IN
                    /\ \A c \in ImpureCircuit : state.operation[c] \in VerifierKey
                    /\ keys.signingKey # None => state.key = keys.signingKey
                    /\ \A c \in ImpureCircuit :
                         UpdateLaw(state, [keys EXCEPT !.signingKey = result.signingKey], None, c,
                                   state.operation[c])
  BY DEF DeployLaw
<1> DEFINE made == CreateMaintenanceAuthority(keys.signingKey, 0)
           a == made.authority
           owner == [keys EXCEPT !.signingKey = result.signingKey]
<1>1. \A kind : Failure(kind).ok = FALSE
  BY DEF Failure
<1>2. /\ GetVerifierKeys(files).ok /\ made.ok
      /\ result = DeployResult(ContractState(files, a.key, a.counter), a.key, 0)
  BY <1>1 DEF Initialize
<1>3. made = [ok |-> TRUE,
              authority |-> [key |-> IF keys.signingKey = None THEN SampledKey ELSE keys.signingKey,
                             counter |-> 0]]
  BY <1>1, <1>2 DEF CreateMaintenanceAuthority
<1>4. /\ a.counter = 0 /\ a.key \in AnyKey
      /\ keys.signingKey # None => a.key = keys.signingKey
  BY <1>3 DEF AnyKey
<1> HIDE DEF made
<1>5. result.contractState = ContractState(files, a.key, 0) /\ result.signingKey = a.key
  BY <1>2, <1>4 DEF DeployResult
<1>6. \A c \in ImpureCircuit : files[c] \in VerifierKey
  BY <1>2 DEF GetVerifierKeys, HasVerifierKey
<1>7. /\ result.contractState \in MaintainedState
      /\ result.contractState.operation = files /\ result.contractState.key = a.key
  BY <1>4, <1>5 DEF ContractState, MaintainedState
<1>8. owner \in AnyKeys
  BY <1>4, <1>5 DEF AnyKeys
<1>9. \A c \in ImpureCircuit : UpdateLaw(result.contractState, owner, None, c, files[c])
  BY <1>6, <1>7, <1>8, UpdatesMaintain
<1> QED
  BY <1>4, <1>6, <1>7, <1>9

-----------------------------------------------------------------------------
(* The network in a request: testkit-js asks a node, an indexer is asked. *)

(* The address and the network can be read off what is asked for. *)
LEMMA AskedForApart ==
  ASSUME NEW E, NEW a \in Seq(E), NEW b \in Seq(E), NEW id \in NetworkId, NEW other \in NetworkId,
         PrependNetworkIdHex(id, a) = PrependNetworkIdHex(other, b)
  PROVE  id = other /\ a = b
<1>1. \A n \in NetworkId : Len(NetworkIdToHex(n)) = 1 /\ NetworkIdToHex(n) = <<NetworkIdToHex(n)[1]>>
  BY DEF NetworkId, NetworkIdToHex
<1>2. \A m, n \in NetworkId : NetworkIdToHex(m)[1] = NetworkIdToHex(n)[1] => m = n
  BY DEF NetworkId, NetworkIdToHex
<1> DEFINE F == E \cup {NetworkIdToHex(n)[1] : n \in NetworkId}
           p == NetworkIdToHex(id)[1]
           q == NetworkIdToHex(other)[1]
<1>3. <<p>> \o a = <<q>> \o b
  BY <1>1 DEF PrependNetworkIdHex
<1>4. a \in Seq(F) /\ b \in Seq(F) /\ p \in F /\ q \in F
  OBVIOUS
<1> HIDE DEF p, q, F
<1>5. /\ \A s \in Seq(F), x \in F : Len(<<x>> \o s) = 1 + Len(s) /\ (<<x>> \o s)[1] = x
      /\ \A s \in Seq(F), x \in F : \A i \in 1..Len(s) : (<<x>> \o s)[i + 1] = s[i]
  OBVIOUS
<1>6. p = q
  BY <1>3, <1>4, <1>5
<1>7. Len(a) = Len(b)
  BY <1>3, <1>4, <1>5
<1>8. \A i \in 1..Len(a) : a[i] = b[i]
  BY <1>3, <1>4, <1>5, <1>7
<1>9. a = b
  BY <1>4, <1>7, <1>8
<1> QED
  BY <1>2, <1>6, <1>9 DEF p, q

(* For any addresses: what an indexer is asked for tells apart the contracts
   with one address on two networks, and the libraries and the names agree on
   what a network is. *)
THEOREM NetworksAreToldApart ==
  ASSUME NEW E, NEW id \in NetworkId, NEW other \in NetworkId,
         NEW contractAddress \in Seq(E), NEW otherAddress \in Seq(E)
  PROVE  NetworkIdsLaw(id, other, contractAddress, otherAddress)
<1>1. ASSUME NEW n \in NetworkId \cup {"elsewhere"}
      PROVE  /\ ToLedgerNetworkId(n).right <=> StringToNetworkId(n) # Absent
             /\ \A i \in {ToLedgerNetworkId(n), ToRuntimeNetworkId(n), ToZswapNetworkId(n)} :
                  i.right => i.id = StringToNetworkId(n)
  <2>1. ASSUME NEW library
        PROVE  /\ ToNetworkId(library, n).right <=> n \in NetworkId
               /\ ToNetworkId(library, n).right => ToNetworkId(library, n).id = n
    BY DEF ToNetworkId, NetworkIdTypeError, Left, Id
  <2>2. StringToNetworkId(n) # Absent <=> n \in NetworkId
    BY DEF StringToNetworkId, Absent, NetworkId
  <2>3. n \in NetworkId => StringToNetworkId(n) = n
    BY DEF StringToNetworkId
  <2> QED
    BY <2>1, <2>2, <2>3 DEF ToLedgerNetworkId, ToRuntimeNetworkId, ToZswapNetworkId
<1> DEFINE asked == IndexerPublicDataProvider(id, contractAddress)
           others == IndexerPublicDataProvider(other, otherAddress)
<1>2. ASSUME asked.right, asked = others
      PROVE  id = other /\ contractAddress = otherAddress
  <2>1. ~Left.right
    BY DEF Left
  <2>2. asked.address = PrependNetworkIdHex(id, contractAddress)
    BY <1>2, <2>1 DEF IndexerPublicDataProvider
  <2>3. others.address = PrependNetworkIdHex(other, otherAddress)
    BY <1>2, <2>1 DEF IndexerPublicDataProvider
  <2> HIDE DEF asked, others
  <2>4. PrependNetworkIdHex(id, contractAddress) = PrependNetworkIdHex(other, otherAddress)
    BY <1>2, <2>2, <2>3
  <2> QED
    BY <2>4, AskedForApart
<1> QED
  BY <1>1, <1>2, Zenon DEF NetworkIdsLaw

(* For any deployed contracts and any change of the network meanwhile: the
   client of a node returns a state if and only if the contract is there on the
   network the process was on before and after the request, and never null. *)
THEOREM NodeAnswersForItsNetwork ==
  ASSUME NEW E, NEW kind, NEW node \in NetworkId, NEW before \in NetworkId, NEW after \in NetworkId,
         NEW deployed \in SUBSET Seq(E), NEW contractAddress \in Seq(E)
  PROVE  NodeLaw(kind, node, deployed, contractAddress, before, after)
<1>1. ~Left.right
  BY DEF Left
<1>2. (\E a \in deployed : PrependNetworkIdHex(before, contractAddress) = PrependNetworkIdHex(node, a))
        <=> before = node /\ contractAddress \in deployed
  BY AskedForApart
<1>3. ASSUME NEW result
      PROVE  JsonRPC([kind |-> kind, result |-> result])
               = IF kind = "object" /\ result # <<>> THEN [right |-> TRUE, result |-> result] ELSE Left
  BY DEF JsonRPC, ThrowOnUnexpected
<1>4. ASSUME NEW what
      PROVE  <<node, what>> # <<>> /\ <<node, what>>[1] = node
  OBVIOUS
<1> DEFINE there == before = node /\ contractAddress \in deployed
           found == NodeResult(node, deployed, PrependNetworkIdHex(before, contractAddress))
           answer == ContractStateOf(kind, node, deployed, contractAddress, before, after)
<1>5. found = IF there THEN <<node, "state">> ELSE <<>>
  BY <1>2 DEF NodeResult
<1> HIDE DEF there, found
<1>6. answer = IF kind = "object" /\ there
               THEN IF node = after THEN [right |-> TRUE, state |-> <<node, "state">>] ELSE Left
               ELSE Left
  <2> DEFINE result == JsonRPC([kind |-> kind, result |-> found])
  <2>1. answer = IF ~result.right THEN Left
                 ELSE IF result.result = <<>> THEN [right |-> TRUE, state |-> Absent]
                 ELSE DeserializeState(result, after)
    BY DEF ContractStateOf, found
  <2>2. CASE kind = "object" /\ there
    <3>1. result = [right |-> TRUE, result |-> <<node, "state">>]
      BY <1>3, <1>4, <1>5, <2>2
    <3>2. result.right /\ result.result = <<node, "state">>
      BY <3>1
    <3> HIDE DEF answer, result
    <3>3. answer = DeserializeState(result, after)
      BY <1>4, <2>1, <3>2
    <3> QED
      BY <1>4, <2>2, <3>2, <3>3 DEF DeserializeState
  <2>3. CASE ~(kind = "object" /\ there)
    <3>1. result = Left
      BY <1>3, <1>5, <2>3
    <3> HIDE DEF answer, result
    <3> QED
      BY <1>1, <2>1, <2>3, <3>1
  <2> QED
    BY <2>2, <2>3
<1>7. LedgerState(kind, node, "block", after).right <=> kind = "object" /\ after = node
  <2> DEFINE blob == LedgerStateBlob(kind, node, "block")
  <2>1. blob = IF kind = "object" THEN [right |-> TRUE, result |-> <<node, "ledger">>] ELSE Left
    <3> DEFINE ledger == <<node, "ledger">>
    <3>1. ledger # <<>> /\ blob = JsonRPC([kind |-> kind, result |-> ledger])
      BY <1>4 DEF LedgerStateBlob
    <3> HIDE DEF ledger, blob
    <3>2. blob = IF kind = "object" THEN [right |-> TRUE, result |-> ledger] ELSE Left
      BY <1>3, <3>1
    <3> QED
      BY <3>2 DEF ledger
  <2>2. LedgerState(kind, node, "block", after) = IF blob.right THEN DeserializeState(blob, after) ELSE Left
    BY DEF LedgerState
  <2> HIDE DEF blob
  <2> QED
    BY <1>1, <1>4, <2>1, <2>2 DEF DeserializeState
<1>8. LedgerVersion(kind).right <=> kind = "object"
  <2>1. <<"version">> # <<>>
    OBVIOUS
  <2>2. LedgerVersion(kind) = JsonRPC([kind |-> kind, result |-> <<"version">>])
    BY DEF LedgerVersion
  <2>3. LedgerVersion(kind) = IF kind = "object" THEN [right |-> TRUE, result |-> <<"version">>] ELSE Left
    <3> DEFINE version == <<"version">>
    <3>1. version # <<>> /\ LedgerVersion(kind) = JsonRPC([kind |-> kind, result |-> version])
      BY <2>1, <2>2
    <3> HIDE DEF version
    <3>2. LedgerVersion(kind) = IF kind = "object" THEN [right |-> TRUE, result |-> version] ELSE Left
      BY <1>3, <3>1
    <3> QED
      BY <3>2 DEF version
  <2> QED
    BY <1>1, <2>3
<1> HIDE DEF answer
<1>9. /\ answer.right <=> kind = "object" /\ contractAddress \in deployed /\ before = node /\ after = node
      /\ answer.right => answer.state = <<node, "state">>
  BY <1>1, <1>6 DEF there
<1> QED
  BY <1>7, <1>8, <1>9 DEF NodeLaw, answer

-----------------------------------------------------------------------------
(* The private state provider in memory *)

(* All operations are performed, one after the other. *)
PerformAll(base, s) == FoldLeft(Perform, base, s)

LEMMA PerformSteps ==
  ASSUME NEW base, NEW s, NEW n \in Nat, DOMAIN s = 1..n
  PROVE  \E h : Steps("perform", h, base, s, n) /\ PerformAll(base, s) = h[n]
<1> DEFINE built(f) == f = [t \in SUBSET (1..n) |->
                              IF t = {} THEN base ELSE Perform(f[t \ {Max(t)}], s[Max(t)])]
           f == CHOOSE g : built(g)
<1>1. PerformAll(base, s) = f[1..n]
  BY DEF PerformAll, FoldLeft, MapThenFoldSet
<1>2. \A v, e : Step("perform", v, e) = Perform(v, e)
  BY DEF Step
<1>3. \A g : Folds("perform", g, n, base, s) <=> built(g)
  BY <1>2 DEF Folds
<1>4. \E g : built(g)
  BY <1>3, FoldExists
<1> HIDE DEF built
<1>5. built(f)
  BY <1>4
<1>6. Folds("perform", f, n, base, s)
  BY <1>3, <1>5
<1> HIDE DEF f
<1> QED
  BY <1>1, <1>6, FoldSteps

(* Whether an operation is on a key, or on all of its kind, and what it leaves
   there. *)
Kind == {"state", "signing key"}
Touches(o, of, key) == o.of = of /\ (o.op = "clear" \/ o.key = key)
Leaves(o) == IF o.op = "set" /\ o.value \notin Nullish THEN o.value ELSE "null"
ReadOf(p, of, key) == IF of = "state" THEN GetState(p, key) ELSE GetSigningKey(p, key)
IsStore(p) == p = [record |-> p.record, signingKeys |-> p.signingKeys]

LEMMA ReadPut ==
  ASSUME NEW map, NEW k, NEW v, NEW key
  PROVE  Read(Put(map, k, v), key) = IF key # k THEN Read(map, key)
                                     ELSE IF v \in Nullish THEN "null" ELSE v
BY DEF Read, Put

LEMMA ReadDeleted ==
  ASSUME NEW map, NEW k, NEW key
  PROVE  Read(Delete(map, k), key) = IF key # k THEN Read(map, key) ELSE "null"
BY DEF Read, Delete

LEMMA ReadEmpty == \A key : Read(EmptyMap, key) = "null"
BY DEF Read, EmptyMap

LEMMA PerformedRead ==
  ASSUME NEW Keys, NEW V, NEW o \in StoreOperation(Keys, V), NEW p, IsStore(p),
         NEW of \in Kind, NEW key
  PROVE  /\ IsStore(Perform(p, o))
         /\ ReadOf(Perform(p, o), of, key) = IF Touches(o, of, key) THEN Leaves(o) ELSE ReadOf(p, of, key)
<1>1. o.of \in Kind /\ o.op \in {"set", "remove", "clear"}
  BY DEF StoreOperation, Kind
<1> DEFINE record == p.record
           signingKeys == p.signingKeys
<1>2. p = [record |-> record, signingKeys |-> signingKeys]
  BY DEF IsStore
<1>6. p.record = record /\ p.signingKeys = signingKeys
  OBVIOUS
<1> HIDE DEF record, signingKeys
<1>3. \A map : /\ [p EXCEPT !.record = map] = [record |-> map, signingKeys |-> signingKeys]
               /\ [p EXCEPT !.signingKeys = map] = [record |-> record, signingKeys |-> map]
  BY <1>2
<1>4. CASE o.of = "state"
  <2> DEFINE map == CASE o.op = "set" -> Put(record, o.key, o.value)
                      [] o.op = "remove" -> Delete(record, o.key)
                      [] o.op = "clear" -> EmptyMap
  <2>1. Perform(p, o) = [record |-> map, signingKeys |-> signingKeys]
    BY <1>1, <1>3, <1>4, <1>6 DEF Perform, SetState, RemoveState, ClearStates
  <2>2. Read(map, key) = IF Touches(o, "state", key) THEN Leaves(o) ELSE Read(record, key)
    <3>1. CASE o.op = "set"
      <4>1. map = Put(record, o.key, o.value)
        BY <3>1
      <4> HIDE DEF map
      <4>2. Read(map, key) = IF key # o.key THEN Read(record, key) ELSE IF o.value \in Nullish THEN "null" ELSE o.value
        BY <4>1, ReadPut
      <4> QED
        BY <1>4, <3>1, <4>2 DEF Touches, Leaves
    <3>2. CASE o.op = "remove"
      <4>1. map = Delete(record, o.key)
        BY <3>2
      <4> HIDE DEF map
      <4>2. Read(map, key) = IF key # o.key THEN Read(record, key) ELSE "null"
        BY <4>1, ReadDeleted
      <4> QED
        BY <1>4, <3>2, <4>2 DEF Touches, Leaves
    <3>3. CASE o.op = "clear"
      <4>1. map = EmptyMap
        BY <3>3
      <4> HIDE DEF map
      <4>2. Read(map, key) = "null"
        BY <4>1, ReadEmpty
      <4> QED
        BY <1>4, <3>3, <4>2 DEF Touches, Leaves
    <3> QED
      BY <1>1, <3>1, <3>2, <3>3
  <2> HIDE DEF map
  <2>3. Perform(p, o).record = map /\ Perform(p, o).signingKeys = signingKeys
    BY <2>1
  <2>4. IsStore(Perform(p, o))
    BY <2>1, <2>3 DEF IsStore
  <2> QED
    BY <1>4, <1>6, <2>2, <2>3, <2>4 DEF ReadOf, GetState, GetSigningKey, Touches, Kind
<1>5. CASE o.of = "signing key"
  <2> DEFINE map == CASE o.op = "set" -> Put(signingKeys, o.key, o.value)
                      [] o.op = "remove" -> Delete(signingKeys, o.key)
                      [] o.op = "clear" -> EmptyMap
  <2>1. Perform(p, o) = [record |-> record, signingKeys |-> map]
    BY <1>1, <1>3, <1>5, <1>6 DEF Perform, SetSigningKey, RemoveSigningKey, ClearSigningKeys
  <2>2. Read(map, key) = IF Touches(o, "signing key", key) THEN Leaves(o) ELSE Read(signingKeys, key)
    <3>1. CASE o.op = "set"
      <4>1. map = Put(signingKeys, o.key, o.value)
        BY <3>1
      <4> HIDE DEF map
      <4>2. Read(map, key) = IF key # o.key THEN Read(signingKeys, key) ELSE IF o.value \in Nullish THEN "null" ELSE o.value
        BY <4>1, ReadPut
      <4> QED
        BY <1>5, <3>1, <4>2 DEF Touches, Leaves
    <3>2. CASE o.op = "remove"
      <4>1. map = Delete(signingKeys, o.key)
        BY <3>2
      <4> HIDE DEF map
      <4>2. Read(map, key) = IF key # o.key THEN Read(signingKeys, key) ELSE "null"
        BY <4>1, ReadDeleted
      <4> QED
        BY <1>5, <3>2, <4>2 DEF Touches, Leaves
    <3>3. CASE o.op = "clear"
      <4>1. map = EmptyMap
        BY <3>3
      <4> HIDE DEF map
      <4>2. Read(map, key) = "null"
        BY <4>1, ReadEmpty
      <4> QED
        BY <1>5, <3>3, <4>2 DEF Touches, Leaves
    <3> QED
      BY <1>1, <3>1, <3>2, <3>3
  <2> HIDE DEF map
  <2>3. Perform(p, o).record = record /\ Perform(p, o).signingKeys = map
    BY <2>1
  <2>4. IsStore(Perform(p, o))
    BY <2>1, <2>3 DEF IsStore
  <2> QED
    BY <1>5, <1>6, <2>2, <2>3, <2>4 DEF ReadOf, GetState, GetSigningKey, Touches, Kind
<1> QED
  BY <1>1, <1>4, <1>5 DEF Kind

(* After any operations on a provider in memory, what is read is what the last
   operation on the key, or on all keys of its kind, left. *)
THEOREM MemoryKeepsLast ==
  ASSUME NEW Keys, NEW V, NEW operations \in Seq(StoreOperation(Keys, V))
  PROVE  MemoryLaw(operations, Keys)
<1> DEFINE n == Len(operations)
           store == PerformAll(InMemoryPrivateStateProvider, operations)
           isLast(i, of, key, k) == /\ Touches(operations[i], of, key)
                                    /\ \A j \in (i + 1)..k : ~Touches(operations[j], of, key)
<1>0. n \in Nat /\ DOMAIN operations = 1..n /\ \A i \in 1..n : operations[i] \in StoreOperation(Keys, V)
  OBVIOUS
<1>1. PICK h : Steps("perform", h, InMemoryPrivateStateProvider, operations, n) /\ store = h[n]
  BY <1>0, PerformSteps
<1> HIDE DEF n, store
<1>2. ASSUME NEW of \in Kind, NEW key
      PROVE  /\ (\A i \in 1..n : ~Touches(operations[i], of, key)) => ReadOf(store, of, key) = "null"
             /\ \A i \in 1..n : isLast(i, of, key, n) => ReadOf(store, of, key) = Leaves(operations[i])
             /\ \/ \A i \in 1..n : ~Touches(operations[i], of, key)
                \/ \E i \in 1..n : isLast(i, of, key, n)
  <2> DEFINE holds(k) ==
               /\ IsStore(h[k])
               /\ (\A i \in 1..k : ~Touches(operations[i], of, key)) => ReadOf(h[k], of, key) = "null"
               /\ \A i \in 1..k : isLast(i, of, key, k) => ReadOf(h[k], of, key) = Leaves(operations[i])
               /\ \/ \A i \in 1..k : ~Touches(operations[i], of, key)
                  \/ \E i \in 1..k : isLast(i, of, key, k)
             T == {k \in Nat : k <= n => holds(k)}
  <2>1. holds(0)
    <3>1. h[0] = [record |-> EmptyMap, signingKeys |-> EmptyMap]
      BY <1>1 DEF Steps, InMemoryPrivateStateProvider
    <3>2. h[0].record = EmptyMap /\ h[0].signingKeys = EmptyMap
      BY <3>1
    <3>3. ReadOf(h[0], of, key) = "null"
      BY <3>2, ReadEmpty DEF ReadOf, GetState, GetSigningKey
    <3>4. 1..0 = {}
      OBVIOUS
    <3> QED
      BY <3>1, <3>2, <3>3, <3>4 DEF IsStore
  <2>2. ASSUME NEW k \in Nat, k + 1 <= n, holds(k)
        PROVE  holds(k + 1)
    <3> DEFINE o == operations[k + 1]
    <3>1. k + 1 \in 1..n /\ (k + 1) - 1 = k /\ o \in StoreOperation(Keys, V)
      BY <1>0, <2>2
    <3>2. h[k + 1] = Perform(h[k], o)
      <4>1. h[k + 1] = Step("perform", h[(k + 1) - 1], operations[k + 1])
        BY <1>1, <3>1 DEF Steps
      <4> QED
        BY <3>1, <4>1 DEF Step
    <3>3. /\ IsStore(h[k + 1])
          /\ ReadOf(h[k + 1], of, key) = IF Touches(o, of, key) THEN Leaves(o) ELSE ReadOf(h[k], of, key)
      <4>1. IsStore(h[k]) /\ o \in StoreOperation(Keys, V)
        BY <2>2, <3>1
      <4> HIDE DEF o
      <4> QED
        BY <3>2, <4>1, PerformedRead
    <3>4. \A i : i \in 1..(k + 1) <=> i \in 1..k \/ i = k + 1
      OBVIOUS
    <3>5. \A i \in 1..k : \A j : j \in (i + 1)..(k + 1) <=> j \in (i + 1)..k \/ j = k + 1
      OBVIOUS
    <3>6. \A j : j \notin ((k + 1) + 1)..(k + 1)
      OBVIOUS
    <3>7. CASE Touches(o, of, key)
      <4>1. isLast(k + 1, of, key, k + 1)
        BY <3>6, <3>7
      <4>2. \A i \in 1..k : ~isLast(i, of, key, k + 1)
        BY <3>5, <3>7
      <4> QED
        BY <3>3, <3>4, <3>7, <4>1, <4>2
    <3>8. CASE ~Touches(o, of, key)
      <4>1. \A i \in 1..k : isLast(i, of, key, k + 1) <=> isLast(i, of, key, k)
        BY <3>5, <3>8
      <4>2. ~isLast(k + 1, of, key, k + 1)
        BY <3>8
      <4> HIDE DEF isLast
      <4> QED
        BY <2>2, <3>3, <3>4, <3>8, <4>1, <4>2
    <3> QED
      BY <3>7, <3>8
  <2> HIDE DEF holds
  <2>3. T = Nat
    <3>1. T \in SUBSET Nat /\ 0 \in T
      BY <2>1
    <3>2. \A k \in T : k + 1 \in T
      <4>1. \A k \in Nat : k + 1 <= n => k <= n
        BY <1>0
      <4> QED
        BY <2>2, <4>1
    <3> HIDE DEF T
    <3> QED
      BY <3>1, <3>2, AllNumbers
  <2>4. holds(n)
    BY <1>0, <2>3
  <2> QED
    BY <1>1, <2>4 DEF holds
<1>3. ASSUME NEW of \in Kind, NEW key
      PROVE  LET last == {i \in DOMAIN operations :
                              /\ operations[i].of = of
                              /\ operations[i].op = "clear" \/ operations[i].key = key
                              /\ \A j \in (i + 1)..Len(operations) :
                                   ~(/\ operations[j].of = of
                                     /\ operations[j].op = "clear" \/ operations[j].key = key)}
                 left == {operations[i].value : i \in {j \in last :
                            operations[j].op = "set" /\ operations[j].value \notin Nullish}}
             IN {ReadOf(store, of, key)} = IF left = {} THEN {"null"} ELSE left
  <2> DEFINE last == {i \in DOMAIN operations :
                              /\ operations[i].of = of
                              /\ operations[i].op = "clear" \/ operations[i].key = key
                              /\ \A j \in (i + 1)..Len(operations) :
                                   ~(/\ operations[j].of = of
                                     /\ operations[j].op = "clear" \/ operations[j].key = key)}
             left == {operations[i].value : i \in {j \in last :
                        operations[j].op = "set" /\ operations[j].value \notin Nullish}}
  <2>0. last = {i \in 1..n : isLast(i, of, key, n)}
    BY <1>0 DEF Touches, n
  <2> HIDE DEF last
  <2>1. ASSUME \A i \in 1..n : ~Touches(operations[i], of, key)
        PROVE  {ReadOf(store, of, key)} = IF left = {} THEN {"null"} ELSE left
    <3>1. last = {}
      BY <2>0, <2>1
    <3>2. left = {}
      BY <3>1
    <3> HIDE DEF left
    <3> QED
      BY <1>2, <2>1, <3>2
  <2>2. ASSUME NEW i \in 1..n, isLast(i, of, key, n)
        PROVE  {ReadOf(store, of, key)} = IF left = {} THEN {"null"} ELSE left
    <3>1. \A j \in 1..n : isLast(j, of, key, n) => j = i
      <4> SUFFICES ASSUME NEW j \in 1..n, isLast(j, of, key, n), j # i
                   PROVE  FALSE
        OBVIOUS
      <4>1. i \in (j + 1)..n \/ j \in (i + 1)..n
        BY <1>0
      <4> QED
        BY <2>2, <4>1
    <3>2. last = {i}
      BY <2>0, <2>2, <3>1
    <3>3. left = IF operations[i].op = "set" /\ operations[i].value \notin Nullish
                 THEN {operations[i].value} ELSE {}
      BY <3>2
    <3> HIDE DEF left
    <3>4. ReadOf(store, of, key) = Leaves(operations[i])
      BY <1>2, <2>2
    <3> QED
      BY <3>3, <3>4 DEF Leaves
  <2> HIDE DEF left
  <2>3. {ReadOf(store, of, key)} = IF left = {} THEN {"null"} ELSE left
    BY <1>2, <2>1, <2>2
  <2> QED
    BY <2>3 DEF last, left
<1> QED
  BY <1>3, Zenon DEF MemoryLaw, Kind, ReadOf, Touches, PerformAll, n, store

-----------------------------------------------------------------------------
(* All laws, for every input *)

LEMMA WiderSequences ==
  ASSUME NEW A, NEW B, A \subseteq B, NEW s \in Seq(A)
  PROVE  s \in Seq(B)
<1>1. Len(s) \in Nat /\ s \in [1..Len(s) -> A]
  OBVIOUS
<1>2. s \in [1..Len(s) -> B]
  BY <1>1
<1> QED
  BY <1>1, <1>2, SeqDef

(* The keys of an input are keys of a configuration. *)
LEMMA ConfiguredKeys ==
  ASSUME NEW signing \in SigningKeys \cup {None}
  PROVE  KeysWith(signing) \in AnyKeys
<1> DEFINE key == <<"d", "d">>
<1>2. "d" \in Char
  BY DEF Char, HexDigit
<1>1. key \in Seq(Char)
  BY <1>2
<1> QED
  BY <1>1 DEF KeysWith, AnyKeys, AnyKey

(* What the local states of circuits are made of. *)
Part == Nat \cup Seq(Char)

LEMMA ZswapParts ==
  ASSUME NEW z \in ZswapStates \cup {c.zswap : c \in Constructions} \cup {r.zswap : r \in Runs}
  PROVE  z \in ZswapState(Part)
<1> DEFINE output == [coinInfo : [CoinInfo -> Nat],
                      recipient : [is_left : BOOLEAN, left : Seq(Char), right : Seq(Char)]]
           coin == [CoinInfo \cup {"mt_index"} -> Nat]
<1>1. z \in [outputs : Seq(output), inputs : Seq(coin)]
  BY PureLawsAssumption
<1>2. output \subseteq Output(Part) /\ coin \subseteq Input(Part)
  <2>1. Nat \subseteq Part /\ Seq(Char) \subseteq Part
    BY DEF Part
  <2>2. [CoinInfo -> Nat] \subseteq Coins(Part)
    BY <2>1 DEF Coins
  <2>3. [is_left : BOOLEAN, left : Seq(Char), right : Seq(Char)] \subseteq Recipient(Part)
    BY <2>1 DEF Recipient
  <2>4. coin \subseteq Input(Part)
    BY <2>1 DEF Input
  <2> QED
    BY <2>2, <2>3, <2>4 DEF Output
<1> HIDE DEF output, coin
<1>3. z.outputs \in Seq(Output(Part)) /\ z.inputs \in Seq(Input(Part))
  <2>1. z.outputs \in Seq(output) /\ z.inputs \in Seq(coin)
    BY <1>1
  <2> QED
    BY <1>2, <2>1, WiderSequences
<1>4. z = [outputs |-> z.outputs, inputs |-> z.inputs]
  BY <1>1
<1> QED
  BY <1>3, <1>4 DEF ZswapState

(* For every input that the assumptions on the constants allow, the law of that
   input holds: HexLaw and AssertLaw, RangeLaw, NetworkLaw, KeyLaw, ArgumentLaw,
   OfferLaw, UpdateLaw, DeployLaw, DeployThenCallLaw, NetworkIdsLaw, NodeLaw or
   MemoryLaw. *)
THEOREM PureFunctionsKeepTheirLaws == input \in Inputs => LawsHold
<1> SUFFICES ASSUME input \in Inputs
             PROVE  LawsHold
  OBVIOUS
<1>1. ASSUME NEW s \in Source, input = [law |-> "hex", source |-> s]
      PROVE  LawsHold
  <2>1. input.law = "hex" /\ input.source = s
    BY <1>1
  <2>2. s \in Seq(Char)
    BY PureLawsAssumption
  <2>3. HexLaw(s)
    BY <2>2, HexIsDigits
  <2>4. ASSUME NEW n \in {{}} \cup {{b} : b \in Bound}
        PROVE  AssertLaw(s, n)
    <3>1. n \in SUBSET Int
      <4>1. Bound \subseteq Int
        BY PureLawsAssumption
      <4> QED
        BY <4>1
    <3> QED
      BY <2>2, <3>1, AssertedIsHex
  <2> QED
    BY <2>1, <2>3, <2>4 DEF LawsHold
<1>2. ASSUME input \in [law : {"range"}, tag : {"Inclusive", "Exclusive"}, min : Bound, max : Bound]
      PROVE  LawsHold
  <2>1. input.law = "range"
    BY <1>2
  <2>2. /\ input.tag \in {"Inclusive", "Exclusive"} /\ input.min \in -9..9 /\ input.max \in -9..9
        /\ Bound \in SUBSET Int
    <3>1. Bound \subseteq -9..9 /\ -9..9 \subseteq Int
      BY PureLawsAssumption
    <3>2. input.tag \in {"Inclusive", "Exclusive"} /\ input.min \in Bound /\ input.max \in Bound
      BY <1>2
    <3> QED
      BY <3>1, <3>2
  <2>3. RangeLaw(MakeRange(input.tag, input.min, input.max), Bound)
    BY <2>2, RangeHoldsWhatItSays
  <2> QED
    BY <2>1, <2>3 DEF LawsHold
<1>3. ASSUME input \in [law : {"network"}, source : Source \cup {None, MainNetMoniker}]
      PROVE  LawsHold
  <2>1. input.law = "network"
    BY <1>3
  <2>2. input.source \in Seq(Char \cup {"m"}) \cup {None}
    <3> DEFINE Letter == Char \cup {"m"}
    <3>1. Char \subseteq Letter /\ "m" \in Letter
      OBVIOUS
    <3> HIDE DEF Letter
    <3>2. <<"m">> \in Seq(Letter)
      BY <3>1
    <3>3. \A s \in Source : s \in Seq(Letter)
      BY <3>1, WiderSequences, PureLawsAssumption
    <3>4. input.source \in Source \/ input.source = None \/ input.source = <<"m">>
      BY <1>3 DEF MainNetMoniker
    <3> QED
      BY <3>2, <3>3, <3>4 DEF Letter
  <2>3. NetworkLaw([network |-> input.source])
    BY <2>2, NamedIsNotMainNet
  <2> QED
    BY <2>1, <2>3 DEF LawsHold
<1>4. ASSUME input \in [law : {"keys"}, json : Providers, env : Providers, cli : Providers]
      PROVE  LawsHold
  <2>1. input.law = "keys" /\ input.json \in Providers /\ input.env \in Providers /\ input.cli \in Providers
    BY <1>4
  <2>2. Providers \subseteq Provider
    BY PureLawsAssumption DEF Provider, Option
  <2>3. KeyLaw(input.json, input.env, input.cli)
    BY <2>1, <2>2, FirstKeyCounts
  <2> QED
    BY <2>1, <2>3 DEF LawsHold
<1>5. ASSUME input \in [law : {"argument"}, kind : Arg!Keyword, word : Arg!Word]
      PROVE  LawsHold
  <2>1. input.law = "argument" /\ input.kind \in Arg!Keyword
    BY <1>5
  <2>2. Arg!ArgumentLaw(input.kind, input.word)
    BY <2>1, WordsAreReadAlike
  <2> QED
    BY <2>1, <2>2 DEF LawsHold
<1>6. ASSUME input \in [law : {"offer"}, state : ZswapStates, chainState : BOOLEAN]
      PROVE  LawsHold
  <2>1. input.law = "offer" /\ input.state \in ZswapStates /\ input.chainState \in BOOLEAN
    BY <1>6
  <2>2. input.state \in ZswapState(Part)
    BY <2>1, ZswapParts
  <2>3. OfferLaw(input.state, input.chainState)
    BY <2>1, <2>2, OfferBalances
  <2> QED
    BY <2>1, <2>3 DEF LawsHold
<1>7. ASSUME input \in [law : {"update"}, state : Maintained, signing : SigningKeys \cup {None},
                        new : SigningKeys \cup {None}, circuit : ImpureCircuit, key : VerifierKey]
      PROVE  LawsHold
  <2>1. /\ input.law = "update" /\ input.state \in Maintained
        /\ input.circuit \in ImpureCircuit /\ input.key \in VerifierKey
    BY <1>7
  <2>2. input.state \in MaintainedState
    BY <2>1, PureLawsAssumption DEF MaintainedState, AnyKey
  <2>3. KeysWith(input.signing) \in AnyKeys
    BY <1>7, ConfiguredKeys
  <2>4. UpdateLaw(input.state, KeysWith(input.signing), input.new, input.circuit, input.key)
    BY <2>1, <2>2, <2>3, UpdatesMaintain
  <2> QED
    BY <2>1, <2>4 DEF LawsHold
<1>8. ASSUME input \in [law : {"deploy"}, signing : SigningKeys \cup {None}, files : VerifierKeyFiles,
                        defined : SUBSET ImpureCircuit]
      PROVE  LawsHold
  <2>1. /\ input.law = "deploy" /\ input.signing \in SigningKeys \cup {None}
        /\ input.files \in [ImpureCircuit -> VerifierKey \cup {NoKey}]
    BY <1>8, PureLawsAssumption
  <2>2. KeysWith(input.signing).signingKey = input.signing /\ KeysWith(input.signing) \in AnyKeys
    BY <2>1, ConfiguredKeys DEF KeysWith
  <2>3. DeployLaw(Executable, KeysWith(input.signing), input.files, input.defined)
    BY <2>1, <2>2, DeploymentsMaintainable
  <2> QED
    BY <2>1, <2>3 DEF LawsHold
<1>9. ASSUME input \in [law : {"transaction"}, coin : WalletKeys, encryption : WalletKeys,
                        address : CalledAddresses, circuit : ImpureCircuit \cup {"unknown"},
                        private : {Undefined, "zero", "state"}, stored : BOOLEAN, provider : BOOLEAN,
                        found : BOOLEAN, constructed : Constructions, ran : Runs]
      PROVE  LawsHold
  <2>1. /\ input.law = "transaction" /\ input.stored \in BOOLEAN /\ input.provider \in BOOLEAN
        /\ input.found \in BOOLEAN /\ input.constructed \in Constructions /\ input.ran \in Runs
    BY <1>9
  <2>2. input.constructed.zswap \in ZswapState(Part) /\ input.ran.zswap \in ZswapState(Part)
    BY <2>1, ZswapParts
  <2>3. OptionsOf(input).privateStateId \in BOOLEAN
    BY <2>1 DEF OptionsOf
  <2>4. DeployThenCallLaw(WalletOf(input), OptionsOf(input), input.provider, input.found,
                          input.constructed, input.ran)
    BY <2>1, <2>2, <2>3, DeployedCanBeCalled
  <2> QED
    BY <2>1, <2>4 DEF LawsHold
<1>10. ASSUME input \in [law : {"network ids"}, id : NetworkId, other : NetworkId,
                         address : Addresses, otherAddress : Addresses]
       PROVE  LawsHold
  <2>1. input.law = "network ids" /\ input.id \in NetworkId /\ input.other \in NetworkId
    BY <1>10
  <2>2. input.address \in Seq(Char) /\ input.otherAddress \in Seq(Char)
    BY <1>10, PureLawsAssumption
  <2>3. NetworkIdsLaw(input.id, input.other, input.address, input.otherAddress)
    BY <2>1, <2>2, NetworksAreToldApart
  <2> QED
    BY <2>1, <2>3 DEF LawsHold
<1>11. ASSUME input \in [law : {"node"}, kind : {"object", "text"}, node : NetworkId,
                         deployed : SUBSET Addresses, address : Addresses,
                         before : NetworkId, after : NetworkId]
       PROVE  LawsHold
  <2>1. /\ input.law = "node" /\ input.node \in NetworkId
        /\ input.before \in NetworkId /\ input.after \in NetworkId
    BY <1>11
  <2>2. input.deployed \in SUBSET Seq(Char) /\ input.address \in Seq(Char)
    BY <1>11, PureLawsAssumption
  <2>3. NodeLaw(input.kind, input.node, input.deployed, input.address, input.before, input.after)
    BY <2>1, <2>2, NodeAnswersForItsNetwork
  <2> QED
    BY <2>1, <2>3 DEF LawsHold
<1>12. ASSUME input \in [law : {"memory"}, operations : UNION {[1..n -> MemoryOperation] : n \in 0..3}]
       PROVE  LawsHold
  <2>1. input.law = "memory" /\ input.operations \in UNION {[1..n -> MemoryOperation] : n \in 0..3}
    BY <1>12
  <2>2. input.operations \in Seq(MemoryOperation)
    <3>1. PICK n \in 0..3 : input.operations \in [1..n -> MemoryOperation]
      BY <2>1
    <3>2. n \in Nat
      OBVIOUS
    <3> QED
      BY <3>1, <3>2, SeqDef
  <2>3. MemoryLaw(input.operations, {"k", "l"})
    BY <2>2, MemoryKeepsLast DEF MemoryOperation
  <2> QED
    BY <2>1, <2>3 DEF LawsHold
<1> QED
  BY <1>1, <1>2, <1>3, <1>4, <1>5, <1>6, <1>7, <1>8, <1>9, <1>10, <1>11, <1>12 DEF Inputs

=============================================================================
