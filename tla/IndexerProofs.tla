--------------------------- MODULE IndexerProofs ----------------------------
(***************************************************************************)
(* Theorems about Indexer: for any contract, chain and configuration, what *)
(* a stream of contract states emits and what the queries answer.          *)
(***************************************************************************)
EXTENDS Indexer, FiniteSetTheorems, SequenceTheorems, WellFoundedInduction, TLAPS

-----------------------------------------------------------------------------
(* The order of positions *)

Triple == Nat \X Nat \X Nat

LEMMA SmallestNumber ==
  ASSUME NEW T \in SUBSET Nat, T # {}
  PROVE  \E n \in T : \A m \in T : n <= m
<1> DEFINE R == OpToRel(<, Nat)
<1>1. IsWellFoundedOn(R, Nat)
  BY NatLessThanWellFounded
<1>2. \A m, n \in Nat : m < n => <<m, n>> \in R
  BY DEF OpToRel
<1>3. T \subseteq Nat
  OBVIOUS
<1> HIDE DEF R
<1>4. PICK n \in T : \A m \in T : ~(<<m, n>> \in R)
  BY <1>1, <1>3, WFMin, Zenon
<1>5. \A m \in T : ~(m < n)
  BY <1>2, <1>3, <1>4, Zenon
<1> QED
  BY <1>5

LEMMA LargestNumber ==
  ASSUME NEW k \in Nat, NEW T \in SUBSET (0..k), T # {}
  PROVE  \E n \in T : \A m \in T : m <= n
<1> DEFINE U == {i \in Nat : i <= k /\ k - i \in T}
<1>1. U # {}
  <2>1. PICK n \in T : TRUE
    OBVIOUS
  <2>2. n \in 0..k /\ k - (k - n) = n /\ k - n \in Nat /\ k - n <= k
    OBVIOUS
  <2>3. k - n \in U
    BY <2>2
  <2> QED
    BY <2>3
<1>2. PICK i \in U : \A j \in U : i <= j
  <2> HIDE DEF U
  <2>1. U \in SUBSET Nat
    BY DEF U
  <2> QED
    BY <1>1, <2>1, SmallestNumber
<1>3. \A m \in T : m <= k - i
  <2> TAKE m \in T
  <2>1. m \in 0..k /\ k - m \in Nat /\ k - m <= k /\ k - (k - m) = m
    OBVIOUS
  <2>2. k - m \in U
    BY <2>1
  <2>3. i <= k - m
    BY <1>2, <2>2
  <2> QED
    BY <1>2, <2>1, <2>3
<1> QED
  BY <1>2, <1>3

LEMMA OrderTotal ==
  ASSUME NEW p \in Triple, NEW q \in Triple
  PROVE  /\ Before(p, q) \/ Before(q, p) \/ p = q
         /\ ~(Before(p, q) /\ Before(q, p))
         /\ ~Before(p, p)
BY DEF Before, Triple

LEMMA OrderTransitive ==
  ASSUME NEW p \in Triple, NEW q \in Triple, NEW r \in Triple, Before(p, q), Before(q, r)
  PROVE  Before(p, r)
BY DEF Before, Triple

LEMMA OrderOfHeights ==
  ASSUME NEW p \in Triple, NEW q \in Triple, NEW r \in Triple, Before(p, q), Before(q, r),
         NEW from \in Int, NEW to \in Int, from <= p[1], r[1] < to
  PROVE  from <= q[1] /\ q[1] < to
BY DEF Before, Triple

LEMMA OldestIs ==
  ASSUME NEW S \in SUBSET Triple, NEW p \in S, \A q \in S : ~Before(q, p)
  PROVE  Oldest(S) = p
BY OrderTotal DEF Oldest

LEMMA LatestIs ==
  ASSUME NEW S \in SUBSET Triple, NEW p \in S, \A q \in S : ~Before(p, q)
  PROVE  Latest(S) = p
BY OrderTotal DEF Latest

(* Every set of positions that is not empty has an oldest one. *)
LEMMA OldestExists ==
  ASSUME NEW S \in SUBSET Triple, S # {}
  PROVE  Oldest(S) \in S /\ \A q \in S : ~Before(q, Oldest(S))
<1>1. PICK h \in {p[1] : p \in S} : \A g \in {p[1] : p \in S} : h <= g
  <2>1. {p[1] : p \in S} \in SUBSET Nat /\ {p[1] : p \in S} # {}
    BY DEF Triple
  <2> QED
    BY <2>1, SmallestNumber
<1> DEFINE B == {p \in S : p[1] = h}
<1>2. PICK t \in {p[2] : p \in B} : \A u \in {p[2] : p \in B} : t <= u
  <2>1. {p[2] : p \in B} \in SUBSET Nat /\ {p[2] : p \in B} # {}
    BY <1>1 DEF Triple
  <2> QED
    BY <2>1, SmallestNumber
<1> DEFINE T == {p \in B : p[2] = t}
<1>3. PICK i \in {p[3] : p \in T} : \A j \in {p[3] : p \in T} : i <= j
  <2>1. {p[3] : p \in T} \in SUBSET Nat /\ {p[3] : p \in T} # {}
    BY <1>2 DEF Triple
  <2> QED
    BY <2>1, SmallestNumber
<1>4. PICK p \in S : p[1] = h /\ p[2] = t /\ p[3] = i
  BY <1>3
<1>5. \A q \in S : ~Before(q, p)
  <2> TAKE q \in S
  <2>1. h <= q[1] /\ (q[1] = h => t <= q[2]) /\ (q[1] = h /\ q[2] = t => i <= q[3])
    BY <1>1, <1>2, <1>3
  <2>2. p \in Triple /\ q \in Triple
    OBVIOUS
  <2> QED
    BY <1>4, <2>1, <2>2 DEF Before, Triple
<1> QED
  BY <1>5 DEF Oldest

-----------------------------------------------------------------------------
(* The chain *)

ChainOK == chain \in Seq(Blocks) /\ Len(chain) <= MaxHeight

LEMMA ChainShape ==
  ASSUME ChainOK
  PROVE  /\ Len(chain) \in Nat
         /\ \A h \in 1..Len(chain) :
              /\ chain[h] \in Seq(Seq(Actions)) /\ Len(chain[h]) \in Nat
              /\ \A t \in 1..Len(chain[h]) :
                   /\ chain[h][t] \in Seq(Actions) /\ Len(chain[h][t]) \in Nat
                   /\ \A i \in 1..Len(chain[h][t]) : chain[h][t][i] \in Actions
<1>1. \A h \in 1..Len(chain) : chain[h] \in Blocks
  BY DEF ChainOK
<1>2. \A h \in 1..Len(chain) : chain[h] \in Seq(Seq(Actions))
  BY <1>1, IndexerAssumption
<1> HIDE DEF Actions
<1>3. \A h \in 1..Len(chain) : \A t \in 1..Len(chain[h]) : chain[h][t] \in Seq(Actions)
  BY <1>2
<1> QED
  BY <1>2, <1>3 DEF ChainOK

(* A position is that of an action on the chain. *)
LEMMA PositionShape ==
  ASSUME ChainOK, NEW p
  PROVE  p \in Positions <=>
           /\ p \in Triple
           /\ p[1] \in 1..Len(chain)
           /\ p[2] \in 1..Len(chain[p[1]])
           /\ p[3] \in 1..Len(chain[p[1]][p[2]])
<1>1. ASSUME p \in Positions
      PROVE  \E h \in 1..Len(chain) : \E t \in 1..Len(chain[h]) :
               \E i \in 1..Len(chain[h][t]) : p = <<h, t, i>>
  <2>1. PICK h \in 1..Len(chain) : p \in BlockPositions(h)
    BY <1>1 DEF Positions
  <2>2. PICK t \in 1..Len(chain[h]) : p \in TransactionPositions(h, t)
    BY <2>1 DEF BlockPositions
  <2> QED
    BY <2>2 DEF TransactionPositions
<1>2. ASSUME p \in Triple, p[1] \in 1..Len(chain), p[2] \in 1..Len(chain[p[1]]),
             p[3] \in 1..Len(chain[p[1]][p[2]])
      PROVE  p \in Positions
  <2>1. p = <<p[1], p[2], p[3]>>
    BY <1>2 DEF Triple
  <2>2. p \in TransactionPositions(p[1], p[2])
    BY <1>2, <2>1 DEF TransactionPositions
  <2>3. p \in BlockPositions(p[1])
    BY <1>2, <2>2 DEF BlockPositions
  <2> QED
    BY <1>2, <2>3 DEF Positions
<1>3. ASSUME NEW h \in 1..Len(chain), NEW t \in 1..Len(chain[h]),
             NEW i \in 1..Len(chain[h][t]), p = <<h, t, i>>
      PROVE  /\ p \in Triple /\ p[1] = h /\ p[2] = t /\ p[3] = i
  BY <1>3, ChainShape DEF Triple
<1> QED
  BY <1>1, <1>2, <1>3

LEMMA BlockPosition ==
  ASSUME ChainOK, NEW h \in 1..Len(chain)
  PROVE  \A p : p \in BlockPositions(h) <=> p \in Positions /\ p[1] = h
<1>1. ASSUME NEW p \in BlockPositions(h)
      PROVE  p \in Positions /\ p[1] = h
  BY <1>1 DEF BlockPositions, TransactionPositions, Positions
<1>2. ASSUME NEW p \in Positions, p[1] = h
      PROVE  p \in BlockPositions(h)
  BY <1>2 DEF BlockPositions, TransactionPositions, Positions
<1> QED
  BY <1>1, <1>2

LEMMA TransactionPosition ==
  ASSUME ChainOK, NEW p \in Positions
  PROVE  \A q : q \in TransactionPositions(p[1], p[2]) <=> q \in Positions /\ SameTransaction(q, p)
<1>1. p[1] \in 1..Len(chain) /\ p[2] \in 1..Len(chain[p[1]])
  BY PositionShape
<1>2. ASSUME NEW q \in TransactionPositions(p[1], p[2])
      PROVE  q \in Positions /\ SameTransaction(q, p)
  BY <1>1, <1>2 DEF BlockPositions, TransactionPositions, Positions, SameTransaction
<1>3. ASSUME NEW q \in Positions, SameTransaction(q, p)
      PROVE  q \in TransactionPositions(p[1], p[2])
  <2>1. q \in Triple /\ q[3] \in 1..Len(chain[p[1]][p[2]]) /\ q[1] = p[1] /\ q[2] = p[2]
    BY <1>3, PositionShape DEF SameTransaction
  <2>2. q = <<p[1], p[2], q[3]>>
    BY <2>1 DEF Triple
  <2> QED
    BY <2>1, <2>2 DEF TransactionPositions
<1> QED
  BY <1>2, <1>3

LEMMA PositionsAreTriples ==
  ASSUME ChainOK
  PROVE  /\ Positions \in SUBSET Triple
         /\ States \in SUBSET Positions
         /\ None \notin Positions /\ Null \notin Positions
BY PositionShape, IndexerAssumption DEF States, Triple

(* Every set of positions that is not empty has a latest one. *)
LEMMA LatestExists ==
  ASSUME ChainOK, NEW S \in SUBSET Positions, S # {}
  PROVE  Latest(S) \in S /\ \A q \in S : ~Before(Latest(S), q)
<1>1. \A p \in S : /\ p \in Triple
                   /\ p[1] \in 1..Len(chain)
                   /\ p[2] \in 1..Len(chain[p[1]])
                   /\ p[3] \in 1..Len(chain[p[1]][p[2]])
  BY PositionShape
<1>2. PICK h \in {p[1] : p \in S} : \A g \in {p[1] : p \in S} : g <= h
  <2>1. {p[1] : p \in S} \in SUBSET (0..Len(chain)) /\ {p[1] : p \in S} # {}
    BY <1>1, ChainShape
  <2> QED
    BY <2>1, ChainShape, LargestNumber
<1> DEFINE B == {p \in S : p[1] = h}
<1>3. h \in 1..Len(chain)
  BY <1>1, <1>2
<1>4. PICK t \in {p[2] : p \in B} : \A u \in {p[2] : p \in B} : u <= t
  <2>1. Len(chain[h]) \in Nat
    BY <1>3, ChainShape
  <2>2. {p[2] : p \in B} \in SUBSET (0..Len(chain[h])) /\ {p[2] : p \in B} # {}
    BY <1>1, <1>2, <2>1
  <2> QED
    BY <2>1, <2>2, LargestNumber
<1> DEFINE T == {p \in B : p[2] = t}
<1>5. t \in 1..Len(chain[h])
  BY <1>1, <1>4
<1>6. PICK i \in {p[3] : p \in T} : \A j \in {p[3] : p \in T} : j <= i
  <2>1. Len(chain[h][t]) \in Nat
    BY <1>3, <1>5, ChainShape
  <2>2. \A p \in T : p[3] \in 0..Len(chain[h][t])
    BY <1>1, <2>1
  <2>3. {p[3] : p \in T} \in SUBSET (0..Len(chain[h][t])) /\ {p[3] : p \in T} # {}
    BY <1>4, <2>2
  <2> QED
    BY <2>1, <2>3, LargestNumber
<1>7. PICK p \in S : p[1] = h /\ p[2] = t /\ p[3] = i
  BY <1>6
<1>8. \A q \in S : ~Before(p, q)
  <2> TAKE q \in S
  <2>1. q[1] <= h /\ (q[1] = h => q[2] <= t) /\ (q[1] = h /\ q[2] = t => q[3] <= i)
    BY <1>2, <1>4, <1>6
  <2>2. p \in Triple /\ q \in Triple
    BY <1>1
  <2> QED
    BY <1>7, <2>1, <2>2 DEF Before, Triple
<1> QED
  BY <1>8 DEF Latest

LEMMA IntervalFinite == \A n \in Nat : IsFiniteSet(1..n)
BY FS_Interval

(* A block has finitely many actions. *)
LEMMA BlockFinite ==
  ASSUME ChainOK, NEW h \in 1..Len(chain)
  PROVE  IsFiniteSet(BlockPositions(h))
<1>1. Len(chain[h]) \in Nat /\ \A t \in 1..Len(chain[h]) : Len(chain[h][t]) \in Nat
  BY ChainShape
<1>2. ASSUME NEW t \in 1..Len(chain[h])
      PROVE  IsFiniteSet(TransactionPositions(h, t))
  <2> DEFINE f == [i \in 1..Len(chain[h][t]) |-> <<h, t, i>>]
  <2>1. f \in Surjection(1..Len(chain[h][t]), TransactionPositions(h, t))
    <3>1. f \in [1..Len(chain[h][t]) -> TransactionPositions(h, t)]
      BY DEF TransactionPositions
    <3>2. \A p \in TransactionPositions(h, t) : \E i \in 1..Len(chain[h][t]) : f[i] = p
      BY DEF TransactionPositions
    <3> HIDE DEF f
    <3> QED
      BY <3>1, <3>2 DEF Surjection
  <2>2. IsFiniteSet(1..Len(chain[h][t]))
    BY <1>1, IntervalFinite
  <2> HIDE DEF f
  <2> QED
    BY <2>1, <2>2, FS_Surjection
<1> DEFINE S == {TransactionPositions(h, t) : t \in 1..Len(chain[h])}
<1> DEFINE g == [t \in 1..Len(chain[h]) |-> TransactionPositions(h, t)]
<1>3. g \in Surjection(1..Len(chain[h]), S)
  BY DEF Surjection
<1>4. IsFiniteSet(1..Len(chain[h]))
  BY <1>1, IntervalFinite
<1>5. \A s \in S : IsFiniteSet(s)
  BY <1>2
<1>6. BlockPositions(h) = UNION S
  BY DEF BlockPositions
<1> HIDE DEF S, g
<1>7. IsFiniteSet(S)
  BY <1>3, <1>4, FS_Surjection
<1> QED
  BY <1>5, <1>6, <1>7, FS_UNION

(* What is delivered of a set: all of it, in the order of the chain. *)
LEMMA OldestFirstIs ==
  ASSUME NEW S, IsFiniteSet(S), NEW seq \in OldestFirst(S)
  PROVE  /\ seq \in Seq(S) /\ Len(seq) \in Nat
         /\ \A n \in 1..Len(seq) : seq[n] \in S
         /\ \A m, n \in 1..Len(seq) : m < n => Before(seq[m], seq[n])
         /\ \A p \in S : \E n \in 1..Len(seq) : seq[n] = p
<1>1. Cardinality(S) \in Nat
  BY FS_CardinalityType
<1>2. seq \in [1..Cardinality(S) -> S]
  BY DEF OldestFirst
<1>3. seq \in Seq(S) /\ Len(seq) = Cardinality(S)
  BY <1>1, <1>2
<1>4. \A n \in 1..Cardinality(S) : seq[n] \in S
  BY <1>2
<1> QED
  BY <1>1, <1>3, <1>4 DEF OldestFirst

LEMMA ChainSame ==
  ASSUME UNCHANGED chain
  PROVE  /\ Positions' = Positions /\ States' = States
         /\ \A p : Kind(p)' = Kind(p) /\ OfContract(p)' = OfContract(p)
<1>1. \A h : BlockPositions(h)' = BlockPositions(h)
  BY DEF BlockPositions, TransactionPositions
<1>2. Positions' = Positions
  BY <1>1 DEF Positions
<1>3. \A p : Kind(p)' = Kind(p) /\ OfContract(p)' = OfContract(p)
  BY DEF Kind, OfContract, ActionAt
<1> QED
  BY <1>2, <1>3 DEF States

(* A block that is appended adds positions after all others. *)
LEMMA Appended ==
  ASSUME ChainOK, Len(chain) < MaxHeight, NEW block \in Blocks, chain' = Append(chain, block)
  PROVE  /\ ChainOK' /\ Len(chain') = Len(chain) + 1
         /\ Positions \subseteq Positions' /\ Positions' \in SUBSET Triple
         /\ States \subseteq States' /\ States' \subseteq Positions'
         /\ \A p \in Positions : Kind(p)' = Kind(p) /\ OfContract(p)' = OfContract(p)
         /\ \A p \in Positions' : p \in Positions \/ p[1] = Len(chain) + 1
         /\ \A p \in States' : p \in States \/ p[1] = Len(chain) + 1
<1>1. ChainOK' /\ Len(chain') = Len(chain) + 1
  BY IndexerAssumption DEF ChainOK
<1>2. Len(chain) \in Nat
  BY ChainShape
<1>3. \A h \in 1..Len(chain) : chain'[h] = chain[h]
  BY DEF ChainOK
<1>4. \A h \in 1..Len(chain) : BlockPositions(h)' = BlockPositions(h)
  BY <1>3 DEF BlockPositions, TransactionPositions
<1>5. Positions \subseteq Positions'
  <2> SUFFICES ASSUME NEW p \in Positions
               PROVE  p \in Positions'
    OBVIOUS
  <2>1. PICK h \in 1..Len(chain) : p \in BlockPositions(h)
    BY DEF Positions
  <2>2. h \in 1..Len(chain')
    BY <1>1, <1>2
  <2> QED
    BY <1>4, <2>1, <2>2 DEF Positions
<1>6. chain'[Len(chain) + 1] = block
  BY DEF ChainOK
<1>7. \A t \in 1..Len(block) : Len(block) \in Nat /\ Len(block[t]) \in Nat
  <2>1. block \in Seq(Seq(Actions))
    BY IndexerAssumption
  <2> HIDE DEF Actions
  <2> QED
    BY <2>1
<1>8. ASSUME NEW p \in Positions'
      PROVE  p \in Positions \/ (p[1] = Len(chain) + 1 /\ p \in Triple)
  <2>1. PICK h \in 1..Len(chain') : p \in BlockPositions(h)'
    BY <1>8 DEF Positions
  <2>2. CASE h \in 1..Len(chain)
    BY <1>4, <2>1, <2>2 DEF Positions
  <2>3. CASE h = Len(chain) + 1
    <3>1. PICK t \in 1..Len(chain'[h]) : p \in TransactionPositions(h, t)'
      BY <2>1 DEF BlockPositions
    <3>2. PICK i \in 1..Len(block[t]) : p = <<h, t, i>>
      BY <1>6, <2>3, <3>1 DEF TransactionPositions
    <3>3. h \in Nat /\ t \in Nat /\ i \in Nat
      BY <1>2, <1>6, <1>7, <2>3, <3>1, <3>2
    <3> QED
      BY <2>3, <3>2, <3>3 DEF Triple
  <2> QED
    BY <1>1, <1>2, <2>2, <2>3
<1>9. Positions' \in SUBSET Triple
  BY <1>8, PositionsAreTriples
<1>10. \A p \in Positions : p[1] \in 1..Len(chain)
  BY PositionShape
<1>11. \A p \in Positions : Kind(p)' = Kind(p) /\ OfContract(p)' = OfContract(p)
  BY <1>3, <1>10 DEF Kind, OfContract, ActionAt
<1>12. \A p \in States' : p \in Positions'
  BY DEF States
<1>13. \A p \in States' : p \in States \/ p[1] = Len(chain) + 1
  BY <1>8, <1>11 DEF States
<1>14. States \subseteq States'
  BY <1>5, <1>11 DEF States
<1> QED
  BY <1>1, <1>5, <1>8, <1>9, <1>11, <1>12, <1>13, <1>14

(* What the deployment is found through. *)
LEMMA DeploymentFound ==
  ASSUME ChainOK, States # {}
  PROVE  /\ Latest(States) \in States /\ Oldest(States) \in States
         /\ DeployAction \in States
         /\ FirstInTransaction(DeployAction) \in States
         /\ (Lawful /\ \A p \in States : Kind(p) # "update") =>
              DeployAction = Oldest(States) /\ FirstInTransaction(DeployAction) = Oldest(States)
<1>1. States \in SUBSET Triple /\ States \in SUBSET Positions
  BY PositionsAreTriples
<1>2. Latest(States) \in States /\ \A q \in States : ~Before(Latest(States), q)
  BY <1>1, LatestExists
<1>3. Oldest(States) \in States /\ \A q \in States : ~Before(q, Oldest(States))
  BY <1>1, OldestExists
<1>4. DeployAction \in States
  BY <1>2, <1>3 DEF DeployAction
<1>5. ASSUME NEW p \in States
      PROVE  /\ FirstInTransaction(p) \in States
             /\ p = Oldest(States) => FirstInTransaction(p) = p
  <2> DEFINE T == {q \in TransactionPositions(p[1], p[2]) : OfContract(q)}
  <2>1. \A q : q \in T <=> q \in States /\ SameTransaction(q, p)
    BY <1>1, TransactionPosition DEF States
  <2>2. p \in T
    BY <2>1 DEF SameTransaction
  <2>3. T \in SUBSET States
    BY <2>1
  <2>4. FirstInTransaction(p) = Oldest(T)
    BY DEF FirstInTransaction
  <2> HIDE DEF T
  <2>5. T \in SUBSET Triple /\ T # {}
    BY <1>1, <2>2, <2>3
  <2>6. Oldest(T) \in States
    BY <2>3, <2>5, OldestExists
  <2>7. p = Oldest(States) => Oldest(T) = p
    BY <1>3, <2>2, <2>3, <2>5, OldestIs
  <2> QED
    BY <2>4, <2>6, <2>7
<1>6. ASSUME Lawful, \A p \in States : Kind(p) # "update"
      PROVE  DeployAction = Oldest(States)
  <2> DEFINE p == Latest(States)
  <2>1. p[1] \in 1..Len(chain) /\ p[2] \in 1..Len(chain[p[1]]) /\ p[3] \in 1..Len(chain[p[1]][p[2]])
    BY <1>1, <1>2, PositionShape
  <2>2. ActionAt(p) \in Actions
    BY <2>1, ChainShape DEF ActionAt
  <2>3. Kind(p) \in {"deploy", "call"}
    BY <1>2, <1>6, <2>2 DEF Kind, Actions, ActionKinds
  <2>4. Kind(p) = "deploy" => \A q \in States : ~Before(q, p)
    BY <1>2, <1>6 DEF Lawful, Kind
  <2> HIDE DEF p
  <2>5. Kind(p) = "deploy" => p = Oldest(States)
    <3>1. p \in States
      BY <1>2 DEF p
    <3> QED
      BY <1>1, <2>4, <3>1, OldestIs
  <2> QED
    BY <2>3, <2>5 DEF DeployAction, p
<1> QED
  BY <1>2, <1>3, <1>4, <1>5, <1>6

-----------------------------------------------------------------------------
(* What holds of a stream *)

StreamTypes ==
  /\ ChainOK
  /\ config \in Configs
  /\ phase \in {"none", "waiting", "streaming", "failed"}
  /\ config.type = "none" => phase = "none"
  /\ offset \in 0..Len(chain)
  /\ next \in offset..(Len(chain) + 1)
  /\ skipping \in BOOLEAN
  /\ emitted \in Seq(Positions)
  /\ resumed \in 0..Len(emitted)
  /\ reconnects \in 0..MaxReconnects

Waiting ==
  phase \in {"none", "waiting"} => emitted = <<>> /\ offset = 0 /\ next = 0

(* A stream that is not inclusive has emitted nothing until it has left out
   its first, which it does with the first block. *)
Skipping ==
  /\ skipping => /\ emitted = <<>> /\ next = offset
                 /\ config.type \in {"blockOffset", "txId"} /\ ~config.inclusive
  /\ config.type \in {"blockOffset", "txId"} /\ ~config.inclusive /\ ~skipping
       => reconnects > 0 \/ next > offset

Beginning ==
  phase = "streaming" =>
    /\ offset # 0
    /\ config.type = "all" => offset = 1
    /\ config.type = "latest" => \E p \in States : p[1] = offset
    /\ config.type = "blockOffset" => offset = config.height
    /\ config.type = "txId" => config.txId \in Positions /\ offset = config.txId[1]

(* A stream of blocks that has emitted nothing has passed over nothing. *)
NothingPassed ==
  (phase = "streaming" /\ IsBlockStream /\ emitted = <<>> /\ (LeftOut => reconnects = 0)) =>
    \A p \in Beginnings : next <= p[1]

(* On one connection, the states of a stream of blocks are in order, and they
   are those of the blocks that were delivered, but for the first block if it
   was left out. *)
InOrder ==
  IsBlockStream =>
    \A m, n \in (resumed + 1)..Len(emitted) : m < n => Before(emitted[m], emitted[n])

OnConnection ==
  IsBlockStream => \E from \in {offset, offset + 1} : \A p \in Positions :
    (\E n \in (resumed + 1)..Len(emitted) : emitted[n] = p)
      <=> p \in States /\ from <= p[1] /\ p[1] < next

(* All connections taken together, they are those of successive blocks. *)
OnAll ==
  IsBlockStream => \E from \in {offset, offset + 1}, to \in next..(Len(chain) + 1) :
    \A p \in Positions :
      (\E n \in 1..Len(emitted) : emitted[n] = p) <=> p \in States /\ from <= p[1] /\ p[1] < to

StreamInv ==
  /\ StreamTypes
  /\ Waiting
  /\ Skipping
  /\ Beginning
  /\ NothingPassed
  /\ StartsWhereAsked
  /\ InOrder
  /\ OnConnection
  /\ OnAll

LEMMA StreamInit == IndexerInit => StreamInv
<1> SUFFICES ASSUME IndexerInit
             PROVE  StreamInv
  OBVIOUS
<1> USE DEF IndexerInit
<1>1. Len(chain) = 0 /\ ChainOK
  BY IndexerAssumption DEF ChainOK
<1>2. StreamTypes
  BY <1>1, IndexerAssumption DEF StreamTypes
<1>3. Waiting /\ Beginning /\ NothingPassed /\ StartsWhereAsked /\ InOrder
  BY DEF Waiting, Beginning, NothingPassed, StartsWhereAsked, InOrder
<1>4. Skipping
  BY <1>2 DEF Skipping
<1>5. OnConnection /\ OnAll
  <2>1. \A p \in Positions : FALSE
    BY <1>1 DEF Positions
  <2>2. offset \in {offset, offset + 1} /\ 0 \in next..(Len(chain) + 1)
    BY <1>1
  <2> QED
    BY <2>1, <2>2 DEF OnConnection, OnAll
<1> QED
  BY <1>2, <1>3, <1>4, <1>5 DEF StreamInv

(* What has been emitted of a chain has been emitted of a longer one. *)
LEMMA AppendKeepsStream ==
  ASSUME StreamInv, AppendBlock
  PROVE  StreamInv'
<1> USE DEF StreamInv
<1>1. PICK block \in Blocks : chain' = Append(chain, block)
  BY DEF AppendBlock
<1>2. /\ ChainOK' /\ Len(chain') = Len(chain) + 1
      /\ Positions \subseteq Positions' /\ States \subseteq States' /\ States' \subseteq Positions'
      /\ \A p \in Positions' : p \in Positions \/ p[1] = Len(chain) + 1
      /\ \A p \in States' : p \in States \/ p[1] = Len(chain) + 1
  BY <1>1, Appended DEF AppendBlock, StreamTypes
<1>3. Len(chain) \in Nat
  BY ChainShape DEF StreamTypes
<1>4. UNCHANGED <<config, phase, offset, next, skipping, emitted, resumed, reconnects>>
  BY DEF AppendBlock, streamVars, connectionVars
<1>5. StreamTypes'
  BY <1>2, <1>3, <1>4 DEF StreamTypes
<1>6. Waiting' /\ Skipping' /\ Beginning' /\ InOrder'
  BY <1>2, <1>4 DEF Waiting, Skipping, Beginning, InOrder, IsBlockStream
<1>7. \A p \in Positions : p \in States' <=> p \in States
  BY <1>1, Appended DEF AppendBlock, StreamTypes, States
<1>8. \A n \in 1..Len(emitted) : emitted[n] \in Positions
  BY DEF StreamTypes
<1>9. \A p \in Positions : p[1] \in 1..Len(chain)
  BY PositionShape DEF StreamTypes
<1>10. OnConnection'
  <2> SUFFICES ASSUME IsBlockStream
               PROVE  \E from \in {offset, offset + 1} : \A p \in Positions' :
                        (\E n \in (resumed + 1)..Len(emitted) : emitted[n] = p)
                          <=> p \in States' /\ from <= p[1] /\ p[1] < next
    BY <1>4 DEF OnConnection, IsBlockStream
  <2>1. PICK from \in {offset, offset + 1} : \A p \in Positions :
          (\E n \in (resumed + 1)..Len(emitted) : emitted[n] = p)
            <=> p \in States /\ from <= p[1] /\ p[1] < next
    BY DEF OnConnection
  <2>2. ASSUME NEW p \in Positions', p \notin Positions
        PROVE  /\ ~(p[1] < next)
               /\ \A n \in (resumed + 1)..Len(emitted) : emitted[n] # p
    <3>1. p[1] = Len(chain) + 1
      BY <1>2, <2>2
    <3> QED
      BY <1>3, <1>8, <2>2, <3>1 DEF StreamTypes
  <2> QED
    BY <1>7, <2>1, <2>2
<1>11. OnAll'
  <2> SUFFICES ASSUME IsBlockStream
               PROVE  \E from \in {offset, offset + 1}, to \in next..(Len(chain') + 1) :
                        \A p \in Positions' :
                          (\E n \in 1..Len(emitted) : emitted[n] = p)
                            <=> p \in States' /\ from <= p[1] /\ p[1] < to
    BY <1>4 DEF OnAll, IsBlockStream
  <2>1. PICK from \in {offset, offset + 1}, to \in next..(Len(chain) + 1) :
          \A p \in Positions :
            (\E n \in 1..Len(emitted) : emitted[n] = p) <=> p \in States /\ from <= p[1] /\ p[1] < to
    BY DEF OnAll
  <2>2. ASSUME NEW p \in Positions', p \notin Positions
        PROVE  /\ ~(p[1] < to)
               /\ \A n \in 1..Len(emitted) : emitted[n] # p
    <3>1. p[1] = Len(chain) + 1
      BY <1>2, <2>2
    <3>2. ~(p[1] < to)
      BY <1>3, <3>1 DEF StreamTypes
    <3> QED
      BY <1>8, <2>2, <3>2
  <2>3. to \in next..(Len(chain') + 1)
    BY <1>2, <1>3 DEF StreamTypes
  <2> QED
    BY <1>7, <2>1, <2>2, <2>3
<1>12. ASSUME config.type # "none"
       PROVE  /\ Beginnings \subseteq Beginnings'
              /\ \A p \in Beginnings' : p \in Beginnings \/ p[1] = Len(chain) + 1
  <2>1. config.type \in {"all", "latest", "blockOffset", "txId"}
    BY <1>12, IndexerAssumption DEF StreamTypes
  <2>2. \A p, q : SameTransaction(p, q)' = SameTransaction(p, q) /\ Before(p, q)' = Before(p, q)
    BY DEF SameTransaction, Before
  <2> QED
    BY <1>2, <1>4, <1>7, <2>1, <2>2 DEF Beginnings
<1>13. NothingPassed'
  <2> SUFFICES ASSUME phase = "streaming", IsBlockStream, emitted = <<>>, LeftOut => reconnects = 0,
                      NEW p \in Beginnings'
               PROVE  next <= p[1]
    BY <1>4 DEF NothingPassed, LeftOut, IsBlockStream
  <2>1. config.type # "none"
    BY DEF StreamTypes
  <2> QED
    BY <1>3, <1>12, <2>1 DEF NothingPassed, StreamTypes
<1>14. StartsWhereAsked'
  <2> SUFFICES ASSUME emitted # <<>>, LeftOut => reconnects = 0
               PROVE  /\ emitted[1] \in Beginnings'
                      /\ \A p \in Beginnings' : ~Before(p, emitted[1])
    BY <1>4 DEF StartsWhereAsked, LeftOut, Before
  <2>1. config.type # "none"
    BY DEF StreamTypes, Waiting
  <2>2. emitted[1] \in Beginnings /\ \A p \in Beginnings : ~Before(p, emitted[1])
    BY DEF StartsWhereAsked
  <2>3. emitted[1][1] \in 1..Len(chain)
    BY <1>9 DEF StreamTypes
  <2>4. \A p : p[1] = Len(chain) + 1 => ~Before(p, emitted[1])
    BY <1>3, <2>3 DEF Before
  <2> QED
    BY <1>12, <2>1, <2>2, <2>4
<1> QED
  BY <1>5, <1>6, <1>10, <1>11, <1>13, <1>14

(* A step that leaves the chain and what was emitted as they are. *)
LEMMA SameStatesMeanSame ==
  ASSUME UNCHANGED <<chain, config, emitted>>
  PROVE  /\ Positions' = Positions /\ States' = States /\ (IsBlockStream' <=> IsBlockStream)
         /\ ChainOK => ChainOK'
BY ChainSame DEF ChainOK, IsBlockStream

LEMMA BeginningsSame ==
  ASSUME UNCHANGED <<chain, config, offset>>
  PROVE  Beginnings' = Beginnings /\ (LeftOut' <=> LeftOut)
<1>1. Positions' = Positions /\ States' = States
  BY ChainSame
<1>2. \A p, q : SameTransaction(p, q)' = SameTransaction(p, q) /\ Before(p, q)' = Before(p, q)
  BY DEF SameTransaction, Before
<1> QED
  BY <1>1, <1>2 DEF Beginnings, LeftOut

LEMMA PollKeepsStream ==
  ASSUME StreamInv, Poll
  PROVE  StreamInv'
<1> USE DEF StreamInv
<1>1. /\ phase = "waiting" /\ phase' = "streaming" /\ offset' = Offset /\ next' = Offset
      /\ UNCHANGED <<chain, config, skipping, emitted, resumed, reconnects>>
  BY DEF Poll, connectionVars
<1>2. Positions' = Positions /\ States' = States /\ (IsBlockStream' <=> IsBlockStream) /\ ChainOK'
  BY <1>1, SameStatesMeanSame DEF StreamTypes
<1>3. emitted = <<>> /\ resumed = 0
  BY <1>1 DEF Waiting, StreamTypes
<1>4. Len(chain) \in Nat
  BY ChainShape DEF StreamTypes
<1>5. config.type \in {"all", "latest", "blockOffset", "txId"} /\ config.height \in Nat \ {0}
  BY <1>1, IndexerAssumption DEF StreamTypes
<1>6. \A p \in Positions : p[1] \in 1..Len(chain)
  BY PositionShape DEF StreamTypes
<1>7. /\ Offset \in 1..Len(chain)
      /\ config.type = "all" => Offset = 1
      /\ config.type = "latest" => \E p \in States : p[1] = Offset
      /\ config.type = "blockOffset" => Offset = config.height
      /\ config.type = "txId" => config.txId \in Positions /\ Offset = config.txId[1]
  <2>1. CASE config.type = "all"
    <3>1. PICK p \in States : TRUE
      BY <2>1 DEF Poll, Begun
    <3>2. 1 <= Len(chain)
      BY <1>4, <1>6, <3>1 DEF States
    <3> QED
      BY <1>4, <2>1, <3>2 DEF Offset
  <2>2. CASE config.type = "latest"
    <3>1. Latest(States) \in States
      BY <2>2, DeploymentFound DEF Poll, Begun, StreamTypes
    <3>2. Latest(States)[1] \in 1..Len(chain)
      BY <1>6, <3>1 DEF States
    <3> QED
      BY <2>2, <3>1, <3>2 DEF Offset
  <2>3. CASE config.type = "blockOffset"
    BY <1>4, <1>5, <2>3 DEF Poll, Begun, Offset
  <2>4. CASE config.type = "txId"
    BY <1>6, <2>4 DEF Poll, Begun, Offset
  <2> QED
    BY <1>5, <2>1, <2>2, <2>3, <2>4
<1> HIDE DEF StreamInv
<1>8. StreamTypes /\ Skipping
  BY DEF StreamInv
<1>9. StreamTypes'
  BY <1>1, <1>2, <1>4, <1>5, <1>7, <1>8 DEF StreamTypes
<1>10. Waiting' /\ Beginning' /\ StartsWhereAsked'
  BY <1>1, <1>2, <1>3, <1>7 DEF Waiting, Beginning, StartsWhereAsked
<1>13. NothingPassed'
  <2> SUFFICES ASSUME IsBlockStream, NEW p \in Beginnings'
               PROVE  offset' <= p[1]
    BY <1>1, <1>2 DEF NothingPassed
  <2>1. CASE config.type = "all"
    BY <1>1, <1>2, <1>4, <1>6, <1>7, <2>1 DEF Beginnings, States
  <2>2. CASE config.type = "latest"
    BY <1>1, <1>2, <1>4, <1>6, <1>7, <2>2 DEF Beginnings, States
  <2>3. CASE config.type = "blockOffset"
    BY <1>1, <1>2, <1>4, <1>5, <1>6, <1>7, <2>3 DEF Beginnings, States
  <2> QED
    BY <1>5, <2>1, <2>2, <2>3 DEF IsBlockStream
<1>11. Skipping'
  <2>1. skipping => emitted = <<>> /\ next' = offset'
                      /\ config.type \in {"blockOffset", "txId"} /\ ~config.inclusive
    BY <1>1, <1>8 DEF Skipping
  <2>2. ASSUME config.type \in {"blockOffset", "txId"}, ~config.inclusive, ~skipping
        PROVE  reconnects > 0
    <3>1. next = 0 /\ offset = 0
      BY <1>1 DEF StreamInv, Waiting
    <3> QED
      BY <1>8, <2>2, <3>1 DEF Skipping
  <2> QED
    BY <1>1, <2>1, <2>2 DEF Skipping
<1>12. InOrder' /\ OnConnection' /\ OnAll'
  <2>1. Len(emitted) = 0
    BY <1>3
  <2>2. offset' \in {offset', offset' + 1} /\ next' \in next'..(Len(chain') + 1) /\ next' = offset'
    BY <1>1, <1>4, <1>7
  <2>3. \A p \in Positions : p[1] \in Nat /\ ~(offset' <= p[1] /\ p[1] < next')
    BY <1>4, <1>6, <1>7, <2>2
  <2> QED
    BY <1>1, <1>2, <1>3, <2>1, <2>2, <2>3 DEF InOrder, OnConnection, OnAll
<1> QED
  BY <1>9, <1>10, <1>11, <1>12, <1>13 DEF StreamInv

LEMMA ReconnectKeepsStream ==
  ASSUME StreamInv, Reconnect
  PROVE  StreamInv'
<1>1. /\ phase = "streaming" /\ next' = offset /\ resumed' = Len(emitted)
      /\ reconnects < MaxReconnects /\ reconnects' = reconnects + 1
      /\ UNCHANGED <<chain, config, phase, offset, skipping, emitted>>
  BY DEF Reconnect
<1>2. Positions' = Positions /\ States' = States /\ (IsBlockStream' <=> IsBlockStream) /\ ChainOK'
  BY <1>1, SameStatesMeanSame DEF StreamInv, StreamTypes
<1>3. StreamTypes /\ Len(chain) \in Nat /\ Len(emitted) \in Nat
  BY ChainShape DEF StreamInv, StreamTypes
<1>4. StreamTypes'
  BY <1>1, <1>2, <1>3, IndexerAssumption DEF StreamTypes
<1>5. Waiting' /\ Beginning'
  BY <1>1, <1>2 DEF StreamInv, Waiting, Beginning
<1>6. Skipping'
  BY <1>1, <1>3 DEF StreamInv, Skipping, StreamTypes
<1>7. NothingPassed' /\ StartsWhereAsked'
  <2>1. Beginnings' = Beginnings /\ (LeftOut' <=> LeftOut)
    BY <1>1, BeginningsSame
  <2>2. reconnects' # 0 /\ offset <= next /\ next \in Nat /\ offset \in Nat
    BY <1>1, <1>3, IndexerAssumption DEF StreamTypes
  <2>3. StartsWhereAsked'
    BY <1>1, <2>1, <2>2 DEF StreamInv, StartsWhereAsked, Before
  <2>4. NothingPassed'
    <3> SUFFICES ASSUME phase = "streaming", IsBlockStream, emitted = <<>>, ~LeftOut,
                        NEW p \in Beginnings
                 PROVE  offset <= p[1]
      BY <1>1, <1>2, <2>1, <2>2 DEF NothingPassed
    <3>1. next <= p[1]
      BY DEF StreamInv, NothingPassed
    <3>2. p[1] \in Nat
      <4>1. config.type \in {"all", "latest", "blockOffset"}
        BY <1>3, IndexerAssumption DEF IsBlockStream, StreamTypes
      <4>2. p \in Positions
        BY <4>1 DEF Beginnings, States
      <4> QED
        BY <1>3, <4>2, PositionsAreTriples DEF StreamTypes, Triple
    <3> QED
      BY <2>2, <3>1, <3>2
  <2> QED
    BY <2>3, <2>4
<1>8. InOrder'
  BY <1>1, <1>3 DEF InOrder
<1>9. OnConnection'
  <2>1. \A p \in Positions : p[1] \in 1..Len(chain)
    BY <1>3, PositionShape DEF StreamTypes
  <2>2. \A p \in Positions : ~(offset <= p[1] /\ p[1] < next')
    BY <1>1, <1>3, <2>1 DEF StreamTypes
  <2>3. (resumed' + 1)..Len(emitted') = {}
    BY <1>1, <1>3
  <2> QED
    BY <1>1, <1>2, <2>2, <2>3 DEF OnConnection
<1>10. OnAll'
  <2>1. next..(Len(chain) + 1) \subseteq next'..(Len(chain') + 1)
    BY <1>1, <1>3 DEF StreamTypes
  <2> QED
    BY <1>1, <1>2, <2>1 DEF StreamInv, OnAll
<1> QED
  BY <1>4, <1>5, <1>6, <1>7, <1>8, <1>9, <1>10 DEF StreamInv

LEMMA StandingStreamKept ==
  ASSUME StreamInv,
         UNCHANGED <<chain, config, offset, next, skipping, emitted, resumed, reconnects>>,
         UNCHANGED phase \/ (phase \in {"waiting", "streaming"} /\ phase' = "failed")
  PROVE  StreamInv'
<1>1. Positions' = Positions /\ States' = States /\ (IsBlockStream' <=> IsBlockStream) /\ ChainOK'
  BY SameStatesMeanSame DEF StreamInv, StreamTypes
<1>2. StreamTypes'
  BY <1>1 DEF StreamInv, StreamTypes
<1>3. Waiting' /\ Beginning'
  BY <1>1 DEF StreamInv, Waiting, Beginning
<1>4. Skipping' /\ NothingPassed' /\ StartsWhereAsked'
  BY <1>1, BeginningsSame DEF StreamInv, Skipping, NothingPassed, StartsWhereAsked, Before
<1>5. InOrder' /\ OnConnection' /\ OnAll'
  BY <1>1 DEF StreamInv, InOrder, OnConnection, OnAll
<1> QED
  BY <1>2, <1>3, <1>4, <1>5 DEF StreamInv

LEMMA Concatenated ==
  ASSUME NEW S, NEW s \in Seq(S), NEW t \in Seq(S)
  PROVE  /\ s \o t \in Seq(S) /\ Len(s \o t) = Len(s) + Len(t)
         /\ Len(s) \in Nat /\ Len(t) \in Nat
         /\ \A n \in 1..Len(s) : (s \o t)[n] = s[n]
         /\ \A n \in 1..Len(t) : (s \o t)[Len(s) + n] = t[n]
         /\ \A n \in 1..Len(s \o t) : n \in 1..Len(s) \/ n - Len(s) \in 1..Len(t)
OBVIOUS

LEMMA TailOf ==
  ASSUME NEW S, NEW s \in Seq(S), s # <<>>
  PROVE  /\ SubSeq(s, 2, Len(s)) \in Seq(S)
         /\ Len(SubSeq(s, 2, Len(s))) = Len(s) - 1
         /\ \A n \in 1..(Len(s) - 1) : SubSeq(s, 2, Len(s))[n] = s[n + 1]
<1> DEFINE t == SubSeq(s, 2, Len(s))
<1>1. Len(s) \in Nat \ {0} /\ \A n \in 2..Len(s) : s[n] \in S
  OBVIOUS
<1>2. 2 \in Int /\ Len(s) \in Int
  BY <1>1
<1>3. /\ t \in Seq(S)
      /\ Len(t) = IF 2 <= Len(s) THEN Len(s) - 2 + 1 ELSE 0
      /\ \A n \in 1..(Len(s) - 2 + 1) : t[n] = s[2 + n - 1]
  BY <1>1, <1>2, SubSeqProperties
<1> HIDE DEF t
<1>4. \A n \in 1..(Len(s) - 1) : n \in 1..(Len(s) - 2 + 1) /\ 2 + n - 1 = n + 1
  BY <1>1
<1>5. Len(t) = Len(s) - 1
  <2>1. CASE Len(s) = 1
    BY <1>3, <2>1
  <2>2. CASE 2 <= Len(s)
    <3>1. Len(t) = Len(s) - 2 + 1
      BY <1>3, <2>2, Zenon
    <3> QED
      BY <1>1, <3>1
  <2> QED
    BY <1>1, <2>1, <2>2
<1>6. \A n \in 1..(Len(s) - 1) : t[n] = s[n + 1]
  <2> TAKE n \in 1..(Len(s) - 1)
  <2>1. t[n] = s[2 + n - 1] /\ 2 + n - 1 = n + 1
    BY <1>3, <1>4
  <2> QED
    BY <2>1, Zenon
<1> QED
  BY <1>3, <1>5, <1>6 DEF t

(* What the next block delivers: to a stream of blocks, the states of the
   contract in it; to the other, what its transaction does from the identifier
   on. *)
LEMMA DeliveredIs ==
  ASSUME StreamTypes, Beginning, phase = "streaming", next <= Len(chain)
  PROVE  /\ IsFiniteSet(Delivered(next)) /\ Delivered(next) \in SUBSET Positions
         /\ next \in 1..Len(chain)
         /\ \A p \in Delivered(next) : p[1] = next
         /\ IsBlockStream =>
              \A p \in Positions : p \in Delivered(next) <=> p \in States /\ p[1] = next
         /\ config.type = "txId" =>
              /\ \A p \in Delivered(next) : next = offset /\ ~Before(p, config.txId)
              /\ next = offset => config.txId \in Delivered(next)
<1>1. next \in 1..Len(chain)
  BY ChainShape DEF StreamTypes, Beginning
<1>2. \A p : p \in BlockPositions(next) <=> p \in Positions /\ p[1] = next
  BY <1>1, BlockPosition DEF StreamTypes
<1>3. Delivered(next) \in SUBSET BlockPositions(next)
  BY DEF Delivered, TransactionToContractState, BlockToContractState
<1>4. IsFiniteSet(Delivered(next))
  BY <1>1, <1>3, BlockFinite, FS_Subset DEF StreamTypes
<1>5. IsBlockStream => \A p \in Positions : p \in Delivered(next) <=> p \in States /\ p[1] = next
  BY <1>2 DEF IsBlockStream, Delivered, BlockToContractState, States
<1>6. ASSUME config.type = "txId"
      PROVE  /\ \A p \in Delivered(next) : next = offset /\ ~Before(p, config.txId)
             /\ next = offset => config.txId \in Delivered(next)
  <2>1. config.txId \in Positions /\ offset = config.txId[1]
    BY <1>6 DEF Beginning
  <2>2. config.txId \in Triple
    BY <2>1, PositionsAreTriples DEF StreamTypes
  <2>3. \A p : p \in Delivered(next) <=>
          p \in Positions /\ p[1] = next /\ SameTransaction(p, config.txId) /\ p[3] >= config.txId[3]
    BY <1>2, <1>6 DEF Delivered, TransactionToContractState
  <2>4. \A p \in Delivered(next) : next = offset
    BY <2>1, <2>3 DEF SameTransaction
  <2>5. \A p \in Delivered(next) : ~Before(p, config.txId)
    <3> TAKE p \in Delivered(next)
    <3>1. p \in Triple
      BY <2>3, PositionsAreTriples DEF StreamTypes
    <3> QED
      BY <2>2, <2>3, <3>1 DEF SameTransaction, Before, Triple
  <2>6. next = offset => config.txId \in Delivered(next)
    BY <2>1, <2>2, <2>3 DEF SameTransaction, Triple
  <2> QED
    BY <2>4, <2>5, <2>6
<1> QED
  BY <1>1, <1>2, <1>3, <1>4, <1>5, <1>6

(* What its transaction does after the identifier is delivered with it. *)
LEMMA DeliveredOfTransaction ==
  ASSUME ChainOK, config.type = "txId", next \in 1..Len(chain), config.txId \in Triple,
         NEW p \in Positions, p[1] = next, SameTransaction(p, config.txId), Before(config.txId, p)
  PROVE  p \in Delivered(next)
<1>1. p \in BlockPositions(next)
  BY BlockPosition
<1>2. p \in Triple
  BY PositionsAreTriples
<1>3. p[3] >= config.txId[3]
  BY <1>2 DEF Before, SameTransaction, Triple
<1> QED
  BY <1>1, <1>3 DEF Delivered, TransactionToContractState

(* A step in which a stream emits some positions of its next block. *)
EmitsMore(more) ==
  /\ phase = "streaming" /\ next <= Len(chain)
  /\ next' = next + 1
  /\ emitted' = emitted \o more
  /\ UNCHANGED <<chain, config, phase, offset, resumed, reconnects>>

LEMMA MoreKeepsTypes ==
  ASSUME StreamInv, NEW more \in Seq(Positions), EmitsMore(more), skipping' \in BOOLEAN
  PROVE  StreamTypes' /\ Waiting' /\ Beginning'
<1>1. ChainOK' /\ Positions' = Positions /\ States' = States
  BY ChainSame DEF EmitsMore, StreamInv, StreamTypes, ChainOK
<1>2. Len(chain) \in Nat
  BY ChainShape DEF StreamInv, StreamTypes
<1>3. emitted' \in Seq(Positions) /\ Len(emitted') = Len(emitted) + Len(more)
      /\ Len(emitted) \in Nat /\ Len(more) \in Nat
  BY Concatenated DEF EmitsMore, StreamInv, StreamTypes
<1>4. next' \in offset'..(Len(chain') + 1) /\ resumed' \in 0..Len(emitted')
  BY <1>2, <1>3 DEF EmitsMore, StreamInv, StreamTypes
<1>5. StreamTypes'
  BY <1>1, <1>3, <1>4 DEF EmitsMore, StreamInv, StreamTypes
<1>6. Waiting' /\ Beginning'
  BY <1>1 DEF EmitsMore, StreamInv, Waiting, Beginning
<1> QED
  BY <1>5, <1>6

LEMMA MoreKeepsStates ==
  ASSUME StreamInv, NEW more \in OldestFirst(Delivered(next)), EmitsMore(more), IsBlockStream
  PROVE  InOrder' /\ OnConnection' /\ OnAll'
<1> DEFINE D == Delivered(next)
<1>1. /\ D \in SUBSET Positions /\ IsFiniteSet(D) /\ next \in 1..Len(chain)
      /\ \A p \in Positions : p \in D <=> p \in States /\ p[1] = next
  BY DeliveredIs DEF EmitsMore, StreamInv
<1>a. more \in OldestFirst(D)
  OBVIOUS
<1> HIDE DEF D
<1>2. /\ more \in Seq(D) /\ Len(more) \in Nat
      /\ \A n \in 1..Len(more) : more[n] \in D
      /\ \A m, n \in 1..Len(more) : m < n => Before(more[m], more[n])
      /\ \A p \in D : \E n \in 1..Len(more) : more[n] = p
  BY <1>1, <1>a, OldestFirstIs
<1>3. more \in Seq(Positions) /\ emitted \in Seq(Positions)
  BY <1>1, <1>2, SeqMonotonic DEF StreamInv, StreamTypes
<1>4. /\ Len(emitted') = Len(emitted) + Len(more) /\ Len(emitted) \in Nat
      /\ \A n \in 1..Len(emitted) : emitted'[n] = emitted[n]
      /\ \A n \in 1..Len(more) : emitted'[Len(emitted) + n] = more[n]
      /\ \A n \in 1..Len(emitted') : n \in 1..Len(emitted) \/ n - Len(emitted) \in 1..Len(more)
  BY <1>3, Concatenated DEF EmitsMore
<1>5. /\ Positions' = Positions /\ States' = States /\ IsBlockStream'
      /\ next' = next + 1 /\ UNCHANGED <<chain, offset, resumed>>
  BY ChainSame DEF EmitsMore, IsBlockStream
<1>6. /\ resumed \in 0..Len(emitted) /\ offset \in Nat /\ next \in Nat /\ offset <= next
      /\ Len(chain) \in Nat /\ next <= Len(chain)
  BY ChainShape DEF StreamInv, StreamTypes, EmitsMore
<1>7. \A p \in Positions : p[1] \in Nat
  BY PositionsAreTriples DEF StreamInv, StreamTypes, Triple
<1>8. \A n \in 1..Len(emitted') : n > Len(emitted) =>
        /\ n - Len(emitted) \in 1..Len(more)
        /\ emitted'[n] = more[n - Len(emitted)]
  <2> SUFFICES ASSUME NEW n \in 1..Len(emitted'), n > Len(emitted)
               PROVE  /\ n - Len(emitted) \in 1..Len(more)
                      /\ emitted'[n] = more[n - Len(emitted)]
    OBVIOUS
  <2>1. n - Len(emitted) \in 1..Len(more)
    BY <1>4
  <2>2. n = Len(emitted) + (n - Len(emitted))
    BY <1>4
  <2> QED
    BY <1>4, <2>1, <2>2
<1>9. ASSUME NEW from \in 0..Len(emitted), NEW p \in Positions
      PROVE  (\E n \in (from + 1)..Len(emitted') : emitted'[n] = p)
               <=> (\E n \in (from + 1)..Len(emitted) : emitted[n] = p) \/ (p \in States /\ p[1] = next)
  <2>1. ASSUME NEW n \in (from + 1)..Len(emitted'), emitted'[n] = p
        PROVE  (\E k \in (from + 1)..Len(emitted) : emitted[k] = p) \/ (p \in States /\ p[1] = next)
    <3>1. n \in 1..Len(emitted') /\ n >= from + 1
      BY <1>2, <1>4
    <3>2. CASE n > Len(emitted)
      BY <1>1, <1>2, <1>8, <2>1, <3>1, <3>2
    <3>3. CASE n <= Len(emitted)
      <4>1. n \in (from + 1)..Len(emitted) /\ n \in 1..Len(emitted)
        BY <1>4, <3>1, <3>3
      <4> QED
        BY <1>4, <2>1, <4>1
    <3> QED
      BY <1>4, <3>1, <3>2, <3>3
  <2>2. ASSUME NEW n \in (from + 1)..Len(emitted), emitted[n] = p
        PROVE  \E k \in (from + 1)..Len(emitted') : emitted'[k] = p
    <3>1. n \in (from + 1)..Len(emitted') /\ n \in 1..Len(emitted)
      BY <1>2, <1>4
    <3> QED
      BY <1>4, <2>2, <3>1
  <2>3. ASSUME p \in States, p[1] = next
        PROVE  \E k \in (from + 1)..Len(emitted') : emitted'[k] = p
    <3>1. PICK n \in 1..Len(more) : more[n] = p
      BY <1>1, <1>2, <2>3
    <3>2. Len(emitted) + n \in (from + 1)..Len(emitted')
      BY <1>2, <1>4
    <3> QED
      BY <1>4, <3>1, <3>2
  <2> QED
    BY <2>1, <2>2, <2>3
<1>10. InOrder'
  <2> SUFFICES ASSUME NEW m \in (resumed + 1)..Len(emitted'), NEW n \in (resumed + 1)..Len(emitted'),
                      m < n
               PROVE  Before(emitted'[m], emitted'[n])
    BY <1>5 DEF InOrder, Before
  <2>1. m \in 1..Len(emitted') /\ n \in 1..Len(emitted') /\ m \in Nat /\ n \in Nat
    BY <1>2, <1>4, <1>6
  <2>2. CASE n <= Len(emitted)
    <3>1. m \in (resumed + 1)..Len(emitted) /\ n \in (resumed + 1)..Len(emitted)
          /\ m \in 1..Len(emitted) /\ n \in 1..Len(emitted)
      BY <1>4, <1>6, <2>2
    <3>2. Before(emitted[m], emitted[n])
      BY <3>1 DEF StreamInv, InOrder
    <3> QED
      BY <1>4, <3>1, <3>2
  <2>3. CASE m > Len(emitted)
    <3>1. n > Len(emitted) /\ m - Len(emitted) < n - Len(emitted)
      BY <1>4, <2>1, <2>3
    <3> QED
      BY <1>2, <1>8, <2>1, <2>3, <3>1
  <2>4. CASE m <= Len(emitted) /\ n > Len(emitted)
    <3>1. m \in (resumed + 1)..Len(emitted) /\ m \in 1..Len(emitted)
      BY <1>4, <1>6, <2>1, <2>4
    <3>2. emitted'[m] \in Positions /\ emitted'[m][1] < next
      <4>1. emitted[m] \in Positions
        BY <1>3, <3>1
      <4>2. emitted[m][1] < next
        BY <3>1, <4>1 DEF StreamInv, OnConnection
      <4> QED
        BY <1>4, <3>1, <4>1, <4>2
    <3>3. emitted'[n] \in Positions /\ emitted'[n][1] = next
      BY <1>1, <1>2, <1>8, <2>1, <2>4
    <3> QED
      BY <3>2, <3>3 DEF Before
  <2> QED
    BY <1>4, <2>1, <2>2, <2>3, <2>4
<1>11. OnConnection'
  <2>1. PICK from \in {offset, offset + 1} : \A p \in Positions :
          (\E n \in (resumed + 1)..Len(emitted) : emitted[n] = p)
            <=> p \in States /\ from <= p[1] /\ p[1] < next
    BY DEF StreamInv, OnConnection
  <2> DEFINE begin == IF next = offset THEN offset ELSE from
  <2>2. begin \in {offset, offset + 1} /\ begin \in Nat /\ begin <= next
    BY <1>6
  <2>3. \A p \in Positions :
          (from <= p[1] /\ p[1] < next) \/ p[1] = next <=> begin <= p[1] /\ p[1] < next + 1
    BY <1>6, <1>7
  <2> HIDE DEF begin
  <2>4. \A p \in Positions :
          (\E n \in (resumed + 1)..Len(emitted') : emitted'[n] = p)
            <=> p \in States /\ begin <= p[1] /\ p[1] < next + 1
    <3> TAKE p \in Positions
    <3>1. (\E n \in (resumed + 1)..Len(emitted') : emitted'[n] = p)
            <=> (\E n \in (resumed + 1)..Len(emitted) : emitted[n] = p) \/ (p \in States /\ p[1] = next)
      BY <1>6, <1>9
    <3> QED
      BY <2>1, <2>3, <3>1
  <2> QED
    BY <1>5, <2>2, <2>4 DEF OnConnection
<1>12. OnAll'
  <2>1. PICK from \in {offset, offset + 1}, to \in next..(Len(chain) + 1) :
          \A p \in Positions :
            (\E n \in 1..Len(emitted) : emitted[n] = p) <=> p \in States /\ from <= p[1] /\ p[1] < to
    BY DEF StreamInv, OnAll
  <2> DEFINE begin == IF next = offset THEN offset ELSE from
             end == IF to = next THEN next + 1 ELSE to
  <2>2. begin \in {offset, offset + 1} /\ end \in (next + 1)..(Len(chain) + 1)
    BY <1>6
  <2>3. \A p \in Positions :
          (from <= p[1] /\ p[1] < to) \/ p[1] = next <=> begin <= p[1] /\ p[1] < end
    BY <1>6, <1>7
  <2> HIDE DEF begin, end
  <2>4. \A p \in Positions :
          (\E n \in 1..Len(emitted') : emitted'[n] = p)
            <=> p \in States /\ begin <= p[1] /\ p[1] < end
    <3> TAKE p \in Positions
    <3>1. (\E n \in (0 + 1)..Len(emitted') : emitted'[n] = p)
            <=> (\E n \in (0 + 1)..Len(emitted) : emitted[n] = p) \/ (p \in States /\ p[1] = next)
      BY <1>4, <1>9
    <3> QED
      BY <2>1, <2>3, <3>1
  <2> QED
    BY <1>5, <2>2, <2>4 DEF OnAll
<1> QED
  BY <1>10, <1>11, <1>12

(* Streams that begin at a transaction: they emit in one step, if ever. *)
LEMMA OfTransaction ==
  ASSUME StreamInv, config.type = "txId", UNCHANGED config
  PROVE  InOrder' /\ OnConnection' /\ OnAll'
BY DEF InOrder, OnConnection, OnAll, IsBlockStream

LEMMA ReceiveEmitting ==
  ASSUME StreamInv, NEW states \in OldestFirst(Delivered(next)), ~skipping, UNCHANGED skipping,
         EmitsMore(states)
  PROVE  StreamInv'
<1>1. /\ Delivered(next) \in SUBSET Positions /\ IsFiniteSet(Delivered(next))
      /\ \A p \in Delivered(next) : p[1] = next
      /\ config.type = "txId" =>
           /\ \A p \in Delivered(next) : next = offset /\ ~Before(p, config.txId)
           /\ next = offset => config.txId \in Delivered(next)
  BY DeliveredIs DEF EmitsMore, StreamInv
<1>2. /\ states \in Seq(Delivered(next)) /\ Len(states) \in Nat
      /\ \A n \in 1..Len(states) : states[n] \in Delivered(next)
      /\ \A m, n \in 1..Len(states) : m < n => Before(states[m], states[n])
      /\ \A p \in Delivered(next) : \E n \in 1..Len(states) : states[n] = p
  <2>1. IsFiniteSet(Delivered(next))
    BY <1>1
  <2> QED
    BY <2>1, OldestFirstIs
<1>3. states \in Seq(Positions) /\ emitted \in Seq(Positions)
  BY <1>1, <1>2, SeqMonotonic DEF StreamInv, StreamTypes
<1>4. StreamTypes' /\ Waiting' /\ Beginning'
  <2>1. skipping' \in BOOLEAN
    BY DEF StreamInv, StreamTypes
  <2> QED
    BY <1>3, <2>1, MoreKeepsTypes
<1>5. offset \in Nat /\ next \in Nat /\ offset <= next
  BY ChainShape DEF StreamInv, StreamTypes
<1>6. Skipping'
  BY <1>5 DEF EmitsMore, StreamInv, Skipping
<1>7. InOrder' /\ OnConnection' /\ OnAll'
  <2>1. CASE IsBlockStream
    BY <2>1, MoreKeepsStates
  <2>2. CASE config.type = "txId"
    BY <2>2, OfTransaction DEF EmitsMore
  <2> QED
    BY <2>1, <2>2 DEF IsBlockStream
<1>8. /\ Beginnings' = Beginnings /\ (LeftOut' <=> LeftOut)
      /\ States' = States /\ (IsBlockStream' <=> IsBlockStream)
      /\ UNCHANGED <<reconnects, phase>> /\ phase = "streaming"
  BY BeginningsSame, ChainSame DEF EmitsMore, IsBlockStream
<1>9. emitted = <<>> => emitted' = states
  BY <1>3 DEF EmitsMore
<1>10. ASSUME emitted = <<>>, LeftOut => reconnects = 0
       PROVE  IsBlockStream => \A p \in Delivered(next) : p \in Beginnings
  <2> SUFFICES ASSUME IsBlockStream, NEW p \in Delivered(next)
               PROVE  p \in Beginnings
    OBVIOUS
  <2>1. p \in States /\ p[1] = next
    BY <1>1, DeliveredIs DEF EmitsMore, StreamInv
  <2>2. CASE config.type = "all"
    BY <2>1, <2>2 DEF Beginnings
  <2>3. CASE config.type = "latest"
    <3>1. PICK q \in States : q[1] = offset
      BY <2>3 DEF EmitsMore, StreamInv, Beginning
    <3>2. q \in Beginnings
      BY <2>3, <3>1 DEF Beginnings
    <3>3. next <= offset
      BY <1>8, <1>10, <3>1, <3>2 DEF StreamInv, NothingPassed
    <3> QED
      BY <1>5, <2>1, <2>3, <3>3 DEF Beginnings
  <2>4. CASE config.type = "blockOffset"
    <3>1. config.height = offset
      BY <2>4 DEF EmitsMore, StreamInv, Beginning
    <3>2. ~config.inclusive => next > offset
      BY <1>10, <2>4 DEF StreamInv, Skipping, LeftOut
    <3> QED
      BY <1>5, <2>1, <2>4, <3>1, <3>2 DEF Beginnings
  <2> QED
    BY <1>8, <2>2, <2>3, <2>4, IndexerAssumption DEF IsBlockStream, StreamInv, StreamTypes
<1>11. NothingPassed'
  <2> SUFFICES ASSUME IsBlockStream, emitted' = <<>>, LeftOut => reconnects = 0, NEW p \in Beginnings
               PROVE  next' <= p[1]
    BY <1>8 DEF NothingPassed
  <2>1. emitted = <<>>
    <3>1. Len(emitted') = Len(emitted) + Len(states)
      BY <1>3, Concatenated DEF EmitsMore
    <3> QED
      BY <1>2, <1>3, <3>1
  <2>2. Len(states) = 0
    BY <1>9, <2>1
  <2>3. p \in States /\ p \in Positions
    BY <1>8, IndexerAssumption DEF IsBlockStream, StreamInv, StreamTypes, Beginnings, States
  <2>4. next <= p[1] /\ p[1] \in Nat
    BY <1>8, <2>1, <2>3, PositionsAreTriples DEF StreamInv, StreamTypes, NothingPassed, Triple
  <2>5. p[1] # next
    <3>1. p \notin Delivered(next)
      BY <1>2, <2>2
    <3> QED
      BY <2>3, <3>1, DeliveredIs DEF EmitsMore, StreamInv
  <2> QED
    BY <1>5, <2>4, <2>5 DEF EmitsMore
<1>12. StartsWhereAsked'
  <2> SUFFICES ASSUME emitted' # <<>>, LeftOut => reconnects = 0
               PROVE  /\ emitted'[1] \in Beginnings
                      /\ \A p \in Beginnings : ~Before(p, emitted'[1])
    BY <1>8 DEF StartsWhereAsked, Before
  <2>1. CASE emitted # <<>>
    <3>1. emitted'[1] = emitted[1]
      BY <1>3, <2>1, Concatenated DEF EmitsMore
    <3> QED
      BY <2>1, <3>1 DEF StreamInv, StartsWhereAsked
  <2>2. CASE emitted = <<>>
    <3>1. emitted' = states /\ 1 \in 1..Len(states)
      BY <1>2, <1>9, <2>2
    <3>2. states[1] \in Delivered(next) /\ states[1] \in Positions
      BY <1>1, <1>2, <3>1
    <3>3. \A p \in Delivered(next) : ~Before(p, states[1])
      <4> TAKE p \in Delivered(next)
      <4>1. PICK n \in 1..Len(states) : states[n] = p
        BY <1>2
      <4>2. 1 < n => Before(states[1], p)
        BY <1>2, <3>1, <4>1
      <4>3. p \in Triple /\ states[1] \in Triple
        BY <1>1, <3>2, PositionsAreTriples DEF StreamInv, StreamTypes
      <4> QED
        BY <1>2, <4>1, <4>2, <4>3, OrderTotal
    <3>4. CASE IsBlockStream
      <4>1. states[1] \in Beginnings /\ states[1][1] = next
        BY <1>1, <1>10, <2>2, <3>2, <3>4
      <4>2. ASSUME NEW p \in Beginnings
            PROVE  ~Before(p, states[1])
        <5>1. p \in States /\ p \in Positions
          BY <1>8, <3>4, IndexerAssumption DEF IsBlockStream, StreamInv, StreamTypes, Beginnings, States
        <5>2. next <= p[1] /\ p[1] \in Nat
          BY <1>8, <2>2, <3>4, <5>1, PositionsAreTriples DEF StreamInv, StreamTypes, NothingPassed, Triple
        <5>3. p[1] = next => p \in Delivered(next)
          BY <3>4, <5>1, DeliveredIs DEF EmitsMore, StreamInv
        <5>4. p[1] # next => ~Before(p, states[1])
          BY <1>5, <4>1, <5>2 DEF Before
        <5> QED
          BY <3>3, <5>3, <5>4
      <4> QED
        BY <3>1, <4>1, <4>2
    <3>5. CASE config.type = "txId"
      <4>1. next = offset /\ config.txId \in Delivered(next)
        BY <1>1, <3>2, <3>5
      <4>2. config.inclusive
        BY <1>5, <3>5, <4>1 DEF StreamInv, Skipping, LeftOut
      <4>3. states[1] \in Triple /\ config.txId \in Triple
        BY <1>1, <3>2, <4>1, PositionsAreTriples DEF StreamInv, StreamTypes
      <4>4. states[1] = config.txId
        BY <1>1, <3>2, <3>3, <3>5, <4>1, <4>3, OrderTotal
      <4>5. config.txId \in Beginnings
        BY <1>1, <3>5, <4>1, <4>2 DEF Beginnings, SameTransaction
      <4>6. ASSUME NEW p \in Beginnings
            PROVE  ~Before(p, config.txId)
        <5>1. p \in Triple /\ (Before(config.txId, p) \/ p = config.txId)
          BY <3>5, PositionsAreTriples DEF Beginnings, StreamInv, StreamTypes
        <5> QED
          BY <4>3, <5>1 DEF Before, Triple
      <4> QED
        BY <3>1, <4>4, <4>5, <4>6
    <3> QED
      BY <3>4, <3>5 DEF IsBlockStream
  <2> QED
    BY <2>1, <2>2
<1> QED
  BY <1>4, <1>6, <1>7, <1>11, <1>12 DEF StreamInv

(* A stream of blocks that is not inclusive leaves out its first block. *)
LEMMA ReceiveLeavingOutBlock ==
  ASSUME StreamInv, skipping, skipping' = FALSE, config.type = "blockOffset", EmitsMore(<<>>)
  PROVE  StreamInv'
<1>1. emitted = <<>> /\ next = offset /\ resumed = 0 /\ Len(emitted) = 0
  BY DEF StreamInv, Skipping, StreamTypes
<1>2. emitted' = <<>> /\ next' = offset + 1 /\ skipping' \in BOOLEAN
      /\ UNCHANGED <<chain, config, offset, resumed>>
  <2>1. <<>> \o <<>> = <<>>
    OBVIOUS
  <2>2. emitted' = <<>>
    BY <1>1, <2>1, Zenon DEF EmitsMore
  <2> QED
    BY <1>1, <2>2 DEF EmitsMore
<1>3. StreamTypes' /\ Waiting' /\ Beginning'
  <2>1. <<>> \in Seq(Positions)
    OBVIOUS
  <2> QED
    BY <1>2, <2>1, MoreKeepsTypes
<1>4. offset \in Nat /\ Len(chain) \in Nat /\ offset <= Len(chain)
  BY <1>1, ChainShape DEF EmitsMore, StreamInv, StreamTypes
<1>5. Skipping'
  BY <1>2, <1>4 DEF Skipping
<1>6. StartsWhereAsked' /\ InOrder'
  BY <1>1, <1>2 DEF StartsWhereAsked, InOrder
<1>10. NothingPassed'
  <2> SUFFICES ASSUME NEW p \in Beginnings
               PROVE  next' <= p[1]
    BY <1>2, BeginningsSame DEF NothingPassed
  <2>1. ~config.inclusive /\ config.height = offset
    BY DEF EmitsMore, StreamInv, Skipping, Beginning
  <2>2. p[1] > config.height /\ p \in Positions
    BY <2>1 DEF Beginnings, States
  <2>3. p[1] \in Nat
    BY <2>2, PositionsAreTriples DEF StreamInv, StreamTypes, Triple
  <2> QED
    BY <1>2, <1>4, <2>1, <2>2, <2>3
<1>7. \A p \in Positions : p[1] \in Nat /\ ~(offset + 1 <= p[1] /\ p[1] < next')
  BY <1>2, <1>4, PositionsAreTriples DEF StreamInv, StreamTypes, Triple
<1>8. Positions' = Positions /\ next' \in next'..(Len(chain') + 1)
  BY <1>2, <1>4, ChainSame
<1>9. OnConnection' /\ OnAll'
  BY <1>1, <1>2, <1>7, <1>8 DEF OnConnection, OnAll
<1> QED
  BY <1>3, <1>5, <1>6, <1>9, <1>10 DEF StreamInv

(* A stream after a transaction leaves out the state of its identifier. *)
LEMMA ReceiveLeavingOutState ==
  ASSUME StreamInv, NEW states \in OldestFirst(Delivered(next)), skipping, config.type = "txId",
         skipping' = (states = <<>>), EmitsMore(SubSeq(states, 2, Len(states)))
  PROVE  StreamInv'
<1>1. /\ Delivered(next) \in SUBSET Positions /\ IsFiniteSet(Delivered(next))
      /\ \A p \in Delivered(next) : next = offset /\ ~Before(p, config.txId)
      /\ next = offset => config.txId \in Delivered(next)
  BY DeliveredIs DEF EmitsMore, StreamInv
<1>2. /\ states \in Seq(Delivered(next)) /\ Len(states) \in Nat
      /\ \A n \in 1..Len(states) : states[n] \in Delivered(next)
      /\ \A m, n \in 1..Len(states) : m < n => Before(states[m], states[n])
      /\ \A p \in Delivered(next) : \E n \in 1..Len(states) : states[n] = p
  BY <1>1, OldestFirstIs
<1>3. emitted = <<>> /\ next = offset /\ ~config.inclusive
  BY DEF StreamInv, Skipping
<1>4. states # <<>>
  BY <1>1, <1>2, <1>3
<1>5. states \in Seq(Positions)
  BY <1>1, <1>2, SeqMonotonic
<1> DEFINE rest == SubSeq(states, 2, Len(states))
<1>6. rest \in Seq(Positions) /\ Len(rest) = Len(states) - 1
      /\ \A n \in 1..(Len(states) - 1) : rest[n] = states[n + 1]
  BY <1>4, <1>5, TailOf
<1>7. EmitsMore(rest)
  OBVIOUS
<1> HIDE DEF rest
<1>8. ~skipping' /\ skipping' \in BOOLEAN
  BY <1>4
<1>9. StreamTypes' /\ Waiting' /\ Beginning'
  BY <1>6, <1>7, <1>8, MoreKeepsTypes
<1>10. Skipping'
  <2>1. next' > offset'
    BY <1>3, <1>7 DEF EmitsMore, StreamInv, StreamTypes, Beginning
  <2> QED
    BY <1>8, <2>1 DEF Skipping
<1>11. InOrder' /\ OnConnection' /\ OnAll'
  BY <1>7, OfTransaction DEF EmitsMore
<1>12. NothingPassed'
  BY <1>7 DEF EmitsMore, NothingPassed, IsBlockStream
<1>13. StartsWhereAsked'
  <2>1. emitted' = rest /\ Beginnings' = Beginnings
    BY <1>3, <1>6, <1>7, BeginningsSame DEF EmitsMore
  <2>2. /\ \A n \in 1..Len(states) : states[n] \in Triple
        /\ config.txId \in Triple
        /\ \A n \in 1..Len(states) : ~Before(states[n], config.txId)
    BY <1>1, <1>2, <1>3, PositionsAreTriples DEF StreamInv, StreamTypes
  <2>3. \A p \in Delivered(next) : SameTransaction(p, config.txId)
    BY DEF Delivered, TransactionToContractState
  <2>4. ASSUME NEW n \in 1..Len(states), NEW m \in 1..Len(states), m < n
        PROVE  Before(config.txId, states[n])
    <3>1. Before(states[m], states[n])
      BY <1>2, <2>4
    <3>2. config.txId = states[m] \/ Before(config.txId, states[m])
      BY <2>2, OrderTotal
    <3> QED
      BY <2>2, <3>1, <3>2, OrderTransitive
  <2>5. ASSUME rest # <<>>
        PROVE  /\ rest[1] \in Beginnings
               /\ \A p \in Beginnings : ~Before(p, rest[1])
    <3>1. 1 \in 1..(Len(states) - 1) /\ 1 \in 1..Len(states) /\ 1 + 1 \in 1..Len(states) /\ 1 < 1 + 1
      BY <1>2, <1>6, <2>5
    <3>2. rest[1] = states[1 + 1]
      BY <1>6, <3>1
    <3>3. states[1 + 1] \in Positions /\ SameTransaction(states[1 + 1], config.txId)
      BY <1>1, <1>2, <2>3, <3>1
    <3>4. states[1 + 1] \in Beginnings
      BY <2>4, <3>1, <3>3 DEF Beginnings
    <3>5. ASSUME NEW p \in Beginnings
          PROVE  ~Before(p, states[1 + 1])
      <4>1. p \in Positions /\ SameTransaction(p, config.txId) /\ Before(config.txId, p)
        BY <1>3 DEF Beginnings
      <4>2. p \in Triple /\ p[1] = next
        BY <1>3, <4>1, PositionsAreTriples DEF StreamInv, StreamTypes, SameTransaction, Beginning, EmitsMore
      <4>9. next \in 1..Len(chain)
        BY DeliveredIs DEF EmitsMore, StreamInv
      <4>3. p \in Delivered(next)
        BY <2>2, <4>1, <4>2, <4>9, DeliveredOfTransaction DEF StreamInv, StreamTypes
      <4>4. PICK n \in 1..Len(states) : states[n] = p
        BY <1>2, <4>3
      <4>5. PICK k \in 1..Len(states) : states[k] = config.txId
        BY <1>1, <1>2, <1>3
      <4>6. k = 1
        <5>1. ~Before(config.txId, states[k])
          BY <2>2, <4>5, OrderTotal
        <5>2. 1 < k => Before(config.txId, states[k])
          BY <2>4, <3>1
        <5> QED
          BY <1>2, <5>1, <5>2
      <4>7. n # 1
        BY <2>2, <4>1, <4>4, <4>5, <4>6 DEF Before, Triple
      <4>8. n = 1 + 1 \/ Before(states[1 + 1], states[n])
        BY <1>2, <3>1, <4>7
      <4> QED
        BY <2>2, <3>1, <4>4, <4>8 DEF Before, Triple
    <3> QED
      BY <3>2, <3>4, <3>5
  <2> QED
    BY <2>1, <2>5 DEF StartsWhereAsked, Before
<1> QED
  BY <1>9, <1>10, <1>11, <1>12, <1>13 DEF StreamInv

LEMMA ReceiveKeepsStream ==
  ASSUME StreamInv, Receive
  PROVE  StreamInv'
<1>1. PICK states \in OldestFirst(Delivered(next)) :
       \/ /\ ~skipping
          /\ emitted' = emitted \o states
          /\ UNCHANGED skipping
       \/ /\ skipping /\ config.type = "blockOffset"
          /\ skipping' = FALSE
          /\ UNCHANGED emitted
       \/ /\ skipping /\ config.type = "txId"
          /\ skipping' = (states = <<>>)
          /\ emitted' = emitted \o SubSeq(states, 2, Len(states))
  BY DEF Receive
<1>2. /\ phase = "streaming" /\ next <= Len(chain) /\ next' = next + 1
      /\ UNCHANGED <<chain, config, phase, offset, resumed, reconnects>>
  BY DEF Receive, connectionVars
<1>3. CASE ~skipping /\ emitted' = emitted \o states /\ UNCHANGED skipping
  BY <1>2, <1>3, ReceiveEmitting DEF EmitsMore
<1>4. CASE skipping /\ config.type = "blockOffset" /\ skipping' = FALSE /\ UNCHANGED emitted
  <2>1. emitted' = emitted \o <<>>
    BY <1>4 DEF StreamInv, Skipping
  <2> QED
    BY <1>2, <1>4, <2>1, ReceiveLeavingOutBlock DEF EmitsMore
<1>5. CASE /\ skipping /\ config.type = "txId"
           /\ skipping' = (states = <<>>)
           /\ emitted' = emitted \o SubSeq(states, 2, Len(states))
  BY <1>2, <1>5, ReceiveLeavingOutState DEF EmitsMore
<1> QED
  BY <1>1, <1>3, <1>4, <1>5

LEMMA StreamNext ==
  ASSUME StreamInv, [IndexerNext]_indexerVars
  PROVE  StreamInv'
<1>1. CASE AppendBlock
  BY <1>1, AppendKeepsStream
<1>2. CASE Poll
  BY <1>2, PollKeepsStream
<1>3. CASE Receive
  BY <1>3, ReceiveKeepsStream
<1>4. CASE Reconnect
  BY <1>4, ReconnectKeepsStream
<1>5. CASE FailStream
  BY <1>5, StandingStreamKept DEF FailStream, connectionVars
<1>6. CASE UNCHANGED <<chain, streamVars>>
  BY <1>6, StandingStreamKept DEF streamVars, connectionVars
<1>7. CASE WatchForDeployTxData \/ QueryDeployContractState \/ WatchForTxData
             \/ WatchForContractState
  BY <1>6, <1>7 DEF WatchForDeployTxData, QueryDeployContractState, WatchForTxData, WatchForContractState
<1>8. CASE \E height \in Heights \cup {None} :
             QueryContractState(height) \/ QueryZSwapAndContractState(height)
  BY <1>6, <1>8 DEF QueryContractState, QueryZSwapAndContractState
<1>9. CASE UNCHANGED indexerVars
  BY <1>6, <1>9 DEF indexerVars
<1> QED
  BY <1>1, <1>2, <1>3, <1>4, <1>5, <1>7, <1>8, <1>9 DEF IndexerNext

(* Whatever blocks are appended and connections lost, what a stream has
   emitted is that of successive blocks, from the first that has something for it. *)
THEOREM StreamFollowsChain == IndexerSpec => []StreamInv
<1>1. IndexerInit => StreamInv
  BY StreamInit
<1>2. StreamInv /\ [IndexerNext]_indexerVars => StreamInv'
  BY StreamNext
<1> QED
  BY <1>1, <1>2, PTL DEF IndexerSpec

(* For any configuration and chain, the first state a stream emits is the oldest
   of the states it may begin with: of the contract, of the block of its latest
   action, from the given block or after it, of the given transaction identifier
   or after it in its transaction. *)
THEOREM StreamStartsWhereAsked == IndexerSpec => []StartsWhereAsked
<1>1. StreamInv => StartsWhereAsked
  BY DEF StreamInv
<1> QED
  BY <1>1, StreamFollowsChain, PTL

(* For any chain, a stream of blocks leaves out no state between two that it
   emits. *)
THEOREM StreamHasNoGaps == IndexerSpec => []NoGaps
<1>1. ASSUME StreamInv
      PROVE  NoGaps
  <2> SUFFICES ASSUME IsBlockStream, NEW p \in EmittedStates, NEW q \in EmittedStates,
                      NEW r \in States, Before(p, r), Before(r, q)
               PROVE  r \in EmittedStates
    BY DEF NoGaps
  <2>1. PICK from \in {offset, offset + 1}, to \in next..(Len(chain) + 1) :
          \A s \in Positions :
            (\E n \in 1..Len(emitted) : emitted[n] = s) <=> s \in States /\ from <= s[1] /\ s[1] < to
    BY <1>1 DEF StreamInv, OnAll
  <2>2. \A s : s \in EmittedStates <=> \E n \in 1..Len(emitted) : emitted[n] = s
    BY DEF EmittedStates
  <2>3. \A n \in 1..Len(emitted) : emitted[n] \in Positions
    BY <1>1 DEF StreamInv, StreamTypes
  <2>4. /\ p \in Positions /\ from <= p[1] /\ q \in Positions /\ q[1] < to /\ r \in Positions
    BY <2>1, <2>2, <2>3 DEF States
  <2>5. p \in Triple /\ q \in Triple /\ r \in Triple
    BY <1>1, <2>4, PositionsAreTriples DEF StreamInv, StreamTypes
  <2>6. from \in Int /\ to \in Int
    BY <1>1, ChainShape DEF StreamInv, StreamTypes
  <2>7. from <= r[1] /\ r[1] < to
    BY <2>4, <2>5, <2>6, OrderOfHeights
  <2> QED
    BY <2>1, <2>2, <2>4, <2>7
<1> QED
  BY <1>1, StreamFollowsChain, PTL

(* For any chain, a connection of a stream of blocks emits the states of the
   contract one by one. *)
THEOREM StreamIsConsecutive == IndexerSpec => []ConsecutiveStates
<1>1. ASSUME StreamInv
      PROVE  ConsecutiveStates
  <2> SUFFICES ASSUME IsBlockStream, NEW n \in (resumed + 1)..(Len(emitted) - 1)
               PROVE  /\ {emitted[n], emitted[n + 1]} \subseteq States
                      /\ Before(emitted[n], emitted[n + 1])
                      /\ \A r \in States : ~(Before(emitted[n], r) /\ Before(r, emitted[n + 1]))
    BY DEF ConsecutiveStates
  <2> DEFINE R == (resumed + 1)..Len(emitted)
  <2>1. /\ n \in R /\ n + 1 \in R /\ n < n + 1 /\ R \subseteq 1..Len(emitted)
        /\ \A k \in R : k \in Int /\ ~(n < k /\ k < n + 1)
    BY <1>1 DEF StreamInv, StreamTypes
  <2>2. \A k, m \in R : k < m => Before(emitted[k], emitted[m])
    BY <1>1 DEF StreamInv, InOrder
  <2>3. PICK from \in {offset, offset + 1} : \A p \in Positions :
          (\E k \in R : emitted[k] = p) <=> p \in States /\ from <= p[1] /\ p[1] < next
    BY <1>1 DEF StreamInv, OnConnection
  <2> HIDE DEF R
  <2>4. \A k \in R : emitted[k] \in Positions
    BY <1>1, <2>1 DEF StreamInv, StreamTypes
  <2>5. \A k \in R : emitted[k] \in States /\ from <= emitted[k][1] /\ emitted[k][1] < next
    BY <2>3, <2>4
  <2>6. Before(emitted[n], emitted[n + 1])
    BY <2>1, <2>2
  <2>7. ASSUME NEW r \in States, Before(emitted[n], r), Before(r, emitted[n + 1])
        PROVE  FALSE
    <3>1. r \in Positions /\ from \in Int /\ next \in Int
      BY <1>1, ChainShape DEF States, StreamInv, StreamTypes
    <3>2. r \in Triple /\ \A k \in R : emitted[k] \in Triple
      BY <1>1, <2>4, <3>1, PositionsAreTriples DEF StreamInv, StreamTypes
    <3>3. from <= r[1] /\ r[1] < next
      <4>1. emitted[n] \in Triple /\ emitted[n + 1] \in Triple
        BY <2>1, <3>2, Zenon
      <4>2. from <= emitted[n][1] /\ emitted[n + 1][1] < next
        BY <2>1, <2>5, Zenon
      <4> QED
        BY <2>7, <3>1, <3>2, <4>1, <4>2, OrderOfHeights
    <3>4. PICK k \in R : emitted[k] = r
      BY <2>3, <2>7, <3>1, <3>3
    <3>5. ~(k < n) /\ k # n
      BY <2>1, <2>2, <2>7, <3>2, <3>4, OrderTotal
    <3>6. ~(n + 1 < k) /\ k # n + 1
      BY <2>1, <2>2, <2>7, <3>2, <3>4, OrderTotal
    <3> QED
      BY <2>1, <3>5, <3>6
  <2> QED
    BY <2>1, <2>5, <2>6, <2>7
<1> QED
  BY <1>1, StreamFollowsChain, PTL

-----------------------------------------------------------------------------
(* What holds of the queries *)

NotMaintained == \A p \in States : Kind(p) # "update"

DeployTxRight ==
  deployTx # None =>
    /\ deployTx \in States
    /\ NotMaintained => deployTx = Oldest(States)

TxDataRight == txData # None => txData \in Positions

DeployStateRight ==
  deployState # None =>
    /\ deployState.seen \subseteq States
    /\ deployState.state \in States \cup {Null}
    /\ deployState.seen # {} => deployState.state # Null
    /\ NotMaintained /\ deployState.state # Null => deployState.state = Oldest(States)

(* The answer for a block is given when there is that block. *)
QueriedRight ==
  queried # None =>
    /\ queried.seen \subseteq States
    /\ queried.state \in States \cup {Null}
    /\ queried.seen # {} /\ queried.height = None => queried.state # Null
    /\ queried.state # Null /\ queried.height = None =>
         \A p \in queried.seen : ~Before(queried.state, p)
    /\ queried.state # Null /\ queried.height # None =>
         /\ queried.height \in 1..Len(chain)
         /\ \A p \in States : p[1] <= queried.height => ~Before(queried.state, p)

QueryInv ==
  /\ ChainOK
  /\ Lawful
  /\ DeployTxRight
  /\ TxDataRight
  /\ DeployStateRight
  /\ QueriedRight

LEMMA QueryInit == IndexerInit => QueryInv
<1> SUFFICES ASSUME IndexerInit
             PROVE  QueryInv
  OBVIOUS
<1>1. ChainOK /\ Len(chain) = 0
  BY IndexerAssumption DEF ChainOK, IndexerInit
<1>2. \A p \in States : FALSE
  BY <1>1 DEF States, Positions
<1>3. Lawful
  BY <1>2 DEF Lawful
<1> QED
  BY <1>1, <1>3 DEF IndexerInit, QueryInv, DeployTxRight, TxDataRight, DeployStateRight, QueriedRight

(* The deployment of a contract that has begun stays its oldest action. *)
LEMMA AppendKeepsAnswers ==
  ASSUME QueryInv, AppendBlock
  PROVE  QueryInv'
<1>1. PICK block \in Blocks : chain' = Append(chain, block)
  BY DEF AppendBlock
<1>2. Lawful' /\ UNCHANGED <<deployTx, deployState, txData, queried>>
  BY DEF AppendBlock, queryVars
<1>3. /\ ChainOK' /\ Len(chain') = Len(chain) + 1
      /\ Positions \subseteq Positions' /\ Positions' \in SUBSET Triple
      /\ States \subseteq States' /\ States' \subseteq Positions'
      /\ \A p \in Positions : Kind(p)' = Kind(p) /\ OfContract(p)' = OfContract(p)
      /\ \A p \in States' : p \in States \/ p[1] = Len(chain) + 1
  BY <1>1, Appended DEF AppendBlock, QueryInv
<1>4. Len(chain) \in Nat /\ States \in SUBSET Triple /\ States' \in SUBSET Triple
      /\ States \in SUBSET Positions
  BY <1>3, ChainShape, PositionsAreTriples DEF QueryInv
<1>5. \A p \in Positions : p[1] \in 1..Len(chain)
  BY PositionShape DEF QueryInv
<1>6. NotMaintained' => NotMaintained
  BY <1>3, <1>4 DEF NotMaintained
<1>7. States # {} => Oldest(States)' = Oldest(States)
  <2> SUFFICES ASSUME States # {}
               PROVE  Oldest(States') = Oldest(States)
    BY DEF Oldest, Before
  <2> DEFINE o == Oldest(States)
  <2>1. o \in States /\ \A q \in States : ~Before(q, o)
    BY <1>4, OldestExists
  <2> HIDE DEF o
  <2>2. ASSUME NEW q \in States', q[1] = Len(chain) + 1
        PROVE  ~Before(q, o)
    <3>1. o[1] \in 1..Len(chain)
      BY <1>4, <1>5, <2>1
    <3> QED
      BY <1>4, <2>2, <3>1 DEF Before
  <2>3. \A q \in States' : ~Before(q, o)
    BY <1>3, <2>1, <2>2
  <2>4. o \in States'
    BY <1>3, <2>1
  <2>5. Oldest(States') = o
    BY <1>4, <2>3, <2>4, OldestIs
  <2> QED
    BY <2>5 DEF o
<1>8. DeployTxRight'
  <2> SUFFICES ASSUME deployTx # None
               PROVE  /\ deployTx \in States'
                      /\ NotMaintained' => deployTx = Oldest(States)'
    BY <1>2 DEF DeployTxRight
  <2>1. deployTx \in States /\ (NotMaintained => deployTx = Oldest(States))
    BY DEF QueryInv, DeployTxRight
  <2> QED
    BY <1>3, <1>6, <1>7, <2>1
<1>9. TxDataRight'
  BY <1>2, <1>3 DEF QueryInv, TxDataRight
<1>10. DeployStateRight'
  <2> SUFFICES ASSUME deployState # None
               PROVE  /\ deployState.seen \subseteq States'
                      /\ deployState.state \in States' \cup {Null}
                      /\ deployState.seen # {} => deployState.state # Null
                      /\ (NotMaintained' /\ deployState.state # Null)
                           => deployState.state = Oldest(States)'
    BY <1>2 DEF DeployStateRight
  <2>1. /\ deployState.seen \subseteq States
        /\ deployState.state \in States \cup {Null}
        /\ deployState.seen # {} => deployState.state # Null
        /\ (NotMaintained /\ deployState.state # Null) => deployState.state = Oldest(States)
    BY DEF QueryInv, DeployStateRight
  <2> QED
    BY <1>3, <1>6, <1>7, <2>1
<1>11. QueriedRight'
  <2> SUFFICES ASSUME queried # None
               PROVE  /\ queried.seen \subseteq States'
                      /\ queried.state \in States' \cup {Null}
                      /\ queried.seen # {} /\ queried.height = None => queried.state # Null
                      /\ queried.state # Null /\ queried.height = None =>
                           \A p \in queried.seen : ~Before(queried.state, p)
                      /\ queried.state # Null /\ queried.height # None =>
                           /\ queried.height \in 1..Len(chain')
                           /\ \A p \in States' : p[1] <= queried.height => ~Before(queried.state, p)
    BY <1>2 DEF QueriedRight, Before
  <2>1. /\ queried.seen \subseteq States
        /\ queried.state \in States \cup {Null}
        /\ queried.seen # {} /\ queried.height = None => queried.state # Null
        /\ queried.state # Null /\ queried.height = None =>
             \A p \in queried.seen : ~Before(queried.state, p)
        /\ queried.state # Null /\ queried.height # None =>
             /\ queried.height \in 1..Len(chain)
             /\ \A p \in States : p[1] <= queried.height => ~Before(queried.state, p)
    BY DEF QueryInv, QueriedRight
  <2>2. ASSUME queried.state # Null, queried.height # None
        PROVE  /\ queried.height \in 1..Len(chain')
               /\ \A p \in States' : p[1] <= queried.height => ~Before(queried.state, p)
    <3>1. queried.height \in 1..Len(chain)
      BY <2>1, <2>2
    <3>2. \A p \in States' : p[1] <= queried.height => p \in States
      BY <1>3, <1>4, <3>1
    <3>3. queried.height \in 1..Len(chain')
      BY <1>3, <1>4, <3>1
    <3> QED
      BY <2>1, <2>2, <3>2, <3>3
  <2> QED
    BY <1>3, <2>1, <2>2
<1> QED
  BY <1>2, <1>3, <1>8, <1>9, <1>10, <1>11 DEF QueryInv

(* As long as the chain is the same, what was answered remains right. *)
LEMMA SameChainSameAnswers ==
  ASSUME QueryInv, UNCHANGED chain
  PROVE  /\ ChainOK' /\ Lawful' /\ Positions' = Positions /\ States' = States
         /\ (NotMaintained' <=> NotMaintained)
         /\ UNCHANGED deployTx => DeployTxRight'
         /\ UNCHANGED txData => TxDataRight'
         /\ UNCHANGED deployState => DeployStateRight'
         /\ UNCHANGED queried => QueriedRight'
<1>1. /\ Positions' = Positions /\ States' = States
      /\ \A p : Kind(p)' = Kind(p)
  BY ChainSame
<1>2. ChainOK'
  BY DEF QueryInv, ChainOK
<1>3. Lawful'
  BY <1>1 DEF QueryInv, Lawful, Kind
<1>4. NotMaintained' <=> NotMaintained
  BY <1>1 DEF NotMaintained
<1>5. UNCHANGED deployTx => DeployTxRight'
  BY <1>1, <1>4 DEF QueryInv, DeployTxRight
<1>6. UNCHANGED txData => TxDataRight'
  BY <1>1 DEF QueryInv, TxDataRight
<1>7. UNCHANGED deployState => DeployStateRight'
  BY <1>1, <1>4 DEF QueryInv, DeployStateRight
<1>8. UNCHANGED queried => QueriedRight'
  BY <1>1 DEF QueryInv, QueriedRight
<1> QED
  BY <1>1, <1>2, <1>3, <1>4, <1>5, <1>6, <1>7, <1>8

LEMMA SeenIsKnown ==
  ASSUME QueryInv
  PROVE  Seen \subseteq States
BY DEF QueryInv, DeployTxRight, TxDataRight, Seen, States

LEMMA WatchForDeployTxDataIsRight ==
  ASSUME QueryInv, WatchForDeployTxData
  PROVE  QueryInv'
<1>1. UNCHANGED <<chain, deployState, txData, queried>>
  BY DEF WatchForDeployTxData
<1>2. States # {} /\ deployTx' = FirstInTransaction(DeployAction)
  BY DEF WatchForDeployTxData
<1>3. deployTx' \in States /\ (NotMaintained => deployTx' = Oldest(States))
  BY <1>2, DeploymentFound DEF QueryInv, NotMaintained
<1>4. DeployTxRight'
  <2>1. States' = States /\ (NotMaintained' <=> NotMaintained)
    BY <1>1, SameChainSameAnswers
  <2> QED
    BY <1>3, <2>1 DEF DeployTxRight
<1> QED
  BY <1>1, <1>4, SameChainSameAnswers DEF QueryInv

LEMMA QueryDeployContractStateIsRight ==
  ASSUME QueryInv, QueryDeployContractState
  PROVE  QueryInv'
<1>1. UNCHANGED <<chain, deployTx, txData, queried>>
  BY DEF QueryDeployContractState
<1> DEFINE state == IF States = {} THEN Null
                    ELSE IF Kind(Latest(States)) = "call" THEN FirstInTransaction(DeployAction)
                    ELSE DeployAction
<1>2. deployState' = [seen |-> Seen, state |-> state]
  BY DEF QueryDeployContractState
<1>3. CASE States = {}
  <2>1. state = Null
    BY <1>3
  <2>2. Seen = {}
    BY <1>3, SeenIsKnown
  <2> HIDE DEF state
  <2>3. deployState'.seen = {} /\ deployState'.state = Null
    BY <1>2, <2>1, <2>2
  <2>4. DeployStateRight'
    BY <2>3 DEF DeployStateRight
  <2> QED
    BY <1>1, <2>4, SameChainSameAnswers DEF QueryInv
<1>4. CASE States # {}
  <2>1. state \in States /\ (NotMaintained => state = Oldest(States))
    BY <1>4, DeploymentFound DEF QueryInv, NotMaintained
  <2>2. state # Null
    BY <2>1, PositionsAreTriples DEF QueryInv
  <2> HIDE DEF state
  <2>3. deployState'.seen = Seen /\ deployState'.state = state
    BY <1>2
  <2>4. States' = States /\ (NotMaintained' <=> NotMaintained)
    BY <1>1, SameChainSameAnswers
  <2>5. DeployStateRight'
    BY <2>1, <2>2, <2>3, <2>4, SeenIsKnown DEF DeployStateRight
  <2> QED
    BY <1>1, <2>5, SameChainSameAnswers DEF QueryInv
<1> QED
  BY <1>3, <1>4

LEMMA AnswerIsRight ==
  ASSUME QueryInv, NEW height \in Heights \cup {None}, Answer(height),
         UNCHANGED <<chain, deployTx, deployState, txData>>
  PROVE  QueryInv'
<1> DEFINE upTo == {p \in States : height = None \/ p[1] <= height}
           state == ContractAction(height)
<1>1. queried' = [height |-> height, seen |-> Seen, state |-> state]
  BY DEF Answer
<1>2. States' = States
  BY SameChainSameAnswers
<1>3. States \in SUBSET Positions /\ upTo \in SUBSET Positions /\ upTo \in SUBSET States
      /\ Null \notin States
  BY PositionsAreTriples DEF QueryInv
<1>4. state = IF upTo = {} \/ height \notin 1..Len(chain) \cup {None} THEN Null ELSE Latest(upTo)
  BY DEF ContractAction
<1>5. height = None => upTo = States
  OBVIOUS
<1>6. \A p \in States : p[1] <= height => p \in upTo
  OBVIOUS
<1> HIDE DEF upTo, state
<1>7. state # Null =>
        /\ height \in 1..Len(chain) \cup {None}
        /\ state \in upTo
        /\ \A p \in upTo : ~Before(state, p)
  BY <1>3, <1>4, LatestExists DEF QueryInv
<1>8. Seen # {} /\ height = None => state # Null
  <2> SUFFICES ASSUME Seen # {}, height = None
               PROVE  state # Null
    OBVIOUS
  <2>1. upTo # {}
    BY <1>5, SeenIsKnown
  <2>2. Latest(upTo) \in upTo
    BY <1>3, <2>1, LatestExists DEF QueryInv
  <2> QED
    BY <1>3, <1>4, <2>1, <2>2
<1>9. queried'.height = height /\ queried'.seen = Seen /\ queried'.state = state
  BY <1>1
<1>10. QueriedRight'
  <2>1. /\ Seen \subseteq States
        /\ state \in States \cup {Null}
    BY <1>3, <1>7, SeenIsKnown
  <2>2. state # Null /\ height = None => \A p \in Seen : ~Before(state, p)
    BY <1>5, <1>7, SeenIsKnown
  <2>3. state # Null /\ height # None =>
          /\ height \in 1..Len(chain)
          /\ \A p \in States : p[1] <= height => ~Before(state, p)
    BY <1>6, <1>7
  <2> QED
    BY <1>2, <1>8, <1>9, <2>1, <2>2, <2>3 DEF QueriedRight, Before
<1> QED
  BY <1>10, SameChainSameAnswers DEF QueryInv

LEMMA QueryNext ==
  ASSUME QueryInv, [IndexerNext]_indexerVars
  PROVE  QueryInv'
<1>1. CASE AppendBlock
  BY <1>1, AppendKeepsAnswers
<1>2. CASE UNCHANGED <<chain, deployTx, deployState, txData, queried>>
  BY <1>2, SameChainSameAnswers DEF QueryInv
<1>3. CASE Poll \/ Receive \/ Reconnect \/ FailStream
  BY <1>2, <1>3 DEF Poll, Receive, Reconnect, FailStream, queryVars
<1>4. CASE WatchForDeployTxData
  BY <1>4, WatchForDeployTxDataIsRight
<1>5. CASE QueryDeployContractState
  BY <1>5, QueryDeployContractStateIsRight
<1>6. CASE WatchForTxData
  <2>1. UNCHANGED <<chain, deployTx, deployState, queried>> /\ txData' \in Positions
    BY <1>6 DEF WatchForTxData
  <2>2. TxDataRight'
    BY <2>1, SameChainSameAnswers DEF TxDataRight
  <2> QED
    BY <2>1, <2>2, SameChainSameAnswers DEF QueryInv
<1>7. CASE WatchForContractState
  BY <1>7, AnswerIsRight DEF WatchForContractState
<1>8. CASE \E height \in Heights \cup {None} :
             QueryContractState(height) \/ QueryZSwapAndContractState(height)
  BY <1>8, AnswerIsRight DEF QueryContractState, QueryZSwapAndContractState
<1>9. CASE UNCHANGED indexerVars
  BY <1>2, <1>9 DEF indexerVars, queryVars
<1> QED
  BY <1>1, <1>3, <1>4, <1>5, <1>6, <1>7, <1>8, <1>9 DEF IndexerNext

LEMMA QueriesFollowChain == IndexerSpec => []QueryInv
<1>1. IndexerInit => QueryInv
  BY QueryInit
<1>2. QueryInv /\ [IndexerNext]_indexerVars => QueryInv'
  BY QueryNext
<1> QED
  BY <1>1, <1>2, PTL DEF IndexerSpec

(* For any contract, chain and block: the deployment is found behind whatever
   calls followed it, a state is not older than what the application knew when
   it asked, and the answer for a block stays the answer for it. *)
THEOREM QueriesAreAnswered == IndexerSpec => []QueriesAnswered
<1>1. ASSUME QueryInv
      PROVE  QueriesAnswered
  <2>1. ASSUME \A p \in States : Kind(p) # "update"
        PROVE  /\ deployTx # None => deployTx = Oldest(States)
               /\ deployState # None /\ deployState.state # Null
                    => deployState.state = Oldest(States)
    BY <1>1, <2>1 DEF QueryInv, DeployTxRight, DeployStateRight, NotMaintained
  <2>2. ASSUME NEW answer \in {deployState, queried} \ {None}, answer.seen # {},
               answer = queried => queried.height = None
        PROVE  answer.state # Null
    BY <1>1, <2>2 DEF QueryInv, DeployStateRight, QueriedRight
  <2>3. ASSUME queried # None, queried.state # Null
        PROVE  /\ queried.height = None => \A p \in queried.seen : ~Before(queried.state, p)
               /\ queried.height # None => \A p \in States :
                    p[1] <= queried.height => ~Before(queried.state, p)
    BY <1>1, <2>3 DEF QueryInv, QueriedRight
  <2> QED
    BY <2>1, <2>2, <2>3 DEF QueriesAnswered
<1> QED
  BY <1>1, QueriesFollowChain, PTL

(* What was emitted and answered has happened; the subscription never runs
   more than one block ahead of the chain. *)
THEOREM IndexerTypeCorrect == IndexerSpec => []IndexerTypeOK
<1>1. ASSUME StreamInv, QueryInv
      PROVE  IndexerTypeOK
  <2>1. Len(chain) \in Nat /\ Len(chain) <= MaxHeight /\ MaxHeight \in Nat
    BY <1>1, ChainShape, IndexerAssumption DEF QueryInv, ChainOK
  <2>2. offset \in 0..MaxHeight
    BY <1>1, <2>1 DEF StreamInv, StreamTypes
  <2>3. EmittedStates \subseteq Positions
    BY <1>1 DEF StreamInv, StreamTypes, EmittedStates
  <2>4. {deployTx, txData} \subseteq Positions \cup {None}
    BY <1>1 DEF QueryInv, DeployTxRight, TxDataRight, States
  <2>5. /\ deployState # None => deployState.state \in Positions \cup {Null}
        /\ queried # None => queried.state \in Positions \cup {Null}
    BY <1>1 DEF QueryInv, DeployStateRight, QueriedRight, States
  <2> QED
    BY <1>1, <2>2, <2>3, <2>4, <2>5 DEF StreamInv, StreamTypes, ChainOK, IndexerTypeOK
<1> QED
  BY <1>1, StreamFollowsChain, QueriesFollowChain, PTL

=============================================================================
