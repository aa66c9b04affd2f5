------------------------------ MODULE Indexer -------------------------------
(***************************************************************************)
(* indexerPublicDataProvider: what an application learns of a contract     *)
(* from an indexer that follows a growing chain of blocks.  A stream of    *)
(* contract states polls until its beginning has appeared, subscribes from *)
(* there and turns each block it receives into contract states.            *)
(*                                                                         *)
(* A contract action is identified by its position <<h, t, i>>: action i   *)
(* of transaction t of the block at height h.  Its position also stands    *)
(* for the state it produced and, as the code pairs the identifiers of a   *)
(* transaction with its contract actions, for its transaction identifier.  *)
(* What a query or a block yields is a set of positions, and its order is  *)
(* theirs: that of the chain.                                              *)
(*                                                                         *)
(* A lost connection is restored by graphql-ws, which sends the            *)
(* subscription again as it was: blocks arrive once more from its offset.  *)
(***************************************************************************)
EXTENDS Naturals, Sequences, FiniteSets

CONSTANTS
  Contract,   \* the address the application asks for
  Other,      \* the address of some other contract
  Blocks,     \* the blocks that may be appended: sequences of transactions
  MaxHeight,  \* bound on the length of the chain
  Configs,    \* the configurations a stream may be given
  Heights,    \* the blocks a query may name
  None,       \* not answered yet
  Null,       \* the answer when there is no such contract
  MayReject,  \* whether the indexer may answer with an error
  MaxReconnects \* bound on the connections lost

ActionKinds == {"deploy", "call", "update"}

Actions == [address : {Contract, Other}, kind : ActionKinds]

ASSUME IndexerAssumption ==
  /\ Contract # Other
  /\ Blocks \subseteq Seq(Seq(Actions))
  /\ {MaxHeight, MaxReconnects} \subseteq Nat
  /\ Heights \subseteq Nat
  /\ MayReject \in BOOLEAN
  /\ None # Null
  /\ None \notin Nat \cup (Nat \X Nat \X Nat) /\ Null \notin Nat \X Nat \X Nat
  /\ \A c \in Configs : /\ c.type \in {"none", "all", "latest", "blockOffset", "txId"}
                        /\ c.inclusive \in BOOLEAN
                        /\ c.height \in Nat \ {0}
                        /\ c.txId \in Nat \X Nat \X Nat

VARIABLES
  chain,        \* the blocks the indexer has; their heights count from 1
  config,       \* the configuration of the stream; none: there is no stream
  phase,        \* the stream waits for its beginning, streams, or has failed
  offset,       \* the height the subscription begins at
  next,         \* the height of the next block the subscription delivers
  skipping,     \* a stream that is not inclusive has yet to leave out its first
  emitted,      \* what the stream has emitted
  resumed,      \* how much of it before the connection was last restored
  reconnects,   \* how often it was
  deployTx,     \* what watchForDeployTxData has resolved with
  deployState,  \* what queryDeployContractState has resolved with
  txData,       \* what watchForTxData has resolved with
  queried       \* the last answer to a query for the state of the contract

connectionVars == <<resumed, reconnects>>
streamVars == <<config, phase, offset, next, skipping, emitted, connectionVars>>
queryVars == <<deployTx, deployState, txData, queried>>
indexerVars == <<chain, streamVars, queryVars>>

-----------------------------------------------------------------------------
(* The chain *)

TransactionPositions(h, t) == {<<h, t, i>> : i \in 1..Len(chain[h][t])}

BlockPositions(h) == UNION {TransactionPositions(h, t) : t \in 1..Len(chain[h])}

Positions == UNION {BlockPositions(h) : h \in 1..Len(chain)}

ActionAt(p) == chain[p[1]][p[2]][p[3]]

OfContract(p) == ActionAt(p).address = Contract

(* The states of the contract. *)
States == {p \in Positions : OfContract(p)}

Before(p, q) ==
  \/ p[1] < q[1]
  \/ p[1] = q[1] /\ p[2] < q[2]
  \/ p[1] = q[1] /\ p[2] = q[2] /\ p[3] < q[3]

Oldest(S) == CHOOSE p \in S : \A q \in S : ~Before(q, p)

Latest(S) == CHOOSE p \in S : \A q \in S : ~Before(p, q)

(* The sequence, there is one, in which the positions of a set succeed each
   other on the chain. *)
OldestFirst(S) ==
  {seq \in [1..Cardinality(S) -> S] :
     /\ \A m, n \in 1..Cardinality(S) : m < n => Before(seq[m], seq[n])
     /\ \A p \in S : \E n \in 1..Cardinality(S) : seq[n] = p}

(* A contract begins with its deployment, and only begins once. *)
Lawful ==
  \A p \in States : ActionAt(p).kind = "deploy" <=> \A q \in States : ~Before(q, p)

AppendBlock ==
  /\ Len(chain) < MaxHeight
  /\ \E block \in Blocks : chain' = Append(chain, block)
  /\ Lawful'
  /\ UNCHANGED <<streamVars, queryVars>>

-----------------------------------------------------------------------------
(* contractStateObservable *)

IndexerInit ==
  /\ chain = <<>>
  /\ config \in Configs
  /\ phase = IF config.type = "none" THEN "none" ELSE "waiting"
  /\ offset = 0
  /\ next = 0
  /\ skipping = (config.type \in {"blockOffset", "txId"} /\ ~config.inclusive)
  /\ emitted = <<>>
  /\ resumed = 0
  /\ reconnects = 0
  /\ deployTx = None /\ deployState = None /\ txData = None /\ queried = None

(* Whether a poll finds the beginning of the stream. *)
Begun ==
  CASE config.type \in {"all", "latest"} -> States # {}
    [] config.type = "blockOffset" -> config.height <= Len(chain)
    [] config.type = "txId" -> config.txId \in Positions

(* Mutant: the subscription begins after the block that was found. *)
OffsetAfter ==
  CASE config.type = "all" -> 1
    [] config.type = "latest" -> Latest(States)[1] + 1
    [] config.type = "blockOffset" -> config.height
    [] config.type = "txId" -> config.txId[1]

(* The height from which to subscribe. *)
Offset ==
  CASE config.type = "all" -> 1
    [] config.type = "latest" -> Latest(States)[1]
    [] config.type = "blockOffset" -> config.height
    [] config.type = "txId" -> config.txId[1]

Poll ==
  /\ phase = "waiting"
  /\ Begun
  /\ phase' = "streaming"
  /\ offset' = Offset
  /\ next' = Offset
  /\ UNCHANGED <<chain, config, skipping, emitted, connectionVars, queryVars>>

(* Mutant: the states of all contracts in the block. *)
BlockToStates(h) == BlockPositions(h)

(* Mutant: only the first transaction of the block is looked at. *)
FirstTransactionToContractState(h) ==
  {p \in BlockPositions(h) : p[2] = 1 /\ OfContract(p)}

BlockToContractState(h) == {p \in BlockPositions(h) : OfContract(p)}

SameTransaction(p, q) == p[1] = q[1] /\ p[2] = q[2]

(* Mutant: the states of the transaction from its beginning. *)
WholeTransaction(h) == {p \in BlockPositions(h) : SameTransaction(p, config.txId)}

(* In each transaction, what precedes the given identifier is skipped: all of
   it when the transaction does not contain the identifier. *)
TransactionToContractState(h) ==
  {p \in BlockPositions(h) : SameTransaction(p, config.txId) /\ p[3] >= config.txId[3]}

Delivered(h) ==
  IF config.type = "txId" THEN TransactionToContractState(h)
                          ELSE BlockToContractState(h)

(* Mutant: the stream completes with the first block. *)
ReceiveOnce ==
  /\ phase = "streaming"
  /\ next <= Len(chain)
  /\ \E states \in OldestFirst(Delivered(next)) : emitted' = emitted \o states
  /\ next' = next + 1
  /\ phase' = "complete"
  /\ UNCHANGED <<chain, config, offset, skipping, connectionVars, queryVars>>

(* A block arrives.  Not inclusive, the stream leaves out the first block, or
   the first state after a transaction identifier. *)
Receive ==
  /\ phase = "streaming"
  /\ next <= Len(chain)
  /\ next' = next + 1
  /\ \E states \in OldestFirst(Delivered(next)) :
       \/ /\ ~skipping
          /\ emitted' = emitted \o states
          /\ UNCHANGED skipping
       \/ /\ skipping /\ config.type = "blockOffset"
          /\ skipping' = FALSE
          /\ UNCHANGED emitted
       \/ /\ skipping /\ config.type = "txId"
          /\ skipping' = (states = <<>>)
          /\ emitted' = emitted \o SubSeq(states, 2, Len(states))
  /\ UNCHANGED <<chain, config, phase, offset, connectionVars, queryVars>>

Reconnect ==
  /\ phase = "streaming"
  /\ reconnects < MaxReconnects
  /\ next' = offset
  /\ resumed' = Len(emitted)
  /\ reconnects' = reconnects + 1
  /\ UNCHANGED <<chain, config, phase, offset, skipping, emitted, queryVars>>

(* An error in an answer or an event ends the stream. *)
FailStream ==
  /\ MayReject
  /\ phase \in {"waiting", "streaming"}
  /\ phase' = "failed"
  /\ UNCHANGED <<chain, config, offset, next, skipping, emitted, connectionVars, queryVars>>

-----------------------------------------------------------------------------
(* Queries *)

Kind(p) == ActionAt(p).kind

(* Mutant: a call is not traced back to the deployment. *)
LatestAction == Latest(States)

(* The queries look at the latest action of the contract, and from a call at
   the deployment it names. *)
DeployAction ==
  IF Kind(Latest(States)) = "call" THEN Oldest(States) ELSE Latest(States)

(* The first action of the contract in the transaction of p. *)
FirstInTransaction(p) ==
  Oldest({q \in TransactionPositions(p[1], p[2]) : OfContract(q)})

(* What the application knows of the contract when it asks. *)
Seen == {p \in {deployTx, txData} \ {None} : OfContract(p)}

WatchForDeployTxData ==
  /\ deployTx = None
  /\ States # {}
  /\ deployTx' = FirstInTransaction(DeployAction)
  /\ UNCHANGED <<chain, streamVars, deployState, txData, queried>>

QueryDeployContractState ==
  /\ deployState = None
  /\ deployState' =
       [seen |-> Seen,
        state |-> IF States = {} THEN Null
                  ELSE IF Kind(Latest(States)) = "call" THEN FirstInTransaction(DeployAction)
                  ELSE DeployAction]
  /\ UNCHANGED <<chain, streamVars, deployTx, txData, queried>>

(* The transaction of an identifier, whichever contract it is of. *)
WatchForTxData ==
  /\ txData = None
  /\ txData' \in Positions
  /\ UNCHANGED <<chain, streamVars, deployTx, deployState, queried>>

(* The latest action of the contract up to a block, or of all blocks; a block
   that does not exist has none. *)
ContractAction(height) ==
  LET upTo == {p \in States : height = None \/ p[1] <= height}
  IN IF upTo = {} \/ height \notin 1..Len(chain) \cup {None} THEN Null ELSE Latest(upTo)

Answer(height) ==
  queried' = [height |-> height, seen |-> Seen, state |-> ContractAction(height)]

QueryContractState(height) ==
  /\ Answer(height)
  /\ UNCHANGED <<chain, streamVars, deployTx, deployState, txData>>

(* The zswap state is that of the same action. *)
QueryZSwapAndContractState(height) ==
  /\ Answer(height)
  /\ UNCHANGED <<chain, streamVars, deployTx, deployState, txData>>

(* Polls until there is an action of the contract. *)
WatchForContractState ==
  /\ States # {}
  /\ Answer(None)
  /\ UNCHANGED <<chain, streamVars, deployTx, deployState, txData>>

-----------------------------------------------------------------------------
IndexerNext ==
  \/ AppendBlock
  \/ Poll
  \/ Receive
  \/ Reconnect
  \/ FailStream
  \/ WatchForDeployTxData
  \/ QueryDeployContractState
  \/ WatchForTxData
  \/ \E height \in Heights \cup {None} :
       QueryContractState(height) \/ QueryZSwapAndContractState(height)
  \/ WatchForContractState

(* Polls are repeated every second, and a subscription delivers what there is.
   Nothing obliges the chain to grow. *)
IndexerSpec ==
  /\ IndexerInit
  /\ [][IndexerNext]_indexerVars
  /\ WF_indexerVars(Poll)
  /\ WF_indexerVars(Receive)

-----------------------------------------------------------------------------
(* Properties *)

IsBlockStream == config.type # "txId"

EmittedStates == {emitted[n] : n \in 1..Len(emitted)}

(* The variables have their types; what was emitted and answered has happened,
   and the subscription never runs more than one block ahead of the chain. *)
IndexerTypeOK ==
  /\ chain \in Seq(Blocks) /\ Len(chain) <= MaxHeight
  /\ config \in Configs
  /\ phase \in {"none", "waiting", "streaming", "failed"}
  /\ offset \in 0..MaxHeight
  /\ next \in offset..(Len(chain) + 1)
  /\ skipping \in BOOLEAN
  /\ EmittedStates \subseteq Positions
  /\ resumed \in 0..Len(emitted)
  /\ reconnects \in 0..MaxReconnects
  /\ {deployTx, txData} \subseteq Positions \cup {None}
  /\ deployState # None => deployState.state \in Positions \cup {Null}
  /\ queried # None => queried.state \in Positions \cup {Null}

(* On one connection, a stream of blocks emits the states of the contract one
   by one as they succeeded each other: none is repeated, none is left out
   between two, and none is of another contract. *)
ConsecutiveStates ==
  IsBlockStream =>
    \A n \in (resumed + 1)..(Len(emitted) - 1) :
      /\ {emitted[n], emitted[n + 1]} \subseteq States
      /\ Before(emitted[n], emitted[n + 1])
      /\ \A r \in States : ~(Before(emitted[n], r) /\ Before(r, emitted[n + 1]))

(* Whatever connections are lost, a stream of blocks has no gaps: a state
   between two emitted ones is emitted too. *)
NoGaps ==
  (IsBlockStream /\ emitted # <<>>) =>
    \A p, q \in EmittedStates : \A r \in States :
      Before(p, r) /\ Before(r, q) => r \in EmittedStates

(* The states among which the first emitted one is the oldest: all states of the
   contract; those of the block that had its latest action when the stream was
   begun; those from the given block on, or after it; the action that the given
   transaction identifier is paired with, or those that follow it in its
   transaction.  The documentation of the configuration has an inclusive stream
   begin with the state after the given block instead: with what is here the
   last state of that block, or the one from before it if it has none. *)
Beginnings ==
  CASE config.type = "all" -> States
    [] config.type = "latest" -> {p \in States : p[1] = offset}
    [] config.type = "blockOffset" ->
         {p \in States : p[1] > config.height \/ (config.inclusive /\ p[1] = config.height)}
    [] config.type = "txId" ->
         {p \in Positions : /\ SameTransaction(p, config.txId)
                            /\ Before(config.txId, p) \/ (config.inclusive /\ p = config.txId)}

(* What was left out, if the stream is not inclusive, comes again after a lost
   connection. *)
LeftOut == config.type \in {"blockOffset", "txId"} /\ ~config.inclusive

(* The first state a stream emits is the oldest of its beginnings: nothing
   before where it was asked to start is emitted, and nothing after it is
   passed over, whatever errors and polls came before.  A stream that leaves
   something out does so on its first connection only. *)
StartsWhereAsked ==
  (emitted # <<>> /\ (LeftOut => reconnects = 0)) =>
    /\ emitted[1] \in Beginnings
    /\ \A p \in Beginnings : ~Before(p, emitted[1])

(* A contract that has not been maintained has one deployment, and the queries
   for it answer with it whatever calls came in between.  A query for a state
   answers with nothing older than what the application has learned before it
   asked, so that there is a state once a deployment was awaited; and what it
   answers for a block remains the answer for that block. *)
QueriesAnswered ==
  /\ (\A p \in States : Kind(p) # "update") =>
       /\ deployTx # None => deployTx = Oldest(States)
       /\ deployState # None /\ deployState.state # Null => deployState.state = Oldest(States)
  /\ \A answer \in {deployState, queried} \ {None} :
       answer.seen # {} /\ (answer = queried => queried.height = None) => answer.state # Null
  /\ queried # None /\ queried.state # Null =>
       /\ queried.height = None => \A p \in queried.seen : ~Before(queried.state, p)
       /\ queried.height # None => \A p \in States :
            p[1] <= queried.height => ~Before(queried.state, p)

(* A stream of blocks that has begun catches up with the contract again and
   again, over whatever reconnections, unless an error ends it; as it has no
   gaps, every state after its first is delivered. *)
StreamCatchesUp ==
  (IsBlockStream /\ emitted # <<>>)
    ~> ((States # {} /\ Latest(States) \in EmittedStates) \/ phase = "failed")

(* A stream that begins with what there is emits it without waiting for the
   contract to be used again. *)
CurrentStateComes ==
  ( \/ config.type \in {"all", "latest"} /\ States # {}
    \/ config.type = "txId" /\ config.inclusive /\ config.txId \in Positions )
    ~> (emitted # <<>> \/ phase = "failed")

(* What the documentation of ContractStateObservableConfig says: all state
   updates after the beginning are always included.  The stream that begins
   after a transaction matches its identifier in each later transaction too. *)
UpdatesAfterTransaction ==
  (config.type = "txId" /\ phase = "streaming") =>
    \A p \in States :
      p[1] < next /\ Before(config.txId, p) => p \in EmittedStates

=============================================================================
