# TLA+ specification of midnight-js

This directory holds a formal model of midnight-js: TLA+ modules translated from the
TypeScript source, instances that TLC checks, and theorems that TLAPS proves. Paths below
are relative to `src/`.

midnight-js has little shared-memory concurrency and no protocol of its own. What makes
it hard is that each operation on a contract is a chain of `await`s over four
independent services (private state store, indexer, proof server, wallet and node), that
one application runs several such chains at once, and that each chain ends with a
write to a local store that must agree with a ledger the client does not control. No
operation catches, retries or compensates. A provider that rejects, a process that
dies or a second operation between two awaits therefore decides whether the client
keeps the signing key of its own contract and the private state its next call runs on.
Around it are tools of a different kind: processes that share folders and files without
locks (the compiler versions, the configured commands, the saved wallets of tests), and
functions that turn strings, keys and coins into something else.

## 1. Inventory

| component (`src/`) | state | operations | hard behaviours | what makes it correct |
|---|---|---|---|---|
| `packages/contracts`: maintenance (`submit-replace-authority-tx`, `submit-insert-vk-tx`, `submit-remove-vk-tx`, `utils/ledger-utils`) | none of its own; reads contract state and signing key, writes signing key | replace the authority, insert or remove a verifier key | update built from a snapshot; key written after the update is final; overlapping updates; crash in between | the key of the authority stays held; stale checks do no damage |
| transaction pipeline (`submit-tx`) | none | ZK configuration, prove, balance, submit, watch | a submission whose answer is lost; a transaction that fails in part | the operation learns the outcome; it acts only on success |
| calls (`submit-call-tx`, `unproven-call-tx`, `get-states`, `call`) | none; reads contract and private state, writes private state | call a circuit | two reads that are not one snapshot; overlapping calls; a write that is missed | private state holds what the ledger applied, whole and, for sequential callers, all of it |
| deployment and discovery (`deploy-contract`, `submit-deploy-tx`, `unproven-deploy-tx`, `find-deployed-contract`, `call-constructor`) | none; writes both stored entries | deploy, find | two writes in a row; read then write of the key; a wait without a limit; find overlapping with deploy | nothing stored for a contract that does not exist or does not match; no key overwritten; a resolved flow leaves a usable store |
| operations of one contract (`tx-interfaces`) | the providers that are shared | all of the above on one contract | any overlap of them | store and ledger agree |
| zswap offers (`utils/zswap-utils`) | none | coins of a call to inputs, outputs, transients | multiset bookkeeping, equal coins, two segments | value is conserved, no coin is used twice |
| indexer public data provider | polled queries and subscriptions | seven queries and watches, one stream with five ways to start | duplicates, gaps, late starts, errors in a poll | each stream is a suffix of the states, from where it was asked to start; answers are not older than what is known |
| level private state provider | one LevelDB database with two sub-levels | get, set, remove, clear for states and for keys | the database is opened and closed by each call; its lock; a call that fails halfway | a key-value store; calls that do not overlap do not disturb one another |
| http client proof provider | none | prove a transaction, with retries | one timeout over all retries | nothing is sent after the timeout; the request settles |
| fetch and node ZK config providers | artifacts that the compiler replaces | read three artifacts | a build between two reads | artifacts of one build |
| network id | one process-wide variable | set, get, convert | read at several awaits | a request and its answer are of one network; conversions are faithful |
| types, utils | none | hexadecimal parsing, assertions | falsy values, odd lengths | parsers accept exactly what they describe |
| logger provider | none | logging | none | none |
| compact | version folders on disk | download, unpack, remove, list and run versions | partial downloads, concurrent runs, killed processes, version order | a folder is complete or absent |
| compact-js, compact-js-node | a contract executable and its keys | initialise, call, maintain | a missing key file, a key that is sampled | the same updates as the pipeline; the key returned is the one installed |
| compact-js-command | a compiled configuration, output files | five commands | edits and other commands between check and use; interruptions | the configuration is up to date; outputs belong together |
| platform-js | none | hexadecimal strings, ranges, keys, networks, configuration | precedence of sources, negative bounds | the value that was configured |
| testkit-js | wallets, containers, saved wallet state | start, sync, save and restore wallets, transfer, shut down | waiting for a state that may never come; restore falling back to another wallet; concurrent saves | the wallet of the seed; a saved state is restored whole; a shutdown releases everything |
| testkit-js-e2e | none | example contracts and tests | none | no part of the system |

Interactions. `packages/contracts` calls `PrivateStateProvider`, `PublicDataProvider`,
`ZkConfigProvider`, `ProofProvider`, `WalletProvider` and `MidnightProvider`, all by
promise. The operations share no memory; they meet in the two entries of the private
state provider (the signing key of the address, the private state of the id) and on
the ledger. The ledger acts on its own after `submitTx`. The tools (`compact`,
`compact-js-command`, `testkit-js`) are processes that meet on disk only; the wallets of
testkit-js stand for the `WalletProvider` of an application.

## 2. Modules

| module | models | builds on |
|---|---|---|
| `Client` | a process running flows, the store, the ledger's view of one contract, `submitTx`, rejection, crash | |
| `KeyCustody` | abstract: the key on chain and the stored key change in turns | |
| `Maintenance` | the three maintenance operations | `Client`; implements `KeyCustody` |
| `CallTx` | `submitCallTx` | `Client` |
| `DeployFind` | `deployContract`, `findDeployedContract` | `Client` |
| `ContractLife` | abstract: the ledger goes first, the stored key and private state follow, or are lost | |
| `ContractTx` | all operations over one contract | `Maintenance`, `CallTx`, `DeployFind`; implements `ContractLife` |
| `KeyValueStore` | abstract: each operation takes effect at most once, in full, before it is answered | |
| `LevelStore` | the level private state provider: the lock of the database, opening and closing around each operation | implements `KeyValueStore` |
| `Indexer` | the indexer public data provider: contract state streams, deployment queries | |
| `ProofRequest` | a request up to its proof: the ZK config providers, the network id, the proof provider with its timeout and retries | |
| `WalletRestore` | the wallets of testkit-js: build, restore, synchronise, save | |
| `TestEnvironment` | local and remote environments: start, wallet providers, shutdown | `WalletRestore` |
| `Transfers` | a test that sends tokens and waits for its transaction | |
| `CompactTool` | processes that fetch, clean up and run versions of the compiler | |
| `Platform` | platform-js: hex, ranges, keys, networks, configuration (functions) | |
| `ContractExecutable` | compact-js and compact-js-node: what an operation of an executable yields (functions) | `Platform` |
| `Arguments` | the arguments of a command by the declared types (functions) | |
| `ContractCommand` | the commands of compact-js-command as processes | `ContractExecutable`, `Arguments` |
| `Zswap` | zswap offers, and the hexadecimal strings of packages/utils (functions) | `Platform` |
| `UnprovenTx` | from the outcome of a constructor or a circuit to an unproven transaction (functions) | `Zswap` |
| `NetworkIds` | network identifiers, and the requests that put them in front of an address (functions) | `Zswap` |
| `InMemoryStore` | the private state provider of testkit-js (functions) | |
| `PureLaws` | what the functions compute, compared with what they are to compute | all modules of functions |
| `OperationProofs` | theorems about maintenance and about calls | `Maintenance`, `CallTx` |
| `*Proofs` | theorems: `DeployFind`, `ContractTx`, `LevelStore`, `Indexer`, `TestEnvironment` | the module each is named after |
| `ToolsProofs` | theorems about the tools | `Transfers`, `CompactTool`, `ProofRequest`, `ContractCommand` |
| `PureLawsProofs` | theorems about the functions | `PureLaws` |
| `MC*` | instances for TLC; `MCTools` holds the parts that share no state, one at a time | |

### How the model corresponds to the code

A *flow* is one invocation of an exported operation. `pc[f]` names the provider call the
flow is awaiting, so that one action is the code between two awaits: the result of the
awaited call is read, the synchronous code runs, the next call is made. A read takes
effect when it is answered, a write when it is made; both are one atomic step of the
provider, which is what one process sees of it. The stages are:

| `pc` | awaited call |
|---|---|
| `watchDeploy`, `queryDeploy`, `queryContract` | the indexer queries of `findDeployedContract` |
| `verifierKeys`, `zkConfig` | `ZkConfigProvider` |
| `getKey`, `setKey`, `getPrivate`, `setPrivate` | `PrivateStateProvider` |
| `prove`, `balance`, `submit`, `watch` | the four awaits of `submitTx` |
| `done`, `failed`, `lost` | resolved, rejected, process died |

`After[f]` is the set of flows that the application awaits before it starts `f`: the
empty set gives any overlap, a total order gives an application that awaits every
call. `Reject(f)` lets any provider reject at any await (`MayReject`); a submission and a
write may also take effect and still be rejected. `Crash` (`MayCrash`) ends every active
flow; the ledger and the store survive, idle flows start later.

Data is reduced to what the properties tell apart. The public state is the set of calls
it reflects; a private state is the set of calls whose witnesses produced it; keys and
verifier keys are model values. The run of a circuit or of a constructor awaits nothing
and is part of the step that reads its last input.

`LevelStore` looks inside the provider that the flow modules take as one step. Each
operation awaits the opening of the database, of the sub-level, its work and two closings;
`pc` names the await. The database is open for one operation at a time
(`Exclusive`, the lock of LevelDB), a failure at any await still closes what was opened
(the two `finally` blocks), and an operation that finds the lock taken rejects. The flow
modules may treat the provider as atomic because `LevelStore` implements
`KeyValueStore`; what they add to it is that any call may reject.

`Indexer` identifies a contract action, the state it leaves and its identifier by its
position in the chain. What a query or a block yields is a set of positions, whose order is
that of the chain: `OldestFirst` puts them in the sequence in which a stream emits them,
`Latest` and `Oldest` are the ends of it. A stream polls until its beginning exists
(`Poll`), subscribes from a height (`Offset`) and emits what each block holds for it
(`Receive`).

A query (`QueryContractState`, `WatchForContractState` and the others) is one step; it
records what the application had learned of the contract before it asked (`seen`).

`ProofRequest` names in `rpc` what the request awaits. Time is counted in units of the
first delay, so that the delays are 1, 2 and 4; it passes only while something is awaited,
and `Aborted` is the state of the signal. `SetNetworkId` and `Rebuild` are other code of
the process and the compiler.

`TestEnvironment` has a slot `<<e, n, i>>` for wallet `i` of the `n`-th call of
`startMidnightWalletProviders` on environment `e`. `phase[e]` is what the environment
awaits, `pc[s]` what the wallet of a slot awaits; `Promise.all` is an action that waits
for all slots of the call, or for one that failed. A saved state is whose wallet it is and
how far it has followed which chain; `file` holds the states that are named after a seed,
`temp` the files they are first written to. Environments are processes that share these
two. `Failing` says whose calls may reject.

`CompactTool` has a process per command. The removal of a folder and the unpacking of an
archive go file by file, since others see what is there in between. `disturbed` is a
history variable: the versions a fetch was killed or failed at, or that two processes
worked on at once. It is set by what happens to the processes, never by the folder being
incomplete, and is reset by a fetch that has unpacked everything.

`ContractCommand` has a process per command as well. Files and modules carry the version
of the source they come from. `raced`, `misled` and `solo` are history variables: whether
the module was written from a source that was edited meanwhile, which commands looked at
such a module, and whether another command wrote output files. How the arguments of a command
are parsed is a function (`Arguments`), which `ContractCommand` takes as the constant
`ArgumentParser`: what it says of commands does not depend on it, and `MCTools` gives the
constant its value. The code descends into a type as deep as it goes; `Arguments` has one
operator for each level, and the three there are (`TransformParam`, `TransformInner`,
`TransformInnermost`) bound a type to an array of arrays of words. No module of the project
has a recursive operator. A text is a word from a list, chosen so that `Number`, `BigInt`,
`JSON5.parse`, the pattern for Booleans and the parser of hexadecimal strings each take
some and refuse others, or an array or an object of texts. What is in one of these goes
through `JSON5.parse` and `JSON5.stringify` (`IsJson`, `Stringify`): a bare word that is no
number, `true`, `false` or `null` is an error of the whole text, a hexadecimal numeral comes
back decimal, a string in single quotes unless it has an apostrophe. Commas at the end,
comments and the other numerals of JSON5 are left out.

`ContractLife` has no flows: its steps are what becomes visible when one of them gets on.
`Life` in `ContractTx` maps the authority, the stored key, the applied calls and the stored
private state to themselves; `due` is the set of applied calls whose flow is at or before
the write of its update (`Due`), and `lost` holds when the authority is a key that is
neither stored nor about to be.

The modules of functions keep the names of the functions. A string is a sequence of classes
of characters where the code looks at characters, and one value where it does not; a
result that may be an error is a record with `right` or `ok`. `Mutant:` marks definitions
that no specification uses: they are faulty variants the properties are tested with.

### What is assumed of code outside the repository

* The ledger accepts a maintenance update if and only if it is signed by the current
  authority and carries the current counter. `VkUpdatesCount` says whether verifier key
  updates advance the counter as well; the theorem about verifier keys depends on it. An
  insertion that is accepted puts its verifier key in place of the one there is, if there
  is one. `Maintenance` and `ContractExecutable` share these assumptions.
* A signing key that gives no verifying key (`Unverifiable`) cannot sign either.
* A call can succeed only if the contract has the circuit. Of a transaction that ends in
  `FailFallible` the ledger keeps the guaranteed part, so that the public state reflects it.
* The indexer answers a query with the state of some moment of the ledger. A late answer is
  the same behaviour as a query made earlier, because a flow that is not scheduled
  sees the ledger move on; no lag variable is needed.
* Signing keys are sampled: no two replacements install the same one (`DistinctKeys`, an
  assumption of the theorems that use it).
* The indexer lists the identifiers of a transaction in the order of its contract actions,
  as the code does when it pairs them. A subscription to the actions of a contract without
  an offset begins with the first, as
  `testkit-js/testkit-js-e2e/test/indexer-public-data-provider.observable2.it.test.ts:131`
  expects ("the entire history").
* `graphql-ws` restores a lost connection and repeats the subscription as it was.
* LevelDB locks its directory, and rejects who finds it locked.
* One contract and at most one deployment: addresses come from deployments, and entries of
  different addresses do not touch.
* `fetch-retry` retries every error of the network and the statuses 500 and 503, and asks the
  signal at each attempt.
* A wallet that was started follows the chain at its own pace; its states are sampled, so
  that one may go unseen. A transaction that was submitted becomes pending in the wallet
  before it is final or failed, or not at all.
* `syncProgress.lag.applyGap` of a wallet that is on its chain is what it has yet to apply, and
  of one that was restored and has not been started the whole chain. Only so does
  `isAnotherChain` do what its comment says, to allow for no new block between two runs
  (`wallet-factory.ts:156`); the lag of a wallet from a chain that is gone is any number.
* `JSON5.parse` and `JSON5.stringify` as described above; the coins of the inputs and outputs
  of a circuit are decoded by one function of the runtime, so that equal ones have their
  parts in one order and `zswap-utils.ts:47-53` gives them one text.
* `rmSync` and `unzip` work file by file; an `unzip` whose questions nobody answers leaves
  what is there. A file that is being written is seen in part until it is whole.

## 3. Runs

All instances are exhaustive. Deadlock is not checked: a system in which every flow has
ended, or in which a find waits for a contract nobody deploys, really stops.

| run | instance | shows |
|---|---|---|
| `maintenance` | five flows in two overlapping chains (remove, replace, insert; and insert, replace), rejections, crash, 1.7 M states | types; the authority key is held or its flow failed; refinement of `KeyCustody`; verifier keys are never overwritten |
| `maintenance_crash` | one replacement, crash | **violated**: a finalized key is eventually stored |
| `calls` | three calls, any overlap, rejections, crash, 124 k states | the stored private state is made of applied calls, each with all it built on |
| `deploy_find` | a deployment and three finds in any overlap, or three finds of a foreign contract with every combination of verifier keys and stored entries; the third is rejected for its options after it has stored its key; 133 k states | nothing is stored before the contract exists or if it does not match; a resolved flow leaves a usable store; flows settle |
| `find_race` | a deployment and a find that waits for it | **violated**: a find without a key keeps the stored key |
| `contract` | deploy, then two sequential calls, a replacement and a find that overlap, rejections, crash, 420 k states | no update lost, snapshots agree, store and ledger in sync; refinement of `ContractLife`, by which a lost key stays lost; the key catches up |
| `level_store` | four overlapping operations on two sub-levels and a fifth that is awaited alone, I/O failures, crash, 169 k states | refinement of `KeyValueStore`; the lock is given back, and only overlapping operations meet it |
| `indexer` | a stream of any kind, with errors and one lost connection, or all queries in any order; every chain of three blocks from eight shapes with two transactions or two actions, 86 k states | order and completeness of a stream; its first state is the oldest it may begin with; it catches up; a query answers with nothing older than what was known |
| `indexer_tx` | a stream from a transaction | **violated**: all state updates after the beginning are included |
| `testkit` | two environments of three wallets in four settings: two remote ones with one seed; a remote one with two seeds; a local one that saves and may crash; a remote one with two random wallets; failing calls, a chain that was reset, files left whole or in part, 177 k states | the wallet is of the seed unless a state was saved; restored states are whole; saves hang only if disturbed; a shutdown releases everything; calls settle |
| `wallet_seed` | the same | **violated**: a wallet that is built from a seed is the wallet of the seed |
| `tools` | one of: two transfers; two processes over two versions of two files; two commands and one edit; a request with a timeout of three units; the functions on every string of up to five characters, every sequence of up to three operations and all the combinations of `MCTools`; 708 k states | a transfer that resolves is final; an installed compiler is whole; commands run no outdated configuration and their outputs belong together; a proof is of one build and in time; every function keeps its law, which compares it with a plainer definition, its inverse or the functions it is used with |

Three replacements would add nothing that two do not have: each replacement reads one key
and one counter, the ledger lets at most one of those that read the same counter through,
and the write of one can only race with the write of the next. The same holds for three
calls (one that reads, one that writes in between, one that reads the result). The proofs
of section 5 remove the bound for both.
Three blocks are one before the beginning of a stream, the one it begins in and one after;
two actions in a transaction and two transactions in a block are the least for which
skipping a block, a transaction and a state differ. A second lost connection would
repeat the first, as the subscription always begins at the same height.
Two environments are enough for `testkit`, as they meet in the two files of a name only, and
a third wallet would repeat the second. The chain has two blocks, the least for which
`gap < offset - 1` can hold, as it does once a wallet that had followed both is restored after
a reset. `waitForFullSync` and `syncWallet` look at one
wallet. In `tools`, two processes or commands are the writer and the one it disturbs; two
files are the one that is looked at and one that is missing; a timeout of three units is
over by the end of the second delay, so that attempts begin before and after it.

### The violations

* `maintenance_crash`: `submit-replace-authority-tx.ts:26-29` says that after finalization
  the stored key is overwritten with the new one. The write is a step of its own; a crash
  before it leaves a contract whose authority key is stored nowhere. The TODO at lines
  59-60 raises this case.
* `find_race`: `find-deployed-contract.ts:152-153` says that an existing key is kept. The
  code reads, samples and writes in separate steps; a deployment that stores its key in
  between loses it.
* `indexer_tx`: `packages/types/src/public-data-provider.ts:71-73` says that all state
  updates after the beginning are included. A stream that begins at a transaction looks for
  its identifier in every transaction of the subscription, so that it ends, without
  completing, with the transaction it began in.
* `wallet_seed`: `testkit-js/testkit-js/src/wallet/wallet-factory.ts:138` says that a wallet is
  built from a seed, and restored if it was saved. If the chain is taken for another one than
  that of the saved state (lines 167-174), the restored wallet is replaced by
  `WalletFactory.build(env)`, whose seed is random (line 77). In the run the chain was reset
  after the state was saved, so that the guess is right and the replacement is not. The caller gets a wallet of
  another seed, and the restored one is never closed.

Met while modelling, and visible in the statements of the properties rather than in a run:

* once a contract was maintained, `watchForDeployTxData` and `queryDeployContractState` may
  answer with the update instead of the deployment (`QueriesAnswered` is about other
  contracts);
* after a lost connection a stream repeats states, and one that is not inclusive emits what it
  had left out (`ConsecutiveStates` and `StartsWhereAsked` are per connection); a stream
  from the latest state begins with the first state of the block of the latest; and
  `contractAddress` is not used by a stream from a transaction;
* `packages/types/src/public-data-provider.ts:78-80` says that an inclusive stream first emits
  "the state of the contract after the last block or transaction specified". A stream from
  a block emits the first state inside that block (not the last, if there are two), and if the
  contract has no action in it nothing before a later block, where the state after the
  given one would be an older state. `StartsWhereAsked` says what the code does
  (`Beginnings`); no run checks the sentence;
* `addOrReplaceContractOperation` is documented as "Adds or replaces a verifier key"
  (`compact-js/compact-js/src/effect/ContractExecutable.ts:131`) and makes an insertion in either
  case. That it replaces (`UpdateLaw`) rests on the ledger, as assumed above;
* an array, a tuple or an object of arguments does not read a bare word as the argument on its
  own is read (`ArgumentLaw`): `w` is a string alone and an error in `[w]`, `truex` the value
  false alone and an error in `[truex]`;
* a deployment passes the encryption key of the wallet as it is, a call converts it to
  hexadecimal digits; a private state that is falsy can be deployed but not called on
  (`DeployThenCallLaw`);
* equal coins, of one type, nonce and value, collapse in the maps of an offer (`OfferLaw` is
  about distinct ones);
* the regular expression of a range is not anchored, so that a sign before it is dropped
  (`RangeLaw` reads back the ranges without signs);
* the node client of testkit-js rejects an empty answer, where
  `testkit-js/testkit-js/src/client/node-client.ts:104` has "null if not found", and ignores the
  block hash, where lines 115 and 125 have "at a given block" (`NodeLaw`);
* an address may have 34 bytes for `packages/utils` and 32 for `platform-js`;
* a shutdown of a remote environment saves wallets under their coin public key, and nothing
  restores from there.

## 4. Fairness

`WF` on the steps a started flow takes and on the finalization of its transaction: an
awaited promise settles, because each provider answers or times out, and a submitted
transaction is finalized as succeeded or failed. Nothing makes the application start a
flow, nothing makes the process crash, and `watchForDeployTxData` is only obliged to
answer if there is a deployment: `WF` of `WatchForDeployTxData` is vacuous before.
Rejection is not fair either: it is one more way in which a step can end.

`LevelStore` has `WF` on the steps of a started operation: a promise of LevelDB settles.
`Indexer` has `WF` on `Poll` (polling is periodic) and on `Receive` (a subscription delivers
the blocks there are). Blocks need not be appended, connections need not be lost.
`TestEnvironment` has `WF`, for each environment, on its own steps and those of its wallets
together: awaited calls settle one after the other. What the application asks for, the chain,
the payments to a wallet and the end of a process are not fair, so that `CallsSettle` names
the two waits that may have no end. The parts of `tools` have safety properties only, and no
fairness: `ProvedAsAsked` bounds the time of a request instead of promising its end.

## 5. Proofs

`OperationProofs` proves of maintenance, for any set of flows, order, keys, circuits, with rejections
and crashes:

* `MaintTypeCorrect`;
* `AuthorityKeyIsHeld` and `MaintenanceImplementsCustody`, assuming `DistinctKeys`. The
  invariants alone are not inductive. Three facts make them so: a flow's stage determines
  what became of its transaction; a new key is known to nobody until its flow stores it, so
  that no update signed with it can overtake the write; and among the replacements that
  are applied but not stored, the last one installed the current authority.
  It follows that there is at most one of them, that it is the signer's successor, and
  that the late write of another flow cannot exist.
* `VerifierKeyIsNotOverwritten`, assuming `VkUpdatesCount`: an insertion that can still be
  accepted has read a counter no update has advanced, so the circuit it saw undefined
  still is.

and of calls, for any set of them:

* `CallTypeCorrect`, `PrivateStateIsFinalized` and `PrivateStateIsWhole`, whatever overlaps.
  For the last one, what a call has read is whole as well, because it was stored, and what it
  writes is what it read and itself;
* `UpdatesAreKept` and `SnapshotsDoAgree` for applications that await each call. The
  inductive invariant says that what is stored is reflected by the public state of the call
  that has read it and not yet the private state, and that a running call has read the
  updates of all resolved calls and only what its public state reflects; both rest on the
  fact that two started calls cannot both be running.

`LevelStoreProofs` proves for any set of operations, sub-levels and values, and any overlap:

* `LevelTypeCorrect`;
* `OnlyOverlapMeetsLock`: the invariant behind it is that an open database has an
  operation that is between its opening and its closing, and two started operations that
  do not overlap are not both between them;
* `LevelStoreIsKeyValueStore`: the refinement, step by step; the abstract operation is
  answered by the work on the sub-level, which is its effect, or by a failure to open,
  which has none.

`DeployFindProofs` proves for any deployments and finds, rejections and crashes:

* `JoinTypeCorrect`, `StoresDoFollowLedger`, `ResolvedIsUsed` and
  `ForeignContractIsUntouched`, from one invariant: a flow keeps to the stages of its kind
  (`JoinProgress`), a transaction without an outcome was not submitted (`NotSubmitted`), a
  flow that can store has seen the contract on the ledger (`SeenDeployed`) and, if it is a
  find, its verifier keys, which agreed (`ReadVerified`), and what a flow has stored so far
  is still stored (`KeptSoFar`), as no flow ever removes an entry.

`ContractTxProofs` proves for any flows of all operations over one contract, with rejections
and crashes:

* `LostKeysStayLost`, assuming `KeysManaged`: the keys that deployments and replacements
  install and finds store are sampled, none is given by the caller, and a find is called
  after the deployment has resolved, as an application does that learns the address
  from it (`find_race` shows what happens otherwise). The inductive invariant `KeysInv` says
  that a key is in the hands of its flow alone until that flow has stored it (`KeyHidden`),
  that the authority is the key of an owner whose transaction was applied
  (`AuthorityOwned`), and that it is stored, about to be stored by that owner, or lost
  (`AuthorityKept`). When it is lost, no update can be signed with it, so that nothing
  that comes later, a find or a transaction that is applied late, changes it;
* `StoreInSync`, assuming moreover `StateManaged`: the application awaits each call and
  its finds do not bring an initial private state. `StatesInv` puts the invariant of
  `OperationProofs` beside the deployment that stores the initial state before any call can
  read one;
* from the same two invariants `AuthorityKeyStaysKept`, `UpdatesKeptBesideOthers` and
  `SnapshotsAgreeBesideOthers`: what holds of maintenance and of calls alone holds of them
  beside deployments, finds and each other;
* `VerifierKeysKeptBesideOthers`, assuming `VkUpdatesCount`: the same of verifier keys. Here
  the contract comes from a deployment (`DeployedOnce`), before which no insertion has read
  anything, and an insertion that is still current has seen the verifier keys there are
  (`InsertionCurrent`, `UpdateProgress`);
* `ContractImplementsLife`, assuming `KeysManaged` and `StateManaged`: each step of the flows
  is a step of `ContractLife` or a stutter. To the two invariants it adds `LifeInv`: nothing
  is stored before the deployment is applied (`NothingBefore`), and what a running
  call has read is stored still, without its own update (`ReadCurrent`), so that its write adds
  its own update and takes none away.

`IndexerProofs` proves for any contract, blocks, configuration, and any number of lost
connections:

* `StreamFollowsChain`: the inductive invariant `StreamInv`. What a stream of blocks has
  emitted on its connection is exactly the states of the blocks from the subscription's
  first, or the one after it, to the last that was delivered (`OnConnection`), in their
  order (`InOrder`); and what it has emitted on all connections is again the states of an
  interval of blocks (`OnAll`), which may reach further than the present connection does.
  `Skipping` says until when something is still to be left out, which decides between the
  first block and the one after it;
* from it `StreamIsConsecutive`, `StreamHasNoGaps`, `StreamStartsWhereAsked`, and with
  the invariant of the queries `IndexerTypeCorrect`;
* `QueriesAreAnswered`: an appended block comes after all positions there are, so that the
  oldest action stays the oldest one, and the latest up to a block stays the latest up to it.

They rest on lemmas about positions: their order is total, every set of them on a chain
has an oldest and a latest one, a block has finitely many, and `OldestFirst` lists a
finite set without repetition.

`ToolsProofs` proves about the tools:

* `RequestProvedAsAsked` for every timeout and every number of builds. What was read is
  what is there while nothing is written (`ReadOneBuild`); the clock starts with the
  signal, a delay is over when its attempt begins, and the delays before an attempt add up
  to `Before` (`OneSignal`, `DelaysAddUp`);
* `InstalledIsWhole` for any processes, versions and files: what `unzip` has unpacked is in
  the folder still or the version was disturbed (`Unpacked`), so that a fetch that comes to
  its end leaves a whole folder or a disturbed one;
* `ResolvedTransferIsFinal` for any finite set of transfers: while a quiet transfer waits no
  other one is under way (`OthersAtRest`), so that the history of the wallet can only have
  grown by its own transaction;
* `CommandRunsCurrent` and `CommandFilesAgree` for any commands, edits, arguments and
  outcomes of the contract (`CommandInv`): a module that is not `raced` is at least as new
  as any source a command has seen before it was written, and the files of a command that is
  alone are its own from the first to the one it is at.

`TestEnvironmentProofs` proves for any environments, settings, seeds and wallets:

* `EnvironmentTypeCorrect`;
* `SeedIsKept` and `RestoredIsWhole`: a wallet that is being restored has found a file, and
  what is on disk stays there, whole or not, whoever saves (`FileFound`, `FilesStay`); what
  it has read is whole (`WholeRead`). The wallet of another seed comes from a restored one
  only. `HasWallet` says which stages need a wallet, for the types;
* `ShutdownDoesRelease`: an environment that stops its containers has closed all wallets it
  keeps (`ClosedBeforeStop`), and a closed wallet does nothing more;
* `HangsAreShared`: a save hangs when the temporary file it compresses is gone, and only a
  wallet that is saved under the same name removes it. Under one name, seed or coin public
  key, are only wallets of one seed (`OwnSeed`, `OwnWallet`), so that another slot was asked
  for that seed (`SourceThere`);
* `HangsComeFromOthers`, assuming `SeedsDiffer`, that no environment is asked twice for a
  wallet of one seed: that slot is then of another environment.

`PureLawsProofs` proves `PureFunctionsKeepTheirLaws`: every input of `PureLaws` keeps the law
`LawsHold` gives for it, which is true of the code also where the documentation says something else (section 3), for strings, offers and addresses of any length, under
`PureLawsAssumption`, which says what the constants contain (sequences of characters, coins
with numbers in them, bounds of a range from -9 to 9). It puts together a theorem for each
function, most of which need less:

* `HexIsDigits` and `AssertedIsHex`, for strings of any length: the digits that are taken are
  the largest number there is of a bounded set;
* `FirstKeyCounts` and `NamedIsNotMainNet`, about the configuration of platform-js;
* `RangeHoldsWhatItSays`, where `NotationRead` says what the regular expression finds in the
  notation of a range whose bounds have one digit, and a sign or none;
* `WordsAreReadAlike`, about `Arguments`, for each of the three levels of nesting: what
  `JSON5` does to a word (`SyntaxErrors`, `BareAlike`, `QuotedAlike`) and what containers do to
  what is in them (`ContainersAlike`);
* `OfferBalances`. `ZswapStateToOffer` folds `SpendInput` over the inputs of a circuit. A
  fold is an application of a recursive function that the library defines as a choice, so
  the lemmas `FoldExists` and `FoldSteps` first give it its steps; then the state after k
  inputs has a closed form, and the end of it is the law. Induction over k is by the set of
  the numbers for which the form holds (`AllNumbers`), which no prover has to instantiate;
* `MemoryKeepsLast`, for any number of operations: a fold like the one of an offer, of which
  what was done last to a key is the closed form;
* `DeployedCanBeCalled`, also for coins that are alike, where the fold only keeps what is for
  the wallet (`FoldKeeps`). The keys it needs come from parsing: hex is read as itself;
* `UpdatesMaintain` and `DeploymentsMaintainable`, about `ContractExecutable` and the ledger that
  is assumed: an update is signed by one key and carries one counter, and the ledger takes no
  other (`OtherUpdateRefused`); what it takes does its change and nothing else
  (`VerifierKeyUpdated`, `AuthorityUpdated`);
* `NetworksAreToldApart` and `NodeAnswersForItsNetwork`, about `NetworkIds`: network and
  address can be read off what is asked for, as each network has a prefix of its own and
  all are of one length (`AskedForApart`).

Every safety and action property of the passing runs is stated by a theorem. Model-checked
only are liveness (`KeyCatchesUp`, `JoinsSettle`, `DatabaseReleased`, `StreamCatchesUp`,
`CurrentStateComes`, `CallsSettle`), which is out of the reach of the prover, and the
violations.

## 6. Not modelled

Circuits, proofs, cryptography and serialisation are data. Types, error classes and
messages, the logger provider, the generated GraphQL code, the vendored package manager and
the examples and configuration of testkit-js-e2e have no behaviour of their own. Of
testkit-js, the containers are a set of names, and the faucet, the clients of the indexer
and the proof server, the configuration from environment variables and the assertions of
the tests are left out. Of compact-js-command, help texts and the layout of reports are.

Some hazards of PROJECT.json have no property, each with a note that says why. Most are
things the code lets happen, which a model can show but no true property forbid: a rejected
submission whose transaction is applied (`submit-tx.ts:70`), the two reads of a call while
another one writes (`get-states.ts:81`), a deployment that loses its key because storing the
private state rejects (`submit-deploy-tx.ts:71`), a rejected find that has written a key
(`find-deployed-contract.ts:96`), falsy values (`assertion-utils.ts:25`) and signs of ranges
(`IntegerRange.ts:212`). The models have all of these, and the properties name them as
reasons of what is missing or leave them out by their antecedents. Polling in the indexer
provider ends with the first error (`indexer-public-data-provider.ts:460`): in the model an
error ends a stream (`FailStream`) and a watch (`Reject`), and no property can promise more.
What a shutdown saves is never restored (`remote-test-environment.ts:73`): this holds by
construction, as nothing in the model reads a file with the name of a coin public key.

## 7. Plan

What is left, in this order:

1. Larger instances of `testkit`: a second call for wallets on one environment.
2. Types of arguments that nest deeper than `Arguments` has levels, and bounds of a range of
   more than one digit.
