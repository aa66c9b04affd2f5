------------------------------ MODULE Transfers ------------------------------
(***************************************************************************)
(* wallet-utils of testkit-js: a test sends native tokens from a wallet    *)
(* and waits for the transaction.  The waits look at the state of the      *)
(* whole wallet, never at the transaction: what they conclude depends on   *)
(* what else the wallet is doing.  The wallet is external; a transaction   *)
(* that was submitted becomes pending in it, or not, and is final or       *)
(* failed in the end.                                                      *)
(***************************************************************************)
EXTENDS Integers, FiniteSets

CONSTANTS
  Transfer,        \* the transfers from the wallet
  InitialFunds,    \* balance of the wallet before
  OutputValue,     \* what each transfer sends
  Fee              \* what each transfer costs besides

ASSUME TransferAssumption ==
  /\ IsFiniteSet(Transfer)
  /\ InitialFunds \in Nat /\ OutputValue \in Nat /\ Fee \in Nat \ {0}

VARIABLES
  tpc,      \* what each transfer is awaiting
  tx,       \* what became of its transaction
  initial,  \* the state of the wallet before the transfer
  quiet,    \* no other transfer has been under way since it began
  synced    \* syncProgress.synced of the wallet

transferVars == <<tpc, tx, initial, quiet, synced>>

Awaits == {"initialState", "transfer", "prove", "submit", "pending",
           "finalized", "history"}

TransferInit ==
  /\ tpc = [t \in Transfer |-> "none"]
  /\ tx = [t \in Transfer |-> "none"]
  /\ initial = [t \in Transfer |-> [balance |-> InitialFunds, history |-> 0]]
  /\ quiet = [t \in Transfer |-> TRUE]
  /\ synced = TRUE

Where(what) == {t \in Transfer : tx[t] = what}

(* wallet.state(): the native balance and the length of the history when
   nothing is pending.  Failed transactions are in neither. *)
WalletState ==
  [balance |-> InitialFunds - (OutputValue + Fee) * Cardinality(Where("final")),
   history |-> Cardinality(Where("final"))]

UnderWay(t) == tpc[t] \in Awaits \/ tx[t] \in {"submitted", "pending"}

Proceed(t, from, to) ==
  /\ tpc[t] = from
  /\ tpc' = [tpc EXCEPT ![t] = to]

-----------------------------------------------------------------------------
(* The wallet and the chain *)

Pend(t) ==
  /\ tx[t] = "submitted"
  /\ tx' = [tx EXCEPT ![t] = "pending"]
  /\ UNCHANGED <<tpc, initial, quiet, synced>>

Decide(t) ==
  /\ tx[t] \in {"submitted", "pending"}
  /\ \E outcome \in {"final", "failed"} : tx' = [tx EXCEPT ![t] = outcome]
  /\ UNCHANGED <<tpc, initial, quiet, synced>>

Sync ==
  /\ synced' = ~synced
  /\ UNCHANGED <<tpc, tx, initial, quiet>>

-----------------------------------------------------------------------------
(* sendTransactionToAddress *)

(* sendTransactionToWallet reads the address of the destination first, which
   changes nothing. *)
SendTransaction(t) ==
  /\ Proceed(t, "none", "initialState")
  /\ quiet' = [u \in Transfer |->
       IF u = t THEN \A other \in Transfer \ {t} : ~UnderWay(other)
                ELSE quiet[u] /\ ~UnderWay(u)]
  /\ UNCHANGED <<tx, initial, synced>>

GetInitialState(t) ==
  /\ Proceed(t, "initialState", "transfer")
  /\ initial' = [initial EXCEPT ![t] = WalletState]
  /\ UNCHANGED <<tx, quiet, synced>>

(* processTransaction: each of the three calls of the wallet may reject, and
   then nothing of the rest happens.  A submission that rejects may have
   reached the node. *)
ProcessTransaction(t) ==
  /\ \/ Proceed(t, "transfer", "prove") /\ UNCHANGED tx
     \/ Proceed(t, "prove", "submit") /\ UNCHANGED tx
     \/ /\ Proceed(t, "submit", "pending") \/ Proceed(t, "submit", "history")
        /\ tx' = [tx EXCEPT ![t] = "submitted"]
     \/ /\ \E await \in {"transfer", "prove", "submit"} : Proceed(t, await, "failed")
        /\ \/ UNCHANGED tx
           \/ tpc[t] = "submit" /\ tx' = [tx EXCEPT ![t] = "submitted"]
  /\ UNCHANGED <<initial, quiet, synced>>

(* The stream of states is throttled: a state in which coins are pending may
   come and go unseen, and then the wait goes on. *)
WaitForPending(t) ==
  /\ Proceed(t, "pending", "finalized")
  /\ Where("pending") # {}
  /\ UNCHANGED <<tx, initial, quiet, synced>>

(* Mutant: the balance is not looked at. *)
ValidatePendingOnly(t) == Where("pending") = {}

(* validateFinalState *)
ValidateFinalState(t) ==
  /\ WalletState.balance < initial[t].balance - OutputValue
  /\ WalletState.history >= initial[t].history + 1

(* The first state without pending coins is the one that is validated. *)
WaitForFinalizedBalance(t) ==
  /\ Where("pending") = {}
  /\ Proceed(t, "finalized", IF ValidateFinalState(t) THEN "done" ELSE "failed")
  /\ UNCHANGED <<tx, initial, quiet, synced>>

(* A test may wait for the identifier instead: waitForTxInHistory asks states
   that waitForFullSync lets through, which are those not synchronised, again
   and again. *)
WaitForTxInHistory(t) ==
  /\ ~synced
  /\ tx[t] = "final"
  /\ Proceed(t, "history", "done")
  /\ UNCHANGED <<tx, initial, quiet, synced>>

TransferNext ==
  \/ Sync
  \/ \E t \in Transfer :
       \/ Pend(t) \/ Decide(t)
       \/ SendTransaction(t) \/ GetInitialState(t) \/ ProcessTransaction(t)
       \/ WaitForPending(t) \/ WaitForFinalizedBalance(t) \/ WaitForTxInHistory(t)

TransferSpec == TransferInit /\ [][TransferNext]_transferVars

-----------------------------------------------------------------------------

(* A transfer that resolves has its transaction on the chain, if no other one
   was under way on the wallet in the meantime: the pending coins, the balance
   and the history that were compared are of its own transaction. *)
ResolvedIsFinal ==
  \A t \in Transfer : tpc[t] = "done" /\ quiet[t] => tx[t] = "final"

=============================================================================
