----------------------------- MODULE MCIndexer ------------------------------
(***************************************************************************)
(* Chains of up to three blocks over the contract and one other.  A block  *)
(* is empty, holds one transaction with one or two actions, or two         *)
(* transactions; the stream begins in every way the interface offers.      *)
(***************************************************************************)
EXTENDS Indexer

CONSTANTS c, o

On(address, kind) == [address |-> address, kind |-> kind]

MCBlocks ==
  { <<>>,
    << <<On(c, "deploy")>> >>,
    << <<On(c, "deploy")>>, <<On(c, "call")>> >>,
    << <<On(o, "deploy")>>, <<On(c, "call")>> >>,
    << <<On(o, "call"), On(c, "call")>> >>,
    << <<On(c, "call"), On(c, "call")>> >>,
    << <<On(c, "update")>>, <<On(c, "call")>> >>,
    << <<On(c, "update")>> >> }

(* A kind of stream has the fields it reads; the others are those of the first
   block, so that all configurations are comparable. *)
Config(type, inclusive, height, txId) ==
  [type |-> type, inclusive |-> inclusive, height |-> height, txId |-> txId]

MCConfigs ==
  {Config("none", TRUE, 1, <<1, 1, 1>>), Config("all", TRUE, 1, <<1, 1, 1>>),
   Config("latest", TRUE, 1, <<1, 1, 1>>)}
    \cup {Config("blockOffset", b, 2, <<1, 1, 1>>) : b \in BOOLEAN}
    \cup {Config("txId", b, 1, p) : b \in BOOLEAN,
                                    p \in {<<1, 1, 1>>, <<2, 1, 2>>, <<2, 2, 1>>}}

(* An application has a stream or asks queries: they share the chain only. *)
MCNext == IndexerNext /\ (config.type # "none" => UNCHANGED queryVars)

MCSpec == IndexerInit /\ [][MCNext]_indexerVars /\ WF_indexerVars(Poll) /\ WF_indexerVars(Receive)

TxConfigs == {e \in MCConfigs : e.type = "txId" /\ e.inclusive}

=============================================================================
