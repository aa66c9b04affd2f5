----------------------------- MODULE ProofRequest -----------------------------
(***************************************************************************)
(* One call of submitTx up to the answer of the proof server: the ZK       *)
(* artifacts of the circuit are read one after the other, from files or    *)
(* over HTTP, the transaction is serialized for the network of the process *)
(* and sent, with retries that all share one timeout.  Other code may set  *)
(* the network, or compile the contract again, at any await.               *)
(***************************************************************************)
EXTENDS Integers, Sequences

CONSTANTS
  Network,      \* the members of NetworkId
  Timeout,      \* config.timeout, in units of the first delay
  MaxBuild      \* bound on how often the contract is compiled

ASSUME RequestAssumption == Timeout \in Nat \ {0} /\ MaxBuild \in Nat \ {0}

VARIABLES
  currentNetworkId,
  assets,      \* the build that each artifact is of
  rebuilt,     \* artifacts were written since the request began, or were being
  rpc,         \* what the request is awaiting
  circuit,     \* it is for a call of a circuit, not for a deployment
  zkConfig,    \* the builds of the artifacts it has read
  network,     \* the network it was serialized for
  attempt,     \* retries so far
  elapsed,     \* time since the payload was serialized
  deadline,    \* when the signal aborts
  delay,       \* what is left of the delay
  served       \* when the server last took a request

assetVars == <<assets, rebuilt>>
clockVars == <<elapsed, deadline, delay>>
requestVars == <<currentNetworkId, assetVars, rpc, circuit, zkConfig, network,
                 attempt, clockVars, served>>

Artifact == {"proverKey", "verifierKey", "zkir"}
Retries == 3
Backoff == <<1, 2, 4>>                    \* the delay before each retry
Before(n) == <<0, 1, 3, 7>>[n + 1]        \* all delays before so many retries
Unread == 0
NoNetwork == "none"
Never == -1

RequestInit ==
  /\ currentNetworkId \in Network
  /\ assets = [a \in Artifact |-> 1] /\ rebuilt = FALSE
  /\ rpc = "idle" /\ circuit \in BOOLEAN
  /\ zkConfig = [a \in Artifact |-> Unread]
  /\ network = NoNetwork
  /\ attempt = 0 /\ elapsed = 0 /\ deadline = Timeout /\ delay = 0 /\ served = Never

Whole(builds) == \A a, b \in Artifact : builds[a] = builds[b]

Await(from, to) == rpc = from /\ rpc' = to

-----------------------------------------------------------------------------
(* What else goes on *)

SetNetworkId ==
  /\ \E id \in Network : currentNetworkId' = id
  /\ UNCHANGED <<assetVars, rpc, circuit, zkConfig, network, attempt, clockVars, served>>

(* The compiler replaces one artifact after the other. *)
Rebuild ==
  /\ \E a \in Artifact : /\ assets[a] < MaxBuild
                         /\ \A b \in Artifact : assets[a] <= assets[b]
                         /\ assets' = [assets EXCEPT ![a] = @ + 1]
  /\ rebuilt' = (rpc # "idle" \/ ~Whole(assets'))
  /\ UNCHANGED <<currentNetworkId, rpc, circuit, zkConfig, network, attempt, clockVars, served>>

-----------------------------------------------------------------------------
(* submitTx: zkConfigProvider.get *)

SubmitTx ==
  /\ Await("idle", IF circuit THEN "proverKey" ELSE "serialize")
  /\ UNCHANGED <<currentNetworkId, assetVars, circuit, zkConfig, network, attempt, clockVars, served>>

ReadArtifact(artifact) == zkConfig' = [zkConfig EXCEPT ![artifact] = assets[artifact]]

(* A file, or a response that is ok; otherwise the promise rejects. *)
Get(artifact, next) ==
  /\ \/ Await(artifact, next) /\ ReadArtifact(artifact)
     \/ Await(artifact, "failed") /\ UNCHANGED zkConfig
  /\ UNCHANGED <<currentNetworkId, assetVars, circuit, network, attempt, clockVars, served>>

GetArtifact ==
  \/ Get("proverKey", "verifierKey")
  \/ Get("verifierKey", "zkir")
  \/ Get("zkir", "serialize")

-----------------------------------------------------------------------------
(* proveTx *)

(* serializePayload is awaited, and then the signal is made. *)
SerializePayload ==
  /\ Await("serialize", "server")
  /\ network' = currentNetworkId
  /\ deadline' = elapsed + Timeout
  /\ UNCHANGED <<currentNetworkId, assetVars, circuit, zkConfig, attempt, elapsed, delay, served>>

Aborted == elapsed >= deadline

(* Mutant: each attempt has a timeout of its own. *)
RetryWithNewSignal ==
  /\ attempt < Retries
  /\ attempt' = attempt + 1
  /\ delay' = Backoff[attempt + 1]
  /\ deadline' = elapsed + Timeout
  /\ rpc' = "delay"
  /\ UNCHANGED elapsed

(* fetch-retry: whatever the reason is, while there are retries left. *)
Retry ==
  /\ attempt < Retries
  /\ attempt' = attempt + 1
  /\ delay' = Backoff[attempt + 1]
  /\ rpc' = "delay"
  /\ UNCHANGED <<elapsed, deadline>>

GiveUp ==
  /\ attempt = Retries
  /\ rpc' = "failed"
  /\ UNCHANGED <<attempt, clockVars>>

(* The server has the request, and answers with a proof; with 500 or 503,
   which is retried as an error of the network is; or with another status. *)
Respond ==
  /\ rpc = "server" /\ ~Aborted
  /\ served' = elapsed
  /\ \/ rpc' = "body" /\ UNCHANGED <<attempt, clockVars>>
     \/ Retry \/ GiveUp
     \/ rpc' = "failed" /\ UNCHANGED <<attempt, clockVars>>
  /\ UNCHANGED <<currentNetworkId, assetVars, circuit, zkConfig, network>>

(* The network loses it, or the signal rejects the fetch: an attempt that
   begins after the timeout rejects at once, and is retried as well. *)
FetchRejects ==
  /\ rpc = "server"
  /\ Retry \/ GiveUp
  /\ UNCHANGED <<currentNetworkId, assetVars, circuit, zkConfig, network, served>>

DelayOver ==
  /\ delay = 0 /\ Await("delay", "server")
  /\ UNCHANGED <<currentNetworkId, assetVars, circuit, zkConfig, network, attempt, clockVars, served>>

(* deserializePayload: for another network than it was serialized for, it
   raises an error. *)
Deserialize ==
  /\ Await("body", IF Aborted \/ network # currentNetworkId THEN "failed" ELSE "done")
  /\ UNCHANGED <<currentNetworkId, assetVars, circuit, zkConfig, network, attempt, clockVars, served>>

(* Time passes while the request waits, up to what wakes it. *)
Tick ==
  /\ \/ rpc \in {"server", "body"} /\ ~Aborted /\ delay' = delay
     \/ rpc = "delay" /\ delay > 0 /\ delay' = delay - 1
  /\ elapsed' = elapsed + 1
  /\ UNCHANGED <<currentNetworkId, assetVars, rpc, circuit, zkConfig, network, attempt, deadline, served>>

RequestNext ==
  \/ SetNetworkId \/ Rebuild
  \/ SubmitTx \/ GetArtifact \/ SerializePayload
  \/ Respond \/ FetchRejects \/ DelayOver \/ Deserialize \/ Tick

RequestSpec == RequestInit /\ [][RequestNext]_requestVars

-----------------------------------------------------------------------------

(* A call that resolves had a proof of artifacts of one build, unless they were
   written meanwhile.  The server gets nothing after the timeout, and a request
   that has not settled by then does so as soon as the delays of its remaining
   attempts are over: there is no other answer it could wait for. *)
ProvedAsAsked ==
  /\ rpc = "done" /\ circuit /\ ~rebuilt => Whole(zkConfig) /\ zkConfig["zkir"] # Unread
  /\ served < Timeout
  /\ rpc \in {"server", "delay", "body"} => elapsed + delay <= Timeout + Before(attempt)

=============================================================================
