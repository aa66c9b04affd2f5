----------------------------- MODULE ToolsProofs -----------------------------
(***************************************************************************)
(* The parts that share no state with the rest: the transfers of a test,   *)
(* the compiler scripts, the commands over a contract and the requests to  *)
(* a proof server, each of them for every value of its constants.          *)
(***************************************************************************)
EXTENDS Transfers, CompactTool, ContractCommand, ProofRequest, FiniteSetTheorems, TLAPS

-----------------------------------------------------------------------------
(***************************************************************************)
(* For any number of transfers and whatever they send: the waits of a test *)
(* that sends them one at a time conclude about the right transaction.     *)
(***************************************************************************)

TransferStages == Awaits \cup {"none", "done", "failed"}
Outcomes == {"none", "submitted", "pending", "final", "failed"}
Compared == {"transfer", "prove", "submit", "pending", "finalized", "history"}

TransferTypeOK ==
  /\ tpc \in [Transfer -> TransferStages]
  /\ tx \in [Transfer -> Outcomes]
  /\ initial \in [Transfer -> [balance : Int, history : Nat]]
  /\ quiet \in [Transfer -> BOOLEAN]

(* A transaction exists once it was submitted. *)
SubmittedOnce ==
  \A t \in Transfer : tpc[t] \in {"none", "initialState", "transfer", "prove", "submit"}
                        => tx[t] = "none"

(* While a quiet transfer waits, no other one is under way, and so the history
   has grown by no other transaction than its own. *)
OthersAtRest ==
  \A t \in Transfer :
    quiet[t] /\ tpc[t] \in Awaits =>
      /\ \A u \in Transfer \ {t} : ~UnderWay(u)
      /\ tpc[t] \in Compared => initial[t].history = Cardinality(Where("final") \ {t})

TransferInv == TransferTypeOK /\ SubmittedOnce /\ OthersAtRest /\ ResolvedIsFinal

-----------------------------------------------------------------------------

(* The history of the wallet is as long as there are final transactions. *)
LEMMA FinalCount ==
  ASSUME NEW S \in SUBSET Transfer
  PROVE  Cardinality(S) \in Nat
BY TransferAssumption, FS_Subset, FS_CardinalityType

LEMMA TransferInvInit == TransferInit => TransferInv
BY TransferAssumption
   DEF TransferInit, TransferInv, TransferTypeOK, TransferStages, Outcomes, SubmittedOnce,
       OthersAtRest, Awaits, ResolvedIsFinal

(* A transfer that goes from one await to the next leaves its transaction as it
   was, or has just submitted it. *)
LEMMA ProceedKeepsInv ==
  ASSUME TransferInv, NEW t \in Transfer, NEW from \in Awaits \ {"initialState"},
         NEW to \in Compared \cup {"done", "failed"},
         Proceed(t, from, to), UNCHANGED <<initial, quiet>>,
         \/ tx' = tx
         \/ from = "submit" /\ tx' = [tx EXCEPT ![t] = "submitted"],
         to \in {"transfer", "prove", "submit"} => from \in {"transfer", "prove"} /\ tx' = tx,
         to = "done" /\ quiet[t] => tx[t] = "final" /\ tx' = tx
  PROVE  TransferInv'
<1>. USE DEF TransferInv, TransferTypeOK, Proceed
<1>1. TransferTypeOK' /\ SubmittedOnce'
  BY DEF TransferStages, Outcomes, SubmittedOnce, Awaits, Compared
<1>2. tpc[t] = "submit" => tx[t] = "none"
  BY DEF SubmittedOnce
<1>3. Where("final")' = Where("final")
  BY <1>2 DEF Where
<1>4. \A u \in Transfer : tpc[u] \in Awaits \/ tpc'[u] \notin Awaits
  BY DEF Awaits
<1>5. \A u \in Transfer : ~UnderWay(u) => ~UnderWay(u)'
  BY DEF UnderWay, Awaits
<1>6. OthersAtRest'
  BY <1>3, <1>4, <1>5 DEF OthersAtRest, Awaits, Compared
<1>7. ResolvedIsFinal'
  BY <1>2 DEF ResolvedIsFinal
<1>. QED
  BY <1>1, <1>6, <1>7

(* The chain decides of a transaction that is under way, and of no other. *)
LEMMA ChainKeepsInv ==
  ASSUME TransferInv, NEW t \in Transfer, tx[t] \in {"submitted", "pending"},
         NEW outcome \in {"pending", "final", "failed"},
         tx' = [tx EXCEPT ![t] = outcome], UNCHANGED <<tpc, initial, quiet>>
  PROVE  TransferInv'
<1>. USE DEF TransferInv, TransferTypeOK
<1>1. TransferTypeOK' /\ SubmittedOnce'
  BY DEF Outcomes, SubmittedOnce
<1>2. UnderWay(t)
  BY DEF UnderWay
<1>3. \A u \in Transfer : ~UnderWay(u) => ~UnderWay(u)'
  BY DEF UnderWay
<1>4. Where("final")' \ {t} = Where("final") \ {t}
  BY DEF Where
<1>5. OthersAtRest'
  BY <1>2, <1>3, <1>4 DEF OthersAtRest
<1>6. ResolvedIsFinal'
  BY DEF ResolvedIsFinal
<1>. QED
  BY <1>1, <1>5, <1>6

LEMMA TransferInvNext == TransferInv /\ [TransferNext]_transferVars => TransferInv'
<1>. SUFFICES ASSUME TransferInv, [TransferNext]_transferVars
              PROVE  TransferInv'
  OBVIOUS
<1>. USE DEF TransferInv
<1>1. ASSUME NEW t \in Transfer, Pend(t) \/ Decide(t)
      PROVE  TransferInv'
  BY <1>1, ChainKeepsInv DEF Pend, Decide
<1>2. ASSUME NEW t \in Transfer, SendTransaction(t)
      PROVE  TransferInv'
  <2>1. /\ tpc[t] = "none" /\ tpc' = [tpc EXCEPT ![t] = "initialState"]
        /\ UNCHANGED <<tx, initial>>
        /\ quiet' = [u \in Transfer |->
                       IF u = t THEN \A other \in Transfer \ {t} : ~UnderWay(other)
                                ELSE quiet[u] /\ ~UnderWay(u)]
    BY <1>2 DEF SendTransaction, Proceed
  <2>2. TransferTypeOK' /\ SubmittedOnce'
    <3>1. quiet' \in [Transfer -> BOOLEAN]
      BY <2>1, Zenon
    <3>. QED
      BY <2>1, <3>1 DEF TransferTypeOK, TransferStages, Awaits, SubmittedOnce
  <2>3. ASSUME NEW u \in Transfer, quiet'[u], tpc'[u] \in Awaits
        PROVE  u = t /\ \A other \in Transfer \ {t} : ~UnderWay(other)
    <3>1. CASE u = t
      BY <2>1, <2>3, <3>1
    <3>2. CASE u # t
      BY <2>1, <2>3, <3>2 DEF UnderWay, TransferTypeOK
    <3>. QED
      BY <3>1, <3>2
  <2>4. \A u \in Transfer \ {t} : ~UnderWay(u) => ~UnderWay(u)'
    BY <2>1 DEF UnderWay, TransferTypeOK
  <2>5. tpc'[t] \notin Compared
    BY <2>1 DEF TransferTypeOK, Compared
  <2>6. OthersAtRest'
    BY <2>3, <2>4, <2>5 DEF OthersAtRest
  <2>7. ASSUME NEW u \in Transfer, tpc'[u] = "done", quiet'[u]
        PROVE  tx'[u] = "final"
    <3>1. u # t /\ tpc[u] = "done"
      BY <2>1, <2>7 DEF TransferTypeOK
    <3>2. quiet[u]
      BY <2>1, <2>7, <3>1
    <3>. QED
      BY <2>1, <3>1, <3>2 DEF ResolvedIsFinal
  <2>. QED
    BY <2>2, <2>6, <2>7 DEF ResolvedIsFinal
<1>3. ASSUME NEW t \in Transfer, GetInitialState(t)
      PROVE  TransferInv'
  <2>1. /\ tpc[t] = "initialState" /\ tpc' = [tpc EXCEPT ![t] = "transfer"]
        /\ initial' = [initial EXCEPT ![t] = WalletState]
        /\ UNCHANGED <<tx, quiet>>
    BY <1>3 DEF GetInitialState, Proceed
  <2>2. Cardinality(Where("final")) \in Nat
    BY FinalCount DEF Where
  <2>3. WalletState \in [balance : Int, history : Nat]
    BY <2>2, TransferAssumption DEF WalletState
  <2>4. TransferTypeOK' /\ SubmittedOnce'
    BY <2>1, <2>3 DEF TransferTypeOK, TransferStages, Awaits, SubmittedOnce
  <2>5. Where("final")' = Where("final") /\ Where("final") = Where("final") \ {t}
    BY <2>1 DEF Where, SubmittedOnce
  <2>6. initial'[t].history = Cardinality(Where("final") \ {t})
    BY <2>1, <2>5 DEF WalletState, TransferTypeOK
  <2>7. \A u \in Transfer : UnderWay(u)' <=> UnderWay(u)
    BY <2>1 DEF UnderWay, TransferTypeOK, Awaits
  <2>8. OthersAtRest'
    BY <2>1, <2>5, <2>6, <2>7 DEF OthersAtRest, TransferTypeOK, Awaits
  <2>9. ResolvedIsFinal'
    BY <2>1 DEF ResolvedIsFinal, TransferTypeOK
  <2>. QED
    BY <2>4, <2>8, <2>9
<1>4. ASSUME NEW t \in Transfer, ProcessTransaction(t)
      PROVE  TransferInv'
  <2>1. UNCHANGED <<initial, quiet>>
    BY <1>4 DEF ProcessTransaction
  <2>2. CASE \/ Proceed(t, "transfer", "prove") \/ Proceed(t, "prove", "submit")
             \/ \E await \in {"transfer", "prove", "submit"} : Proceed(t, await, "failed")
    <3>1. CASE UNCHANGED tx
      BY <2>1, <2>2, <3>1, ProceedKeepsInv DEF Awaits, Compared
    <3>2. CASE Proceed(t, "submit", "failed") /\ tx' = [tx EXCEPT ![t] = "submitted"]
      BY <2>1, <3>2, ProceedKeepsInv DEF Awaits, Compared
    <3>. QED
      BY <1>4, <2>2, <3>1, <3>2 DEF ProcessTransaction, Proceed
  <2>3. CASE /\ Proceed(t, "submit", "pending") \/ Proceed(t, "submit", "history")
             /\ tx' = [tx EXCEPT ![t] = "submitted"]
    BY <2>1, <2>3, ProceedKeepsInv DEF Awaits, Compared
  <2>. QED
    BY <1>4, <2>2, <2>3 DEF ProcessTransaction
<1>5. ASSUME NEW t \in Transfer, WaitForPending(t)
      PROVE  TransferInv'
  BY <1>5, ProceedKeepsInv DEF WaitForPending, Awaits, Compared
<1>6. ASSUME NEW t \in Transfer, WaitForFinalizedBalance(t)
      PROVE  TransferInv'
  <2>1. PICK to \in {"done", "failed"} :
          /\ Proceed(t, "finalized", to) /\ UNCHANGED <<tx, initial, quiet>>
          /\ to = "done" => ValidateFinalState(t)
    BY <1>6 DEF WaitForFinalizedBalance
  <2>2. ASSUME to = "done", quiet[t]
        PROVE  tx[t] = "final"
    <3>. DEFINE n == Cardinality(Where("final") \ {t})
    <3>1. initial[t].history = n
      BY <2>1, <2>2 DEF Proceed, OthersAtRest, Awaits, Compared
    <3>2. Cardinality(Where("final")) >= n + 1
      BY <2>1, <2>2, <3>1 DEF ValidateFinalState, WalletState
    <3>3. n \in Nat
      BY FinalCount DEF Where
    <3>4. t \in Where("final")
      <4>1. SUFFICES ASSUME t \notin Where("final") PROVE FALSE
        OBVIOUS
      <4>2. Where("final") = Where("final") \ {t}
        BY <4>1
      <4>3. Cardinality(Where("final")) = n
        BY <4>2, Zenon
      <4>. QED
        BY <3>2, <3>3, <4>3
    <3>. QED
      BY <3>4 DEF Where
  <2>. QED
    BY <2>1, <2>2, ProceedKeepsInv DEF Awaits
<1>7. ASSUME NEW t \in Transfer, WaitForTxInHistory(t)
      PROVE  TransferInv'
  BY <1>7, ProceedKeepsInv DEF WaitForTxInHistory, Awaits
<1>8. CASE Sync \/ UNCHANGED transferVars
  <2>1. UNCHANGED <<tpc, tx, initial, quiet>>
    BY <1>8 DEF Sync, transferVars
  <2>2. TransferTypeOK' /\ SubmittedOnce' /\ ResolvedIsFinal'
    BY <2>1 DEF TransferTypeOK, SubmittedOnce, ResolvedIsFinal
  <2>3. Where("final")' = Where("final") /\ \A u \in Transfer : UnderWay(u)' <=> UnderWay(u)
    BY <2>1 DEF Where, UnderWay
  <2>4. OthersAtRest'
    BY <2>1, <2>3 DEF OthersAtRest
  <2>. QED
    BY <2>2, <2>4
<1>. QED
  BY <1>1, <1>2, <1>3, <1>4, <1>5, <1>6, <1>7, <1>8 DEF TransferNext

(* Whatever the waits see of the wallet, and whenever the chain decides. *)
THEOREM ResolvedTransferIsFinal == TransferSpec => []ResolvedIsFinal
<1>1. TransferInit => TransferInv
  BY TransferInvInit
<1>2. TransferInv /\ [TransferNext]_transferVars => TransferInv'
  BY TransferInvNext
<1>3. TransferInv => ResolvedIsFinal
  BY DEF TransferInv
<1>. QED
  BY <1>1, <1>2, <1>3, PTL DEF TransferSpec

-----------------------------------------------------------------------------
(***************************************************************************)
(* For every number of processes, every set of versions and every archive: *)
(* what run-compactc takes for an installed compiler is whole, but for the *)
(* versions that are being worked on or were disturbed.                    *)
(***************************************************************************)

CompactTypeOK ==
  /\ stage \in [Process -> Stages]
  /\ DOMAIN version = Process
  /\ left \in [Process -> SUBSET File]
  /\ old \in [Process -> SUBSET Version]
  /\ folder \in [Version -> SUBSET File]
  /\ disturbed \subseteq Version

(* A fetch works on a version. *)
FetchHasVersion ==
  \A p \in Process :
    stage[p] \in {"download", "clear", "open", "unzip"} => version[p] \in Version

(* What unzip has unpacked is in the folder still, or the version was
   disturbed. *)
Unpacked ==
  \A p \in Process :
    stage[p] = "unzip" => File \ left[p] \subseteq folder[version[p]] \/ version[p] \in disturbed

CompactInv == CompactTypeOK /\ FetchHasVersion /\ Unpacked /\ InstalledWhole

-----------------------------------------------------------------------------

(* The package begins with no versions. *)
LEMMA CompactInvInit == CompactInit => CompactInv
BY CompactAssumption
   DEF CompactInit, CompactInv, CompactTypeOK, FetchHasVersion, Unpacked, InstalledWhole,
       VersionExists, Stages

(* A process that ends leaves its versions disturbed, or what it did is done:
   no other changes what it works on. *)
LEMMA EndWorkKeepsInv ==
  ASSUME CompactInv, NEW p \in Process, End(p), UNCHANGED folder,
         disturbed' = disturbed \cup Touched(p)
  PROVE  CompactInv'
<1>. USE CompactAssumption DEF CompactInv, CompactTypeOK
<1>1. CompactTypeOK'
  BY DEF End, Stages, Touched, NoVersion
<1>2. FetchHasVersion' /\ Unpacked'
  BY DEF FetchHasVersion, Unpacked, End
<1>3. \A q \in Process \ {p}, v \in Version : WorksOn(q, v)' <=> WorksOn(q, v)
  BY DEF WorksOn, End
<1>4. InstalledWhole'
  BY <1>3 DEF InstalledWhole, VersionExists, Touched
<1>. QED
  BY <1>1, <1>2, <1>4

(* A process may become idle at no cost when it works on nothing. *)
LEMMA EndOfIdleWork ==
  ASSUME CompactInv, NEW p \in Process, End(p), UNCHANGED <<folder, disturbed>>,
         \A v \in Version : ~WorksOn(p, v)
  PROVE  CompactInv'
<1>1. disturbed' = disturbed \cup Touched(p)
  BY DEF Touched
<1>. QED
  BY <1>1, EndWorkKeepsInv

(* Removing a file of a version disturbs whoever else works on it; the one that
   removes it works on it, and does not unpack. *)
LEMMA RemoveFileKeepsInv ==
  ASSUME CompactInv, NEW p \in Process, NEW v \in Version, NEW f \in File, RemoveFile(p, v, f),
         WorksOn(p, v), stage[p] # "unzip", UNCHANGED jobVars
  PROVE  CompactInv'
<1>. USE CompactAssumption DEF CompactInv, CompactTypeOK, jobVars
<1>1. /\ folder' = [folder EXCEPT ![v] = @ \ {f}]
      /\ disturbed' = disturbed \cup {w \in {v} : \E q \in Process \ {p} : WorksOn(q, v)}
  BY DEF RemoveFile
<1>2. CompactTypeOK' /\ FetchHasVersion'
  BY <1>1 DEF FetchHasVersion
<1>3. ASSUME NEW q \in Process, stage[q] = "unzip"
      PROVE  File \ left[q] \subseteq folder'[version[q]] \/ version[q] \in disturbed'
  <2>1. CASE version[q] = v
    <3>1. q # p /\ WorksOn(q, v)
      BY <1>3, <2>1 DEF WorksOn
    <3>. QED
      BY <3>1, <2>1, <1>1
  <2>2. CASE version[q] # v
    <3>1. version[q] \in Version
      BY <1>3 DEF FetchHasVersion
    <3>. QED
      BY <3>1, <2>2, <1>1, <1>3 DEF Unpacked
  <2>. QED
    BY <2>1, <2>2
<1>4. \A q \in Process, w \in Version : WorksOn(q, w)' <=> WorksOn(q, w)
  BY DEF WorksOn
<1>5. InstalledWhole'
  BY <1>1, <1>4 DEF InstalledWhole, VersionExists
<1>. QED
  BY <1>2, <1>3, <1>5 DEF Unpacked

(* execSync waits until everything is unpacked. *)
LEMMA RemoveArchiveKeepsInv ==
  ASSUME CompactInv, NEW p \in Process, RemoveArchive(p)
  PROVE  CompactInv'
<1>. USE CompactAssumption DEF CompactInv, CompactTypeOK
<1>. DEFINE v == version[p]
<1>1. /\ stage[p] = "unzip" /\ left[p] = {} /\ v \in Version
      /\ folder' = folder /\ End(p)
      /\ disturbed' = IF folder[v] = File THEN disturbed \ {v} ELSE disturbed
  BY DEF RemoveArchive, FetchHasVersion
<1>2. CompactTypeOK'
  BY <1>1 DEF End, Stages, NoVersion
<1>3. FetchHasVersion' /\ Unpacked'
  BY <1>1 DEF FetchHasVersion, Unpacked, End
<1>4. \A q \in Process \ {p}, w \in Version : WorksOn(q, w)' <=> WorksOn(q, w)
  BY <1>1 DEF WorksOn, End
<1>5. \A w \in Version \ {v} : ~WorksOn(p, w)
  BY <1>1 DEF WorksOn
<1>6. folder[v] = File \/ v \in disturbed'
  BY <1>1 DEF Unpacked
<1>7. ASSUME NEW w \in Version, VersionExists(w)', folder'[w] # File
      PROVE  w \in disturbed' \/ \E q \in Process : WorksOn(q, w)'
  <2>1. CASE w = v
    BY <2>1, <1>1, <1>6, <1>7
  <2>2. CASE w # v
    BY <2>2, <1>1, <1>4, <1>5, <1>7 DEF InstalledWhole, VersionExists
  <2>. QED
    BY <2>1, <2>2
<1>. QED
  BY <1>2, <1>3, <1>7 DEF InstalledWhole

(* The first stage of a process, and those that work on no version. *)
LEMMA EnterKeepsInv ==
  ASSUME CompactInv, NEW p \in Process, NEW from, NEW to \in Stages, Enter(p, from, to),
         DOMAIN version' = Process,
         \A q \in Process \ {p} : version'[q] = version[q],
         old' \in [Process -> SUBSET Version], \A q \in Process \ {p} : old'[q] = old[q],
         UNCHANGED <<left, folder, disturbed>>,
         to # "unzip", from \notin {"clear", "open", "unzip", "remove"},
         to \in {"download", "clear"} => version'[p] \in Version, to # "open"
  PROVE  CompactInv'
<1>. USE CompactAssumption DEF CompactInv, CompactTypeOK
<1>1. CompactTypeOK'
  BY DEF Enter
<1>2. FetchHasVersion' /\ Unpacked'
  BY DEF FetchHasVersion, Unpacked, Enter
<1>3. \A q \in Process, v \in Version : WorksOn(q, v) => WorksOn(q, v)'
  BY DEF WorksOn, Enter
<1>4. InstalledWhole'
  BY <1>3 DEF InstalledWhole, VersionExists
<1>. QED
  BY <1>1, <1>2, <1>4

LEMMA CompactInvNext == CompactInv /\ [CompactNext]_compactVars => CompactInv'
<1>. SUFFICES ASSUME CompactInv, [CompactNext]_compactVars
              PROVE  CompactInv'
  OBVIOUS
<1>. USE CompactAssumption DEF CompactInv, CompactTypeOK, diskVars
<1>1. ASSUME NEW p \in Process, NEW v \in Version, NEW force \in BOOLEAN, Fetch(p, v, force)
      PROVE  CompactInv'
  <2>1. PICK to \in {"pull", "download"} : Enter(p, "idle", to)
    BY <1>1 DEF Fetch
  <2>. QED
    BY <1>1, <2>1, EnterKeepsInv DEF Fetch, Stages
<1>2. ASSUME NEW p \in Process, Download(p)
      PROVE  CompactInv'
  BY <1>2, EnterKeepsInv DEF Download, Stages, FetchHasVersion, Enter
<1>3. ASSUME NEW p \in Process, ClearFolder(p)
      PROVE  CompactInv'
  <2>1. stage[p] = "clear" /\ version[p] \in Version /\ UNCHANGED <<version, left, old>>
    BY <1>3 DEF ClearFolder, FetchHasVersion
  <2>2. ASSUME NEW f \in File, RemoveFile(p, version[p], f), UNCHANGED stage
        PROVE  CompactInv'
    <3>1. WorksOn(p, version[p])
      BY <2>1 DEF WorksOn
    <3>. QED
      BY <2>1, <2>2, <3>1, RemoveFileKeepsInv DEF jobVars
  <2>3. CASE Enter(p, "clear", "open") /\ UNCHANGED <<folder, disturbed>>
    <3>1. CompactTypeOK' /\ FetchHasVersion' /\ Unpacked'
      BY <2>1, <2>3 DEF Enter, Stages, FetchHasVersion, Unpacked
    <3>2. \A q \in Process, v \in Version : WorksOn(q, v) => WorksOn(q, v)'
      BY <2>1, <2>3 DEF WorksOn, Enter
    <3>. QED
      BY <2>3, <3>1, <3>2 DEF InstalledWhole, VersionExists
  <2>. QED
    BY <1>3, <2>2, <2>3 DEF ClearFolder
<1>4. ASSUME NEW p \in Process, OpenArchive(p)
      PROVE  CompactInv'
  <2>1. /\ Enter(p, "open", "unzip") /\ left' = [left EXCEPT ![p] = File]
        /\ UNCHANGED <<version, old, folder, disturbed>>
    BY <1>4 DEF OpenArchive
  <2>2. CompactTypeOK' /\ FetchHasVersion'
    BY <2>1 DEF Enter, Stages, FetchHasVersion
  <2>3. Unpacked'
    BY <2>1 DEF Enter, Unpacked
  <2>4. \A q \in Process, v \in Version : WorksOn(q, v) => WorksOn(q, v)'
    BY <2>1 DEF WorksOn, Enter
  <2>. QED
    BY <2>1, <2>2, <2>3, <2>4 DEF InstalledWhole, VersionExists
<1>5. ASSUME NEW p \in Process, Unzip(p)
      PROVE  CompactInv'
  <2>1. PICK f \in left[p] : /\ Enter(p, "unzip", "unzip")
                             /\ left' = [left EXCEPT ![p] = @ \ {f}]
                             /\ folder' = [folder EXCEPT ![version[p]] = @ \cup {f}]
    BY <1>5 DEF Unzip
  <2>2. UNCHANGED <<stage, version, old, disturbed>> /\ version[p] \in Version
    BY <1>5, <2>1 DEF Unzip, Enter, FetchHasVersion
  <2>3. CompactTypeOK' /\ FetchHasVersion'
    BY <2>1, <2>2 DEF FetchHasVersion
  <2>4. ASSUME NEW q \in Process, stage[q] = "unzip"
        PROVE  File \ left'[q] \subseteq folder'[version[q]] \/ version[q] \in disturbed
    <3>1. version[q] \in Version /\ folder[version[q]] \subseteq folder'[version[q]]
      BY <2>1, <2>2, <2>4 DEF FetchHasVersion
    <3>2. CASE q = p
      BY <3>1, <3>2, <2>1, <2>2, <2>4 DEF Unpacked
    <3>3. CASE q # p
      BY <3>1, <3>3, <2>1, <2>4 DEF Unpacked
    <3>. QED
      BY <3>2, <3>3
  <2>5. \A q \in Process, v \in Version : WorksOn(q, v)' <=> WorksOn(q, v)
    BY <2>2 DEF WorksOn
  <2>6. WorksOn(p, version[p])
    BY <2>1, <2>2 DEF WorksOn, Enter
  <2>7. InstalledWhole'
    BY <2>1, <2>2, <2>5, <2>6 DEF InstalledWhole, VersionExists
  <2>. QED
    BY <2>2, <2>3, <2>4, <2>7 DEF Unpacked
<1>6. ASSUME NEW p \in Process, RemoveArchive(p)
      PROVE  CompactInv'
  BY <1>6, RemoveArchiveKeepsInv
<1>7. ASSUME NEW p \in Process, FetchDockerImage(p) \/ Compiled(p)
      PROVE  CompactInv'
  BY <1>7, EndOfIdleWork DEF FetchDockerImage, Compiled, WorksOn
<1>8. ASSUME NEW p \in Process, FetchFails(p) \/ Kill(p)
      PROVE  CompactInv'
  BY <1>8, EndWorkKeepsInv DEF FetchFails, Kill
<1>9. ASSUME NEW p \in Process, NEW keepCount \in 1..2, Cleanup(p, keepCount)
      PROVE  CompactInv'
  BY <1>9, EnterKeepsInv DEF Cleanup, Stages, OldVersions, ListVersions
<1>10. ASSUME NEW p \in Process, RemoveVersion(p)
       PROVE  CompactInv'
  <2>1. stage[p] = "remove"
    BY <1>10 DEF RemoveVersion
  <2>2. ASSUME NEW v \in old[p], NEW f \in File, RemoveFile(p, v, f), UNCHANGED jobVars
        PROVE  CompactInv'
    BY <2>1, <2>2, RemoveFileKeepsInv DEF WorksOn
  <2>3. ASSUME NEW v \in old[p], folder[v] = {}, old' = [old EXCEPT ![p] = @ \ {v}],
               UNCHANGED <<stage, version, left, folder, disturbed>>
        PROVE  CompactInv'
    <3>1. CompactTypeOK' /\ FetchHasVersion' /\ Unpacked'
      BY <2>3 DEF FetchHasVersion, Unpacked
    <3>2. \A q \in Process, w \in Version \ {v} : WorksOn(q, w) => WorksOn(q, w)'
      BY <2>3 DEF WorksOn
    <3>. QED
      BY <2>3, <3>1, <3>2 DEF InstalledWhole, VersionExists
  <2>4. CASE old[p] = {} /\ End(p) /\ UNCHANGED <<folder, disturbed>>
    BY <2>1, <2>4, EndOfIdleWork DEF WorksOn
  <2>. QED
    BY <1>10, <2>2, <2>3, <2>4 DEF RemoveVersion
<1>11. ASSUME NEW p \in Process, NEW requested \in Version \cup {NoVersion}, Run(p, requested)
       PROVE  CompactInv'
  <2>1. PICK to \in {"container", "spawn"} : Enter(p, "idle", to)
    BY <1>11 DEF Run
  <2>2. PICK v : version' = [version EXCEPT ![p] = v]
    BY <1>11 DEF Run
  <2>. QED
    BY <1>11, <2>1, <2>2, EnterKeepsInv DEF Run, Stages
<1>12. ASSUME NEW p \in Process, Spawn(p)
       PROVE  CompactInv'
  <2>1. CASE End(p)
    BY <1>12, <2>1, EndOfIdleWork DEF Spawn, WorksOn
  <2>2. CASE Enter(p, "spawn", "compile") /\ UNCHANGED <<version, left, old>>
    BY <1>12, <2>2, EnterKeepsInv DEF Spawn, Stages
  <2>. QED
    BY <1>12, <2>1, <2>2 DEF Spawn
<1>13. ASSUME NEW p \in Process, RunContainer(p)
       PROVE  CompactInv'
  <2>1. CASE End(p)
    BY <1>13, <2>1, EndOfIdleWork DEF RunContainer, WorksOn
  <2>2. CASE Enter(p, "container", "compile") /\ UNCHANGED <<version, left, old>>
    BY <1>13, <2>2, EnterKeepsInv DEF RunContainer, Stages
  <2>. QED
    BY <1>13, <2>1, <2>2 DEF RunContainer
<1>14. CASE UNCHANGED compactVars
  BY <1>14 DEF compactVars, jobVars, FetchHasVersion, Unpacked, InstalledWhole, VersionExists,
     WorksOn
<1>15. ASSUME NEW p \in Process,
              \/ \E v \in Version, force \in BOOLEAN : Fetch(p, v, force)
              \/ \E keepCount \in 1..2 : Cleanup(p, keepCount)
              \/ \E requested \in Version \cup {NoVersion} : Run(p, requested)
       PROVE  CompactInv'
  BY <1>1, <1>9, <1>11, <1>15
<1>. HIDE DEF CompactInv, CompactTypeOK
<1>. QED
  BY <1>2, <1>3, <1>4, <1>5, <1>6, <1>7, <1>8, <1>10, <1>12, <1>13, <1>14, <1>15
     DEF CompactNext

(* However many processes fetch, clean up, run and are killed at once. *)
THEOREM InstalledIsWhole == CompactSpec => []InstalledWhole
<1>1. CompactInit => CompactInv
  BY CompactInvInit
<1>2. CompactInv /\ [CompactNext]_compactVars => CompactInv'
  BY CompactInvNext
<1>3. CompactInv => InstalledWhole
  BY DEF CompactInv
<1>. QED
  BY <1>1, <1>2, <1>3, PTL DEF CompactSpec

-----------------------------------------------------------------------------
(***************************************************************************)
(* For every timeout, every set of networks and however often the contract *)
(* is compiled again: what a request sends is of one build, the server     *)
(* gets nothing after the timeout, and the request settles soon after it.  *)
(***************************************************************************)

BeforeSerialize == {"idle", "proverKey", "verifierKey", "zkir", "serialize"}
AfterSerialize == {"server", "delay", "body"}
Settled == {"done", "failed"}

RequestTypeOK ==
  /\ rpc \in BeforeSerialize \cup AfterSerialize \cup Settled
  /\ circuit \in BOOLEAN /\ rebuilt \in BOOLEAN
  /\ assets \in [Artifact -> Nat \ {0}] /\ zkConfig \in [Artifact -> Nat]
  /\ attempt \in 0..Retries
  /\ elapsed \in Nat /\ deadline \in Nat /\ delay \in Nat /\ served \in Int

(* The artifacts that a request for a call has read by now. *)
HasRead ==
  IF rpc \in {"idle", "proverKey"} THEN {}
  ELSE IF rpc = "verifierKey" THEN {"proverKey"}
  ELSE IF rpc = "zkir" THEN {"proverKey", "verifierKey"}
  ELSE IF rpc = "failed" THEN {}
  ELSE Artifact

(* While nothing is written, the artifacts are of one build, and what was read
   of them is what is there. *)
ReadOneBuild ==
  ~rebuilt => /\ Whole(assets)
              /\ circuit => \A a \in HasRead : zkConfig[a] = assets[a]

(* Time is counted from when the signal is made, by the first attempt on; an
   attempt that begins does so at the end of its delay. *)
OneSignal ==
  /\ deadline = Timeout /\ served < Timeout
  /\ rpc \in BeforeSerialize => elapsed = 0 /\ attempt = 0 /\ delay = 0
  /\ rpc \in {"server", "body"} => delay = 0
  /\ rpc \in AfterSerialize => elapsed + delay <= Timeout + Before(attempt)

RequestInv == RequestTypeOK /\ ReadOneBuild /\ OneSignal

-----------------------------------------------------------------------------

(* The delays are those that add up to Before. *)
LEMMA DelaysAddUp ==
  /\ \A n \in 0..Retries : Before(n) \in Nat
  /\ Before(0) = 0
  /\ \A n \in 0..Retries : n < Retries =>
       /\ Backoff[n + 1] \in Nat /\ n + 1 \in 0..Retries
       /\ Before(n + 1) = Before(n) + Backoff[n + 1]
<1>1. \A n \in 0..3 : n = 0 \/ n = 1 \/ n = 2 \/ n = 3
  OBVIOUS
<1>2. /\ Before(0) = 0 /\ Before(1) = 1 /\ Before(2) = 3 /\ Before(3) = 7
      /\ Backoff[1] = 1 /\ Backoff[2] = 2 /\ Backoff[3] = 4
  BY DEF Before, Backoff
<1>. QED
  BY <1>1, <1>2 DEF Retries

LEMMA RequestInvInit == RequestInit => RequestInv
<1>. SUFFICES ASSUME RequestInit
              PROVE  RequestInv
  OBVIOUS
<1>. USE RequestAssumption DEF RequestInit
<1>1. RequestTypeOK
  <2>1. circuit \in BOOLEAN /\ rebuilt \in BOOLEAN
    OBVIOUS
  <2>2. /\ attempt \in 0..Retries
        /\ elapsed \in Nat /\ deadline \in Nat /\ delay \in Nat /\ served \in Int
    BY DEF Retries, Never
  <2>3. assets \in [Artifact -> Nat \ {0}] /\ zkConfig \in [Artifact -> Nat]
    BY DEF Unread
  <2>. QED
    BY <2>1, <2>2, <2>3 DEF RequestTypeOK, BeforeSerialize
<1>2. ReadOneBuild
  BY DEF ReadOneBuild, HasRead, Whole
<1>3. OneSignal
  BY DelaysAddUp DEF OneSignal, AfterSerialize, Never
<1>. QED
  BY <1>1, <1>2, <1>3 DEF RequestInv

(* A retry spends what its delay is, and the time that is left for it grows by
   as much. *)
LEMMA RetryKeepsInv ==
  ASSUME RequestInv, rpc = "server", Retry \/ GiveUp,
         served' \in Int, served' < Timeout,
         UNCHANGED <<assetVars, circuit, zkConfig>>
  PROVE  RequestInv'
<1>. USE RequestAssumption DEF RequestInv, RequestTypeOK, assetVars
<1>1. ReadOneBuild'
  BY DEF ReadOneBuild, Whole, HasRead, Retry, GiveUp
<1>2. CASE Retry
  <2>1. /\ attempt < Retries /\ attempt' = attempt + 1 /\ delay' = Backoff[attempt + 1]
        /\ rpc' = "delay" /\ elapsed' = elapsed /\ deadline' = deadline
    BY <1>2 DEF Retry
  <2>2. /\ delay' \in Nat /\ attempt' \in 0..Retries
        /\ Before(attempt) \in Nat /\ Before(attempt') = Before(attempt) + delay'
    BY <2>1, DelaysAddUp
  <2>3. RequestTypeOK'
    BY <2>1, <2>2 DEF AfterSerialize
  <2>4. elapsed <= Timeout + Before(attempt)
    BY <2>2 DEF OneSignal, AfterSerialize
  <2>5. elapsed' + delay' <= Timeout + Before(attempt')
    BY <2>1, <2>2, <2>4
  <2>6. OneSignal'
    BY <2>1, <2>5 DEF OneSignal, BeforeSerialize
  <2>. QED
    BY <1>1, <2>3, <2>6
<1>3. CASE GiveUp
  <2>1. rpc' = "failed" /\ UNCHANGED <<attempt, elapsed, deadline, delay>>
    BY <1>3 DEF GiveUp, clockVars
  <2>2. RequestTypeOK'
    BY <2>1 DEF Settled
  <2>3. OneSignal'
    BY <2>1 DEF OneSignal, BeforeSerialize, AfterSerialize
  <2>. QED
    BY <1>1, <2>2, <2>3
<1>. QED
  BY <1>2, <1>3

(* A step that only moves on, to where no more has to be read. *)
LEMMA MoveKeepsInv ==
  ASSUME RequestInv, UNCHANGED <<assetVars, circuit, zkConfig, attempt, clockVars>>,
         served' \in Int, served' < Timeout,
         \/ rpc = "idle" /\ rpc' = "proverKey"
         \/ rpc = "idle" /\ ~circuit /\ rpc' = "serialize"
         \/ rpc = "delay" /\ delay = 0 /\ rpc' = "server"
         \/ rpc = "server" /\ rpc' = "body"
         \/ rpc = "body" /\ rpc' = "done"
         \/ rpc' = "failed"
  PROVE  RequestInv'
<1>. USE RequestAssumption DEF RequestInv, assetVars, clockVars
<1>1. RequestTypeOK'
  BY DEF RequestTypeOK, BeforeSerialize, AfterSerialize, Settled
<1>2. ReadOneBuild'
  BY DEF ReadOneBuild, Whole, HasRead
<1>3. OneSignal'
  BY DEF OneSignal, BeforeSerialize, AfterSerialize
<1>. QED
  BY <1>1, <1>2, <1>3

(* What is read is what is there, and the others are left as they were. *)
LEMMA GetKeepsInv ==
  ASSUME RequestInv, NEW artifact \in Artifact, NEW next, Get(artifact, next),
         \/ artifact = "proverKey" /\ next = "verifierKey"
         \/ artifact = "verifierKey" /\ next = "zkir"
         \/ artifact = "zkir" /\ next = "serialize"
  PROVE  RequestInv'
<1>. USE RequestAssumption DEF RequestInv, assetVars, clockVars
<1>1. UNCHANGED <<assetVars, circuit, attempt, clockVars, served>>
  BY DEF Get
<1>2. CASE rpc = artifact /\ rpc' = next /\ ReadArtifact(artifact)
  <2>1. RequestTypeOK'
    BY <1>1, <1>2 DEF RequestTypeOK, BeforeSerialize, ReadArtifact
  <2>2. HasRead' = HasRead \cup {artifact}
    BY <1>2 DEF HasRead, Artifact
  <2>3. \A a \in HasRead' : zkConfig'[a] = IF a = artifact THEN assets[a] ELSE zkConfig[a]
    BY <1>2, <2>2 DEF ReadArtifact, RequestTypeOK, HasRead, Artifact
  <2>4. ReadOneBuild'
    BY <1>1, <2>2, <2>3 DEF ReadOneBuild, Whole
  <2>5. OneSignal'
    BY <1>1, <1>2 DEF OneSignal, BeforeSerialize, AfterSerialize
  <2>. QED
    BY <2>1, <2>4, <2>5
<1>3. CASE rpc' = "failed" /\ UNCHANGED zkConfig
  <2>1. served' \in Int /\ served' < Timeout
    BY <1>1 DEF RequestTypeOK, OneSignal
  <2>. QED
    BY <1>1, <1>3, <2>1, MoveKeepsInv
<1>. QED
  BY <1>2, <1>3 DEF Get, Await

LEMMA RequestInvNext == RequestInv /\ [RequestNext]_requestVars => RequestInv'
<1>. SUFFICES ASSUME RequestInv, [RequestNext]_requestVars
              PROVE  RequestInv'
  OBVIOUS
<1>. USE RequestAssumption DEF RequestInv, assetVars, clockVars
<1>0. served \in Int /\ served < Timeout
  BY DEF RequestTypeOK, OneSignal
<1>1. CASE SetNetworkId
  BY <1>1 DEF SetNetworkId, RequestTypeOK, ReadOneBuild, Whole, HasRead, OneSignal
<1>2. CASE Rebuild
  <2>1. /\ rebuilt' = (rpc # "idle" \/ ~Whole(assets'))
        /\ UNCHANGED <<rpc, circuit, zkConfig, attempt, clockVars, served>>
    BY <1>2 DEF Rebuild
  <2>2. PICK a \in Artifact : assets' = [assets EXCEPT ![a] = @ + 1]
    BY <1>2 DEF Rebuild
  <2>3. RequestTypeOK'
    BY <2>1, <2>2 DEF RequestTypeOK
  <2>4. ~rebuilt' => Whole(assets') /\ HasRead' = {}
    BY <2>1 DEF HasRead
  <2>5. Whole(assets') = Whole(assets)'
    BY DEF Whole
  <2>6. ReadOneBuild'
    BY <2>4, <2>5 DEF ReadOneBuild
  <2>7. OneSignal'
    BY <2>1 DEF OneSignal
  <2>. QED
    BY <2>3, <2>6, <2>7
<1>3. CASE SubmitTx
  BY <1>0, <1>3, MoveKeepsInv DEF SubmitTx, Await, RequestTypeOK
<1>4. CASE GetArtifact
  BY <1>4, GetKeepsInv DEF GetArtifact, Artifact
<1>5. CASE SerializePayload
  <2>1. /\ rpc = "serialize" /\ rpc' = "server" /\ deadline' = elapsed + Timeout
        /\ UNCHANGED <<assetVars, circuit, zkConfig, attempt, elapsed, delay, served>>
    BY <1>5 DEF SerializePayload, Await
  <2>2. RequestTypeOK'
    BY <2>1 DEF RequestTypeOK, AfterSerialize
  <2>3. ReadOneBuild'
    BY <2>1 DEF ReadOneBuild, Whole, HasRead
  <2>4. elapsed = 0 /\ attempt = 0 /\ delay = 0 /\ served < Timeout
    BY <2>1 DEF OneSignal, BeforeSerialize
  <2>5. OneSignal'
    BY <2>1, <2>4, DelaysAddUp DEF OneSignal, BeforeSerialize, AfterSerialize
  <2>. QED
    BY <2>2, <2>3, <2>5
<1>6. CASE Respond
  <2>1. /\ rpc = "server" /\ served' = elapsed /\ ~(elapsed >= deadline)
        /\ UNCHANGED <<assetVars, circuit, zkConfig>>
    BY <1>6 DEF Respond, Aborted
  <2>2. served' \in Int /\ served' < Timeout
    BY <2>1 DEF RequestTypeOK, OneSignal
  <2>3. CASE rpc' \in {"body", "failed"} /\ UNCHANGED <<attempt, clockVars>>
    BY <2>1, <2>2, <2>3, MoveKeepsInv
  <2>4. CASE Retry \/ GiveUp
    BY <2>1, <2>2, <2>4, RetryKeepsInv
  <2>. QED
    BY <1>6, <2>3, <2>4 DEF Respond
<1>7. CASE FetchRejects
  BY <1>0, <1>7, RetryKeepsInv DEF FetchRejects
<1>8. CASE DelayOver
  BY <1>0, <1>8, MoveKeepsInv DEF DelayOver, Await
<1>9. CASE Deserialize
  BY <1>0, <1>9, MoveKeepsInv DEF Deserialize, Await
<1>10. CASE Tick
  <2>1. /\ elapsed' = elapsed + 1
        /\ UNCHANGED <<assetVars, rpc, circuit, zkConfig, attempt, deadline, served>>
    BY <1>10 DEF Tick
  <2>2. ReadOneBuild'
    BY <2>1 DEF ReadOneBuild, Whole, HasRead
  <2>3. Before(attempt) \in Nat
    BY DelaysAddUp DEF RequestTypeOK
  <2>4. CASE rpc \in {"server", "body"} /\ ~Aborted /\ delay' = delay
    <3>1. elapsed < Timeout /\ delay = 0
      BY <2>4 DEF Aborted, OneSignal, RequestTypeOK
    <3>2. RequestTypeOK'
      BY <2>1, <2>4 DEF RequestTypeOK
    <3>3. elapsed' + delay' <= Timeout + Before(attempt)
      BY <2>1, <2>3, <2>4, <3>1 DEF RequestTypeOK
    <3>. QED
      BY <2>1, <2>2, <2>4, <3>1, <3>2, <3>3 DEF OneSignal, BeforeSerialize, AfterSerialize
  <2>5. CASE rpc = "delay" /\ delay > 0 /\ delay' = delay - 1
    <3>1. RequestTypeOK'
      BY <2>1, <2>5 DEF RequestTypeOK
    <3>2. elapsed' + delay' = elapsed + delay
      BY <2>1, <2>5 DEF RequestTypeOK
    <3>. QED
      BY <2>1, <2>2, <2>5, <3>1, <3>2 DEF OneSignal, BeforeSerialize, AfterSerialize
  <2>. QED
    BY <1>10, <2>4, <2>5 DEF Tick
<1>11. CASE UNCHANGED requestVars
  BY <1>11 DEF requestVars, RequestTypeOK, ReadOneBuild, Whole, HasRead, OneSignal
<1>. QED
  BY <1>1, <1>2, <1>3, <1>4, <1>5, <1>6, <1>7, <1>8, <1>9, <1>10, <1>11 DEF RequestNext

(* However time passes and attempts fail, and whatever is compiled meanwhile. *)
THEOREM RequestProvedAsAsked == RequestSpec => []ProvedAsAsked
<1>1. RequestInit => RequestInv
  BY RequestInvInit
<1>2. RequestInv /\ [RequestNext]_requestVars => RequestInv'
  BY RequestInvNext
<1>3. RequestInv => ProvedAsAsked
  <2>. SUFFICES ASSUME RequestInv
                PROVE  ProvedAsAsked
    OBVIOUS
  <2>1. ASSUME rpc = "done", circuit, ~rebuilt
        PROVE  Whole(zkConfig) /\ zkConfig["zkir"] # Unread
    <3>1. \A a \in Artifact : zkConfig[a] = assets[a]
      BY <2>1 DEF RequestInv, ReadOneBuild, HasRead
    <3>. QED
      BY <2>1, <3>1 DEF RequestInv, RequestTypeOK, ReadOneBuild, Whole, Artifact, Unread
  <2>. QED
    BY <2>1 DEF RequestInv, OneSignal, ProvedAsAsked, AfterSerialize
<1>. QED
  BY <1>1, <1>2, <1>3, PTL DEF RequestSpec

-----------------------------------------------------------------------------
(***************************************************************************)
(* Commands over a contract: however many of them share the module and the *)
(* files, and whatever they are given.                                     *)
(***************************************************************************)

CommandStages == {"none", "read", "open", "write", "import", "execute", "output", "fill",
                  "done", "failed"}

CommandTypeOK ==
  /\ source \in Nat \ {0} /\ module \in Int /\ newer \in BOOLEAN /\ raced \in BOOLEAN
  /\ pc \in [Command -> CommandStages] /\ op \in [Command -> Operation]
  /\ began \in [Command -> Nat] /\ text \in [Command -> Nat] /\ loaded \in [Command -> Int]
  /\ written \in [Command -> Nat] /\ solo \in [Command -> BOOLEAN]
  /\ DOMAIN output = OutputFile

(* Versions are of the past, and a command takes them in order. *)
VersionsInOrder ==
  \A c \in Command :
    /\ began[c] <= source /\ text[c] <= source
    /\ pc[c] = "none" => began[c] = 0
    /\ pc[c] \in {"none", "read", "open", "write", "import"} => loaded[c] = 0
    /\ pc[c] \in {"read", "open", "write", "import"} => began[c] # 0
    /\ pc[c] \in {"open", "write"} => began[c] <= text[c]

(* A module that is newer than the configuration is of its current version, and
   one that a command is about to import of no version before it began, unless
   the version was edited while it was compiled. *)
NewerIsCurrent ==
  newer /\ ~raced /\ module \notin {NoModule, Partial} => module = source

ImportNotOlder ==
  \A c \in Command :
    pc[c] = "import" /\ c \notin misled => module = Partial \/ module >= began[c]

ModuleInv ==
  CommandTypeOK /\ VersionsInOrder /\ NewerIsCurrent /\ ImportNotOlder /\ ModuleNotOlder

(* A command has opened none of its files before it executes, and one after
   the other from then on. *)
FilesInOrder ==
  \A c \in Command :
    /\ written[c] <= Len(Outputs(op[c]))
    /\ pc[c] \in {"none", "read", "open", "write", "import", "execute"} => written[c] = 0
    /\ pc[c] = "fill" => written[c] > 0
    /\ pc[c] = "done" => written[c] = Len(Outputs(op[c]))

(* Those it has written, and those it has opened, are its own. *)
FilesWhole ==
  \A c \in Command : solo[c] =>
    \A i \in 1..written[c] :
      /\ output[Outputs(op[c])[i]].by = c
      /\ i < written[c] \/ pc[c] \in {"output", "done"} => output[Outputs(op[c])[i]].whole

OutputsInv == CommandTypeOK /\ FilesInOrder /\ FilesWhole

CommandInv == ModuleInv /\ OutputsInv

(* No command has begun, and no file is there. *)
LEMMA CommandInvInit == CommandInit => CommandInv
<1>. SUFFICES ASSUME CommandInit
              PROVE  CommandInv
  OBVIOUS
<1>. USE DEF CommandInit
<1>1. CommandTypeOK
  <2>1. \A c \in Command : began[c] = 0 /\ text[c] = 0 /\ loaded[c] = 0 /\ written[c] = 0
    OBVIOUS
  <2>2. /\ began \in [Command -> Nat] /\ text \in [Command -> Nat]
        /\ loaded \in [Command -> Int] /\ written \in [Command -> Nat]
    OBVIOUS
  <2>3. pc \in [Command -> CommandStages] /\ solo \in [Command -> BOOLEAN] /\ DOMAIN output = OutputFile
    BY DEF CommandStages
  <2>4. source \in Nat \ {0} /\ module \in Int /\ op \in [Command -> Operation]
    BY DEF NoModule
  <2>5. newer \in BOOLEAN /\ raced \in BOOLEAN
    BY Zenon
  <2>. QED
    BY <2>2, <2>3, <2>4, <2>5 DEF CommandTypeOK
<1>2. VersionsInOrder /\ NewerIsCurrent /\ ImportNotOlder /\ ModuleNotOlder
  BY DEF VersionsInOrder, NewerIsCurrent, ImportNotOlder, ModuleNotOlder
<1>3. FilesInOrder
  <2>1. \A c \in Command : Len(Outputs(op[c])) >= 0
    BY DEF Outputs, Operation
  <2>. QED
    BY <2>1 DEF FilesInOrder
<1>4. FilesWhole
  BY DEF FilesWhole
<1>. QED
  BY <1>1, <1>2, <1>3, <1>4 DEF CommandInv, ModuleInv, OutputsInv

(* The files of an operation are distinct. *)
LEMMA OutputsDiffer ==
  ASSUME NEW o \in Operation
  PROVE  /\ Len(Outputs(o)) \in Nat
         /\ \A i \in 1..Len(Outputs(o)) : Outputs(o)[i] \in OutputFile
         /\ \A i, j \in 1..Len(Outputs(o)) : i # j => Outputs(o)[i] # Outputs(o)[j]
<1>1. CASE o = "deploy"
  <2>1. Outputs(o) = <<"intent", "privateState", "zswap">>
    BY <1>1 DEF Outputs
  <2>. QED
    BY <2>1 DEF OutputFile
<1>2. CASE o = "circuit"
  <2>1. Outputs(o) = <<"result", "intent", "privateState", "zswap">>
    BY <1>2 DEF Outputs
  <2>. QED
    BY <2>1 DEF OutputFile
<1>3. CASE o \in {"maintainCircuit", "maintainContract"}
  <2>1. Outputs(o) = <<"intent">>
    BY <1>3 DEF Outputs
  <2>. QED
    BY <2>1 DEF OutputFile
<1>4. CASE o = "maintain"
  <2>1. Outputs(o) = <<>>
    BY <1>4 DEF Outputs
  <2>. QED
    BY <2>1
<1>. QED
  BY <1>1, <1>2, <1>3, <1>4 DEF Operation

(* What the module steps keep: a command imports what is of a version it saw or
   of a later one. *)
LEMMA ModuleInvNext == ModuleInv /\ [CommandNext]_commandVars => ModuleInv'
<1>. SUFFICES ASSUME ModuleInv, [CommandNext]_commandVars
              PROVE  ModuleInv'
  OBVIOUS
<1>. USE DEF ModuleInv, CommandTypeOK, CommandStages, NoModule, Partial, Advance, moduleVars
<1>1. CASE Edit
  <2>0. /\ source' = source + 1 /\ newer' = FALSE /\ raced' = FALSE
        /\ UNCHANGED <<module, pc, op, began, text, loaded, written, output, solo>>
    BY <1>1 DEF Edit
  <2>1. NewerIsCurrent'
    BY <2>0 DEF NewerIsCurrent
  <2>4. source' \in Nat \ {0}
    BY <2>0
  <2>5. newer' \in BOOLEAN /\ raced' \in BOOLEAN
    BY <2>0, Zenon
  <2>6. CommandTypeOK'
    BY <2>0, <2>4, <2>5
  <2>2. VersionsInOrder'
    BY <1>1 DEF Edit, VersionsInOrder
  <2>3. ImportNotOlder' /\ ModuleNotOlder'
    BY <1>1 DEF Edit, ImportNotOlder, ModuleNotOlder
  <2>. QED
    BY <2>1, <2>2, <2>3, <2>6
<1>2. ASSUME NEW c \in Command, Stat(c)
      PROVE  ModuleInv'
  <2>1. /\ pc[c] = "none" /\ began' = [began EXCEPT ![c] = source]
        /\ misled \subseteq misled' /\ (raced => c \in misled')
        /\ UNCHANGED <<source, module, newer, raced, op, text, loaded, written, output, solo>>
    BY <1>2 DEF Stat
  <2>2. PICK to \in {"import", "read"} :
          /\ pc' = [pc EXCEPT ![c] = to]
          /\ to = "import" => ModuleIsNewer
    BY <1>2 DEF Stat
  <2>3. CommandTypeOK' /\ NewerIsCurrent'
    BY <2>1, <2>2 DEF NewerIsCurrent
  <2>4. VersionsInOrder'
    BY <2>1, <2>2 DEF VersionsInOrder
  <2>5. ImportNotOlder'
    BY <2>1, <2>2 DEF ImportNotOlder, NewerIsCurrent, ModuleIsNewer
  <2>6. ModuleNotOlder'
    BY <2>1 DEF ModuleNotOlder, VersionsInOrder
  <2>. QED
    BY <2>3, <2>4, <2>5, <2>6
<1>3. ASSUME NEW c \in Command, ReadSource(c)
      PROVE  ModuleInv'
  <2>1. CommandTypeOK' /\ NewerIsCurrent'
    BY <1>3 DEF ReadSource, NewerIsCurrent
  <2>2. VersionsInOrder'
    BY <1>3 DEF ReadSource, VersionsInOrder
  <2>3. ImportNotOlder' /\ ModuleNotOlder'
    BY <1>3 DEF ReadSource, ImportNotOlder, ModuleNotOlder
  <2>. QED
    BY <2>1, <2>2, <2>3
<1>4. ASSUME NEW c \in Command, OpenModule(c)
      PROVE  ModuleInv'
  <2>1. CommandTypeOK' /\ NewerIsCurrent'
    BY <1>4 DEF OpenModule, NewerIsCurrent
  <2>2. VersionsInOrder'
    BY <1>4 DEF OpenModule, VersionsInOrder
  <2>3. ImportNotOlder' /\ ModuleNotOlder'
    BY <1>4 DEF OpenModule, ImportNotOlder, ModuleNotOlder
  <2>. QED
    BY <2>1, <2>2, <2>3
<1>5. ASSUME NEW c \in Command, WriteModule(c)
      PROVE  ModuleInv'
  <2>1. /\ pc[c] = "write" /\ pc' = [pc EXCEPT ![c] = "import"]
        /\ module' = text[c] /\ newer' = TRUE /\ raced' = (text[c] # source)
        /\ UNCHANGED <<source, op, began, text, loaded, written, output, solo>>
    BY <1>5 DEF WriteModule
  <2>2. /\ misled \subseteq misled'
        /\ raced' => \A d \in Command : began[d] # 0 /\ loaded[d] = 0 => d \in misled'
    BY <1>5 DEF WriteModule
  <2>3. NewerIsCurrent'
    BY <2>1 DEF NewerIsCurrent
  <2>0. CommandTypeOK'
    <3>1. pc' \in [Command -> CommandStages]
      BY <2>1
    <3>2. module' \in Int /\ raced' \in BOOLEAN
      BY <2>1
    <3>. QED
      BY <2>1, <3>1, <3>2
  <2>4. VersionsInOrder'
    BY <2>1 DEF VersionsInOrder
  <2>5. ImportNotOlder'
    <3>. SUFFICES ASSUME NEW d \in Command, pc'[d] = "import", d \notin misled'
                  PROVE  module' >= began'[d]
      BY DEF ImportNotOlder
    <3>1. began[d] # 0 /\ loaded[d] = 0
      BY <2>1 DEF VersionsInOrder
    <3>2. text[c] = source
      BY <2>1, <2>2, <3>1
    <3>. QED
      BY <2>1, <3>2 DEF VersionsInOrder
  <2>6. ModuleNotOlder'
    BY <2>1, <2>2 DEF ModuleNotOlder
  <2>. QED
    BY <2>0, <2>3, <2>4, <2>5, <2>6
<1>6. ASSUME NEW c \in Command, Import(c)
      PROVE  ModuleInv'
  <2>1. CommandTypeOK' /\ NewerIsCurrent'
    BY <1>6 DEF Import, NewerIsCurrent
  <2>2. VersionsInOrder'
    BY <1>6 DEF Import, VersionsInOrder
  <2>3. ImportNotOlder' /\ ModuleNotOlder'
    BY <1>6 DEF Import, ImportNotOlder, ModuleNotOlder
  <2>. QED
    BY <2>1, <2>2, <2>3
<1>7. ASSUME NEW c \in Command, NEW to \in {"execute", "output", "fill", "done", "failed"},
             pc[c] # "none", pc' = [pc EXCEPT ![c] = to],
             UNCHANGED <<moduleVars, op, began, text, loaded>>,
             written' \in [Command -> Nat], solo' \in [Command -> BOOLEAN], DOMAIN output' = OutputFile
      PROVE  ModuleInv'
  <2>1. CommandTypeOK' /\ NewerIsCurrent'
    BY <1>7 DEF NewerIsCurrent
  <2>2. VersionsInOrder'
    BY <1>7 DEF VersionsInOrder
  <2>3. ImportNotOlder' /\ ModuleNotOlder'
    BY <1>7 DEF ImportNotOlder, ModuleNotOlder
  <2>. QED
    BY <2>1, <2>2, <2>3
<1>8. ASSUME NEW c \in Command, ExecuteStep(c) \/ OpenOutput(c) \/ WriteOutput(c) \/ Interrupt(c)
      PROVE  ModuleInv'
  <2>1. PICK to \in {"output", "fill", "done", "failed"} :
          pc[c] # "none" /\ pc' = [pc EXCEPT ![c] = to]
    BY <1>8 DEF ExecuteStep, Execute, OpenOutput, WriteOutput, Interrupt
  <2>2. /\ UNCHANGED <<moduleVars, op, began, text, loaded>>
        /\ written' \in [Command -> Nat] /\ solo' \in [Command -> BOOLEAN] /\ DOMAIN output' = OutputFile
    <3>1. CASE ExecuteStep(c) \/ Interrupt(c)
      BY <3>1 DEF ExecuteStep, Interrupt
    <3>2. CASE OpenOutput(c)
      BY <3>2 DEF OpenOutput, Touches
    <3>3. CASE WriteOutput(c)
      BY <3>3 DEF WriteOutput, Touches
    <3>. QED
      BY <1>8, <3>1, <3>2, <3>3
  <2>. QED
    BY <1>7, <2>1, <2>2
<1>9. CASE UNCHANGED commandVars
  BY <1>9 DEF commandVars, VersionsInOrder, NewerIsCurrent, ImportNotOlder, ModuleNotOlder
<1>. QED
  BY <1>1, <1>2, <1>3, <1>4, <1>5, <1>6, <1>8, <1>9 DEF CommandNext

(* What the writing steps keep: a file that is opened is a new one, and those
   before it have been written. *)
LEMMA OutputsInvNext == OutputsInv /\ CommandTypeOK' /\ [CommandNext]_commandVars => OutputsInv'
<1>. SUFFICES ASSUME OutputsInv, CommandTypeOK', [CommandNext]_commandVars
              PROVE  OutputsInv'
  OBVIOUS
<1>. USE DEF OutputsInv, CommandTypeOK, CommandStages, Advance
<1>1. ASSUME NEW c \in Command, NEW to \in {"read", "open", "write", "import", "execute", "output", "failed"},
             pc' = [pc EXCEPT ![c] = to],
             pc[c] \in {"none", "read", "open", "write", "import", "execute"} \/ to = "failed",
             UNCHANGED <<op, written, output, solo>>
      PROVE  OutputsInv'
  <2>1. FilesInOrder'
    BY <1>1 DEF FilesInOrder
  <2>2. FilesWhole'
    <3>. SUFFICES ASSUME NEW d \in Command, solo[d], NEW i \in 1..written[d]
                  PROVE  /\ output[Outputs(op[d])[i]].by = d
                         /\ i < written[d] \/ pc'[d] \in {"output", "done"}
                              => output[Outputs(op[d])[i]].whole
      BY <1>1 DEF FilesWhole
    <3>1. CASE d = c
      <4>1. written[d] # 0
        OBVIOUS
      <4>2. pc'[d] = "failed"
        BY <1>1, <3>1, <4>1 DEF FilesInOrder
      <4>. QED
        BY <4>2 DEF FilesWhole
    <3>2. CASE d # c
      BY <1>1, <3>2 DEF FilesWhole
    <3>. QED
      BY <3>1, <3>2
  <2>. QED
    BY <2>1, <2>2
<1>2. CASE Edit \/ UNCHANGED commandVars
  <2>1. UNCHANGED <<pc, op, written, output, solo>>
    BY <1>2 DEF Edit, commandVars
  <2>. QED
    BY <2>1 DEF FilesInOrder, FilesWhole
<1>3. ASSUME NEW c \in Command, \/ Stat(c) \/ ReadSource(c) \/ OpenModule(c) \/ WriteModule(c)
                                \/ Import(c) \/ ExecuteStep(c) \/ Interrupt(c)
      PROVE  OutputsInv'
  <2>1. UNCHANGED <<op, written, output, solo>>
    BY <1>3 DEF Stat, ReadSource, OpenModule, WriteModule, Import, ExecuteStep, Interrupt
  <2>2. PICK to \in {"read", "open", "write", "import", "execute", "output", "failed"} :
          /\ pc' = [pc EXCEPT ![c] = to]
          /\ pc[c] \in {"none", "read", "open", "write", "import", "execute"} \/ to = "failed"
    BY <1>3 DEF Stat, ReadSource, OpenModule, WriteModule, Import, ExecuteStep, Execute, Interrupt
  <2>. QED
    BY <1>1, <2>1, <2>2
<1>4. ASSUME NEW c \in Command, OpenOutput(c)
      PROVE  OutputsInv'
  <2>. DEFINE files == Outputs(op[c])
              n == written[c] + 1
  <2>0. /\ n \in 1..Len(files) /\ Len(files) \in Nat
        /\ \A i \in 1..Len(files) : files[i] \in OutputFile
        /\ \A i, j \in 1..Len(files) : i # j => files[i] # files[j]
    BY <1>4, OutputsDiffer DEF OpenOutput
  <2>1. /\ pc[c] = "output" /\ pc' = [pc EXCEPT ![c] = "fill"] /\ UNCHANGED op
        /\ written' = [written EXCEPT ![c] = n]
        /\ output' = [output EXCEPT ![files[n]] = [by |-> c, whole |-> FALSE, state |-> private[c]]]
        /\ solo' = [d \in Command |-> solo[d] /\ (d = c \/ written[d] = 0)]
    BY <1>4 DEF OpenOutput, Touches
  <2>2. FilesInOrder'
    BY <2>0, <2>1 DEF FilesInOrder
  <2>3. \A i \in 1..(n - 1) : output'[files[i]] = output[files[i]]
    <3>. TAKE i \in 1..(n - 1)
    <3>0. i \in 1..Len(files) /\ n \in 1..Len(files) /\ i # n
      BY <2>0
    <3>1. files[i] \in OutputFile /\ files[i] # files[n]
      BY <2>0, <3>0
    <3>. QED
      BY <2>1, <3>1
  <2>4. output'[files[n]].by = c
    BY <2>0, <2>1
  <2>. HIDE DEF files, n
  <2>5. ASSUME solo'[c], NEW i \in 1..n
        PROVE  output'[files[i]].by = c /\ (i < n => output'[files[i]].whole)
    <3>1. CASE i = n
      BY <2>0, <2>4, <3>1
    <3>2. CASE i # n
      <4>1. i \in 1..(n - 1) /\ i <= written[c] /\ solo[c]
        BY <2>0, <2>1, <2>5, <3>2 DEF n
      <4>. QED
        BY <2>1, <2>3, <4>1 DEF FilesWhole, files
    <3>. QED
      BY <3>1, <3>2
  <2>6. \A d \in Command : d # c /\ solo'[d] => written'[d] = 0
    BY <2>1
  <2>7. FilesWhole'
    <3>. SUFFICES ASSUME NEW d \in Command, solo'[d], NEW i \in 1..written'[d]
                  PROVE  /\ output'[Outputs(op'[d])[i]].by = d
                         /\ i < written'[d] \/ pc'[d] \in {"output", "done"}
                              => output'[Outputs(op'[d])[i]].whole
      BY DEF FilesWhole
    <3>1. d = c
      BY <2>6
    <3>2. written'[c] = n /\ pc'[c] = "fill" /\ Outputs(op'[c]) = files
      BY <2>1 DEF files
    <3>. QED
      BY <2>5, <3>1, <3>2
  <2>. QED
    BY <2>2, <2>7
<1>5. ASSUME NEW c \in Command, WriteOutput(c)
      PROVE  OutputsInv'
  <2>. DEFINE files == Outputs(op[c])
              n == written[c]
  <2>0. /\ n \in 1..Len(files) /\ Len(files) \in Nat
        /\ \A i \in 1..Len(files) : files[i] \in OutputFile
        /\ \A i, j \in 1..Len(files) : i # j => files[i] # files[j]
    BY <1>5, OutputsDiffer DEF WriteOutput, FilesInOrder
  <2>1. PICK whole \in BOOLEAN :
          /\ pc' = [pc EXCEPT ![c] = IF ~whole THEN "failed"
                                     ELSE IF n = Len(files) THEN "done" ELSE "output"]
          /\ output' = [output EXCEPT ![files[n]] = [by |-> c, whole |-> whole, state |-> private[c]]]
          /\ solo' = [d \in Command |-> solo[d] /\ (d = c \/ written[d] = 0)]
    BY <1>5 DEF WriteOutput, Touches
  <2>2. pc[c] = "fill" /\ UNCHANGED <<op, written>>
    BY <1>5 DEF WriteOutput
  <2>3. FilesInOrder'
    BY <2>0, <2>1, <2>2 DEF FilesInOrder
  <2>4. \A i \in 1..(n - 1) : output'[files[i]] = output[files[i]]
    <3>. TAKE i \in 1..(n - 1)
    <3>0. i \in 1..Len(files) /\ n \in 1..Len(files) /\ i # n
      BY <2>0
    <3>1. files[i] \in OutputFile /\ files[i] # files[n]
      BY <2>0, <3>0
    <3>. QED
      BY <2>1, <3>1
  <2>5. output'[files[n]].by = c /\ output'[files[n]].whole = whole
    BY <2>0, <2>1
  <2>6. pc'[c] \in {"output", "done"} => whole
    BY <2>1
  <2>. HIDE DEF files, n
  <2>7. ASSUME solo'[c], NEW i \in 1..n
        PROVE  /\ output'[files[i]].by = c
               /\ i < n \/ pc'[c] \in {"output", "done"} => output'[files[i]].whole
    <3>1. CASE i = n
      BY <2>0, <2>5, <2>6, <3>1
    <3>2. CASE i # n
      <4>1. i \in 1..(n - 1) /\ i < written[c] /\ solo[c]
        BY <2>0, <2>1, <2>7, <3>2 DEF n
      <4>. QED
        BY <2>4, <4>1 DEF FilesWhole, files
    <3>. QED
      BY <3>1, <3>2
  <2>8. \A d \in Command : d # c /\ solo'[d] => written'[d] = 0
    BY <2>1, <2>2
  <2>9. FilesWhole'
    <3>. SUFFICES ASSUME NEW d \in Command, solo'[d], NEW i \in 1..written'[d]
                  PROVE  /\ output'[Outputs(op'[d])[i]].by = d
                         /\ i < written'[d] \/ pc'[d] \in {"output", "done"}
                              => output'[Outputs(op'[d])[i]].whole
      BY DEF FilesWhole
    <3>1. d = c
      BY <2>8
    <3>2. written'[c] = n /\ Outputs(op'[c]) = files
      BY <2>2 DEF files, n
    <3>. QED
      BY <2>7, <3>1, <3>2
  <2>. QED
    BY <2>3, <2>9
<1>. QED
  BY <1>2, <1>3, <1>4, <1>5 DEF CommandNext

(* A command runs the configuration as it was when it began or a later one,
   however many commands compile the file and whenever it is edited, unless a
   version was edited while it was compiled. *)
THEOREM CommandRunsCurrent == CommandSpec => []ModuleNotOlder
<1>1. CommandInit => ModuleInv
  BY CommandInvInit DEF CommandInv
<1>2. ModuleInv => ModuleNotOlder
  BY DEF ModuleInv
<1>. QED
  BY <1>1, <1>2, ModuleInvNext, PTL DEF CommandSpec

(* The files of a command that no other wrote beside are its own and whole, up
   to the one it was writing, whatever was interrupted before. *)
THEOREM CommandFilesAgree == CommandSpec => []OutputsAgree
<1>1. CommandInit => CommandInv
  BY CommandInvInit
<1>2. CommandInv /\ [CommandNext]_commandVars => CommandInv'
  BY ModuleInvNext, OutputsInvNext DEF CommandInv, ModuleInv
<1>3. CommandInv => OutputsAgree
  BY DEF CommandInv, OutputsInv, FilesInOrder, FilesWhole, OutputsAgree
<1>. QED
  BY <1>1, <1>2, <1>3, PTL DEF CommandSpec

=============================================================================
