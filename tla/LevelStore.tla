----------------------------- MODULE LevelStore -----------------------------
(***************************************************************************)
(* levelPrivateStateProvider: each operation opens the Level database and  *)
(* one of its sub-levels, does its work and closes both.  The operations   *)
(* of one process may overlap.  On Node.js, Level is LevelDB, whose lock   *)
(* lets one connection at a time open the database and rejects the others  *)
(* at once; in a browser it is IndexedDB, which has no such lock.          *)
(***************************************************************************)
CONSTANTS
  Op, Kind, Level, Id, Value, Levels, Ids, Values, Null,  \* as in KeyValueStore
  After,      \* After[o]: operations that the caller awaits before o
  Exclusive,  \* whether an open database excludes other connections
  MayReject,  \* whether opening, reading or writing may fail
  MayCrash    \* whether the process may crash

Kinds == {"get", "set", "remove", "clear"}

Failures == {"locked", "ioError"}

ASSUME LevelAssumption ==
  /\ Kind \in [Op -> Kinds]
  /\ Level \in [Op -> Levels]
  /\ Id \in [Op -> Ids]
  /\ Value \in [Op -> Values]
  /\ After \in [Op -> SUBSET Op]
  /\ Null \notin Values
  /\ (Values \cup {Null}) \cap (Failures \cup {"none", "rejected"}) = {}
  /\ Exclusive \in BOOLEAN
  /\ MayReject \in BOOLEAN
  /\ MayCrash \in BOOLEAN

VARIABLES
  contents,   \* what the database holds, per sub-level and id
  connected,  \* the operations whose connection to the database is open
  outcome,    \* what each operation will resolve or reject with
  pc          \* the call each operation awaits

levelVars == <<contents, connected, outcome, pc>>

Ended == {"resolved", "failed", "lost"}

Inside == {"openSub", "thunk", "closeSub", "close"}

LevelTypeOK ==
  /\ contents \in [Levels -> [Ids -> Values \cup {Null}]]
  /\ connected \subseteq Op
  /\ outcome \in [Op -> Values \cup {Null, "none"} \cup Failures]
  /\ pc \in [Op -> {"idle", "open"} \cup Inside \cup Ended]

LevelInit ==
  /\ contents = [l \in Levels |-> [i \in Ids |-> Null]]
  /\ connected = {}
  /\ outcome = [o \in Op |-> "none"]
  /\ pc = [o \in Op |-> "idle"]

-----------------------------------------------------------------------------

Goto(o, from, to) ==
  /\ pc[o] = from
  /\ pc' = [pc EXCEPT ![o] = to]

Invoke(o) ==
  /\ \A p \in After[o] : pc[p] \in Ended
  /\ Goto(o, "idle", "open")
  /\ UNCHANGED <<contents, connected, outcome>>

(* level.open(), which takes the lock of the database. *)
Open(o) ==
  /\ Exclusive => connected = {}
  /\ Goto(o, "open", "openSub")
  /\ connected' = connected \cup {o}
  /\ UNCHANGED <<contents, outcome>>

(* The rejection of level.open() or subLevel.open() is kept while the finally
   block closes what was opened. *)
FailToOpen(o) ==
  /\ \/ /\ Exclusive /\ connected # {}
        /\ Goto(o, "open", "closeSub")
        /\ outcome' = [outcome EXCEPT ![o] = "locked"]
     \/ /\ MayReject
        /\ Goto(o, "open", "closeSub") \/ Goto(o, "openSub", "closeSub")
        /\ outcome' = [outcome EXCEPT ![o] = "ioError"]
  /\ UNCHANGED <<contents, connected>>

OpenSub(o) ==
  /\ Goto(o, "openSub", "thunk")
  /\ UNCHANGED <<contents, connected, outcome>>

(* Mutant: clearing is done on the database, not on the sub-level. *)
InDatabase(o, l, i) ==
  Kind[o] # "clear" => l = Level[o] /\ i = Id[o]

(* The parts of the database the work of an operation is limited to. *)
InScope(o, l, i) ==
  /\ l = Level[o]
  /\ Kind[o] # "clear" => i = Id[o]

Written(o) == IF Kind[o] = "set" THEN Value[o] ELSE Null

Stored(o) ==
  [l \in Levels |-> [i \in Ids |->
     IF Kind[o] # "get" /\ InScope(o, l, i) THEN Written(o) ELSE contents[l][i]]]

(* Mutant: the lack of a value is not converted to null. *)
FoundUnconverted(o) ==
  IF Kind[o] = "get" /\ contents[Level[o]][Id[o]] # Null
  THEN contents[Level[o]][Id[o]]
  ELSE "undefined"

Found(o) == IF Kind[o] = "get" THEN contents[Level[o]][Id[o]] ELSE Null

(* The thunk: one read or one write of the sub-level. *)
Thunk(o) ==
  /\ Goto(o, "thunk", "closeSub")
  /\ \/ /\ contents' = Stored(o)
        /\ outcome' = [outcome EXCEPT ![o] = Found(o)]
     \/ /\ MayReject
        /\ contents' \in {contents, Stored(o)}
        /\ outcome' = [outcome EXCEPT ![o] = "ioError"]
  /\ UNCHANGED connected

CloseSub(o) ==
  /\ Goto(o, "closeSub", "close")
  /\ UNCHANGED <<contents, connected, outcome>>

(* Mutant: the database is only closed after the thunk has resolved. *)
CloseOnSuccess(o) ==
  /\ Goto(o, "close", IF outcome[o] \in Failures THEN "failed" ELSE "resolved")
  /\ connected' = IF outcome[o] \in Failures THEN connected ELSE connected \ {o}
  /\ UNCHANGED <<contents, outcome>>

(* level.close() releases the lock before the operation resolves or rejects. *)
Close(o) ==
  /\ Goto(o, "close", IF outcome[o] \in Failures THEN "failed" ELSE "resolved")
  /\ connected' = connected \ {o}
  /\ UNCHANGED <<contents, outcome>>

(* The operating system closes what a dead process had open. *)
Crash ==
  /\ MayCrash
  /\ \E o \in Op : pc[o] \notin {"idle"} \cup Ended
  /\ pc' = [o \in Op |-> IF pc[o] \in {"idle"} \cup Ended THEN pc[o] ELSE "lost"]
  /\ connected' = {}
  /\ UNCHANGED <<contents, outcome>>

LevelStep(o) ==
  Open(o) \/ FailToOpen(o) \/ OpenSub(o) \/ Thunk(o) \/ CloseSub(o) \/ Close(o)

LevelNext ==
  \/ \E o \in Op : Invoke(o)
  \/ \E o \in Op : LevelStep(o)
  \/ Crash

LevelSpec == LevelInit /\ [][LevelNext]_levelVars

(* Level settles each call; the caller need not make any. *)
FairLevelSpec == LevelSpec /\ \A o \in Op : WF_levelVars(LevelStep(o))

-----------------------------------------------------------------------------
(* Properties *)

(* However operations overlap, fail or die, each takes effect at most once
   and only on its own sub-level and id, a read returns what was stored at
   that moment, and an operation that the lock turned away did nothing. *)
Answer == [o \in Op |-> IF outcome[o] \in Failures THEN "rejected" ELSE outcome[o]]
Store == INSTANCE KeyValueStore WITH answer <- Answer
KeyValueSpec == Store!Spec

(* An operation that overlaps with no other one by the order of its caller. *)
Alone(o) == \A p \in Op \ {o} : o \in After[p] \/ p \in After[o]

(* An operation that is awaited alone never meets the lock: whatever other
   operations overlapped, failed or died before, all of them have closed the
   database by the time they have resolved or rejected. *)
LockedOnlyByOverlap == \A o \in Op : Alone(o) => outcome[o] # "locked"

(* The lock of the database is always given back. *)
DatabaseReleased == connected # {} ~> connected = {}

=============================================================================
