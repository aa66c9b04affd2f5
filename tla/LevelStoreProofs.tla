-------------------------- MODULE LevelStoreProofs --------------------------
(***************************************************************************)
(* For every set of operations and every order the caller imposes on them: *)
(* the provider implements a key-value store, and the lock of the database *)
(* only ever turns away operations that overlap.                           *)
(***************************************************************************)
EXTENDS LevelStore, TLAPS

(* An operation has no outcome before its thunk or its failure to open. *)
NoOutcomeYet ==
  \A o \in Op : pc[o] \in {"idle", "open", "openSub", "thunk"} => outcome[o] = "none"

(* An open connection belongs to an operation that has not ended. *)
ConnectedInside == \A o \in connected : pc[o] \in Inside

(* What an invoked operation awaited has ended. *)
Awaited == \A p \in Op : pc[p] # "idle" => \A o \in After[p] : pc[o] \in Ended

LevelInv ==
  LevelTypeOK /\ NoOutcomeYet /\ ConnectedInside /\ Awaited /\ LockedOnlyByOverlap

(* The provider begins with no operation under way. *)
LEMMA LevelInvInit == LevelInit => LevelInv
BY LevelAssumption
   DEF LevelInit, LevelInv, LevelTypeOK, NoOutcomeYet, ConnectedInside,
       Awaited, LockedOnlyByOverlap, Alone, Inside

(* withSubLevel closes the database in its finally block, before it resolves
   or rejects. *)
LEMMA LevelInvNext == LevelInv /\ [LevelNext]_levelVars => LevelInv'
<1>. USE LevelAssumption DEF LevelInv, LevelTypeOK, Failures, Ended, Inside
<1>. SUFFICES ASSUME LevelInv, [LevelNext]_levelVars
              PROVE  LevelInv'
  OBVIOUS
<1>1. ASSUME NEW o \in Op, Invoke(o)
      PROVE  LevelInv'
  BY <1>1 DEF Invoke, Goto, NoOutcomeYet, ConnectedInside, Awaited,
              LockedOnlyByOverlap, Alone
<1>2. ASSUME NEW o \in Op, Open(o)
      PROVE  LevelInv'
  BY <1>2 DEF Open, Goto, NoOutcomeYet, ConnectedInside, Awaited,
              LockedOnlyByOverlap, Alone
<1>3. ASSUME NEW o \in Op, FailToOpen(o)
      PROVE  LevelInv'
  <2>1. /\ pc[o] \in {"open", "openSub"}
        /\ pc' = [pc EXCEPT ![o] = "closeSub"]
        /\ UNCHANGED <<contents, connected>>
    BY <1>3 DEF FailToOpen, Goto
  <2>2. \E failure \in Failures : outcome' = [outcome EXCEPT ![o] = failure]
    BY <1>3 DEF FailToOpen
  <2>3. LevelTypeOK'
    BY <2>1, <2>2
  <2>4. NoOutcomeYet'
    BY <2>1, <2>2 DEF NoOutcomeYet
  <2>5. ConnectedInside' /\ Awaited'
    BY <2>1 DEF ConnectedInside, Awaited
  <2>6. CASE outcome' = [outcome EXCEPT ![o] = "locked"] /\ connected # {}
    <3>1. PICK p \in connected : pc[p] \in Inside
      BY <2>6 DEF ConnectedInside
    <3>2. pc[o] = "open"
      BY <1>3, <2>6 DEF FailToOpen, Goto
    <3>3. p \in Op \ {o} /\ p \notin After[o] /\ o \notin After[p]
      BY <3>1, <3>2 DEF Awaited
    <3>. QED
      BY <2>3, <2>4, <2>5, <2>6, <3>3 DEF LockedOnlyByOverlap, Alone
  <2>7. CASE outcome' = [outcome EXCEPT ![o] = "ioError"]
    BY <2>3, <2>4, <2>5, <2>7 DEF LockedOnlyByOverlap, Alone
  <2>. QED
    BY <1>3, <2>6, <2>7 DEF FailToOpen
<1>4. ASSUME NEW o \in Op, OpenSub(o)
      PROVE  LevelInv'
  BY <1>4 DEF OpenSub, Goto, NoOutcomeYet, ConnectedInside, Awaited,
              LockedOnlyByOverlap, Alone
<1>5. ASSUME NEW o \in Op, Thunk(o)
      PROVE  LevelInv'
  <2>1. /\ Stored(o) \in [Levels -> [Ids -> Values \cup {Null}]]
        /\ Found(o) \in Values \cup {Null}
    BY DEF Stored, Found, Written
  <2>2. PICK found \in Values \cup {Null, "ioError"} :
          outcome' = [outcome EXCEPT ![o] = found]
    BY <1>5, <2>1 DEF Thunk
  <2>3. /\ contents' \in [Levels -> [Ids -> Values \cup {Null}]]
        /\ connected' = connected
        /\ pc[o] = "thunk" /\ pc' = [pc EXCEPT ![o] = "closeSub"]
    BY <1>5, <2>1 DEF Thunk, Goto
  <2>4. LevelTypeOK'
    BY <2>2, <2>3
  <2>5. NoOutcomeYet' /\ ConnectedInside' /\ Awaited'
    BY <2>2, <2>3 DEF NoOutcomeYet, ConnectedInside, Awaited
  <2>6. found # "locked"
    OBVIOUS
  <2>7. LockedOnlyByOverlap'
    BY <2>2, <2>6 DEF LockedOnlyByOverlap, Alone
  <2>. QED
    BY <2>4, <2>5, <2>7
<1>6. ASSUME NEW o \in Op, CloseSub(o)
      PROVE  LevelInv'
  BY <1>6 DEF CloseSub, Goto, NoOutcomeYet, ConnectedInside, Awaited,
              LockedOnlyByOverlap, Alone
<1>7. ASSUME NEW o \in Op, Close(o)
      PROVE  LevelInv'
  BY <1>7 DEF Close, Goto, NoOutcomeYet, ConnectedInside, Awaited,
              LockedOnlyByOverlap, Alone
<1>8. CASE Crash
  BY <1>8 DEF Crash, NoOutcomeYet, ConnectedInside, Awaited,
              LockedOnlyByOverlap, Alone
<1>9. CASE UNCHANGED levelVars
  BY <1>9 DEF levelVars, NoOutcomeYet, ConnectedInside, Awaited,
              LockedOnlyByOverlap, Alone
<1>. QED
  BY <1>1, <1>2, <1>3, <1>4, <1>5, <1>6, <1>7, <1>8, <1>9 DEF LevelNext, LevelStep

(* The invariant holds whatever the operations do. *)
LEMMA LevelInvariant == LevelSpec => []LevelInv
BY LevelInvInit, LevelInvNext, PTL DEF LevelSpec

(* Every variable keeps its type. *)
THEOREM LevelTypeCorrect == LevelSpec => []LevelTypeOK
<1>1. LevelInv => LevelTypeOK
  BY DEF LevelInv
<1>. QED
  BY <1>1, LevelInvariant, PTL

(* An operation that its caller lets overlap with no other never meets the
   lock, with or without an exclusive database. *)
THEOREM OnlyOverlapMeetsLock == LevelSpec => []LockedOnlyByOverlap
<1>1. LevelInv => LockedOnlyByOverlap
  BY DEF LevelInv
<1>. QED
  BY <1>1, LevelInvariant, PTL

-----------------------------------------------------------------------------
(* Refinement *)

(* What a thunk writes is what the abstract operation leaves behind. *)
LEMMA ThunkIsEffect ==
  ASSUME LevelTypeOK, NEW o \in Op, contents' = Stored(o)
  PROVE  Store!Effect(o)
<1>. USE LevelAssumption DEF LevelTypeOK, Kinds, Stored, InScope, Written
<1>1. CASE Kind[o] = "set"
  <2>1. Stored(o) = [contents EXCEPT ![Level[o]][Id[o]] = Value[o]]
    BY <1>1
  <2>. QED
    BY <1>1, <2>1 DEF Store!Effect
<1>2. CASE Kind[o] = "remove"
  <2>1. Stored(o) = [contents EXCEPT ![Level[o]][Id[o]] = Null]
    BY <1>2
  <2>. QED
    BY <1>2, <2>1 DEF Store!Effect
<1>3. CASE Kind[o] = "clear"
  <2>1. Stored(o) = [contents EXCEPT ![Level[o]] = [i \in Ids |-> Null]]
    BY <1>3
  <2>. QED
    BY <1>3, <2>1 DEF Store!Effect
<1>4. CASE Kind[o] = "get"
  <2>1. Stored(o) = contents
    BY <1>4
  <2>. QED
    BY <1>4, <2>1 DEF Store!Effect
<1>. QED
  BY <1>1, <1>2, <1>3, <1>4

(* The thunk is the moment an operation takes effect; a failure to open is a
   refusal; every other step is invisible. *)
LEMMA LevelStepSimulation ==
  LevelInv /\ [LevelNext]_levelVars => [Store!Next]_<<contents, Answer>>
<1>. SUFFICES ASSUME LevelInv, [LevelNext]_levelVars
              PROVE  Store!Next \/ UNCHANGED <<contents, Answer>>
  OBVIOUS
<1>. USE LevelAssumption DEF LevelInv, LevelTypeOK, Failures
<1>1. ASSUME NEW o \in Op, Thunk(o)
      PROVE  Store!Next
  <2>1. outcome[o] = "none"
    BY <1>1 DEF Thunk, Goto, NoOutcomeYet
  <2>2. /\ contents' = Stored(o) => Store!Effect(o)
        /\ Found(o) = Store!Returned(o)
    BY ThunkIsEffect DEF Found, Store!Returned
  <2>3. Found(o) \in Values \cup {Null}
    BY DEF Found
  <2>4. Answer[o] = Store!Unanswered
    BY <2>1 DEF Answer, Store!Unanswered
  <2>5. CASE contents' = Stored(o) /\ outcome' = [outcome EXCEPT ![o] = Found(o)]
    <3>1. Answer' = [Answer EXCEPT ![o] = Store!Returned(o)]
      BY <2>2, <2>3, <2>5 DEF Answer
    <3>. QED
      BY <2>2, <2>4, <2>5, <3>1 DEF Store!Next, Store!Perform
  <2>6. CASE /\ contents' \in {contents, Stored(o)}
             /\ outcome' = [outcome EXCEPT ![o] = "ioError"]
    <3>1. Answer' = [Answer EXCEPT ![o] = Store!Rejected]
      BY <2>6 DEF Answer, Store!Rejected
    <3>. QED
      BY <2>2, <2>4, <2>6, <3>1 DEF Store!Next, Store!Perform, Store!Refuse
  <2>. QED
    BY <1>1, <2>5, <2>6 DEF Thunk
<1>2. ASSUME NEW o \in Op, FailToOpen(o)
      PROVE  Store!Next
  <2>1. Answer[o] = Store!Unanswered
    BY <1>2 DEF FailToOpen, Goto, NoOutcomeYet, Answer, Store!Unanswered
  <2>2. Answer' = [Answer EXCEPT ![o] = Store!Rejected]
    BY <1>2 DEF FailToOpen, Answer, Store!Rejected
  <2>. QED
    BY <1>2, <2>1, <2>2 DEF FailToOpen, Store!Next, Store!Refuse
<1>3. CASE UNCHANGED <<contents, outcome>>
  BY <1>3 DEF Answer
<1>. QED
  BY <1>1, <1>2, <1>3 DEF LevelNext, LevelStep, Invoke, Open, OpenSub,
     CloseSub, Close, Crash, levelVars

(* However its operations overlap, fail or die with the process, the provider
   is a key-value store. *)
THEOREM LevelStoreIsKeyValueStore == LevelSpec => KeyValueSpec
<1>1. LevelInit => Store!Init
  BY DEF LevelInit, Failures, Answer, Store!Init, Store!Empty, Store!Unanswered
<1>. QED
  BY <1>1, LevelInvariant, LevelStepSimulation, PTL
     DEF LevelSpec, KeyValueSpec, Store!Spec

=============================================================================
