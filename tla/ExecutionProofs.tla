-------------------------- MODULE ExecutionProofs --------------------------
(***************************************************************************)
(* Theorems about Execution, for every plan, platform and set of runs.     *)
(***************************************************************************)
EXTENDS Execution, TLAPS

-----------------------------------------------------------------------------
(***************************************************************************)
(* Lemmas about the operators of the model.                                *)
(***************************************************************************)

\* A read of the platform, lagging or not, returns a record or nothing.
LEMMA ReadType ==
    ASSUME target \in [Key -> Record], NEW k \in Key
    PROVE  Read(k) \in Record
BY DEF Read, Record

\* A read keeps every visibility counter within its range.
LEMMA ObserveType ==
    ASSUME pending \in [Key -> 0..ReplicationDelay], NEW k \in Key, Observe(k)
    PROVE  pending' \in [Key -> 0..ReplicationDelay]
BY PlatformAssumption DEF Observe

\* So does a write, and it stores a record.
LEMMA PutType ==
    ASSUME target \in [Key -> Record], pending \in [Key -> 0..ReplicationDelay],
           NEW k \in Key, NEW record \in Record, Put(k, record)
    PROVE  /\ target' \in [Key -> Record]
           /\ pending' \in [Key -> 0..ReplicationDelay]
BY PlatformAssumption DEF Put

\* Reversing inverse operations gives inverse operations.
LEMMA ReversedType ==
    ASSUME NEW s \in Seq(Inverse)
    PROVE  Reversed(s) \in Seq(Inverse)
<1>1. Len(s) \in Nat
  OBVIOUS
<1>2. \A i \in 1..Len(s) : s[Len(s) + 1 - i] \in Inverse
  BY <1>1
<1>3. Reversed(s) \in [1..Len(s) -> Inverse]
  BY <1>2 DEF Reversed
<1> QED
  BY <1>1, <1>3

-----------------------------------------------------------------------------
(***************************************************************************)
(* Type correctness.                                                       *)
(***************************************************************************)

\* Once the preview found a difference, the loop is at an operation.
AtOperation == pc \in {"capture", "write", "confirm"} => op \in Op

\* TypeOK as an inductive invariant.
TypeInv == TypeOK /\ AtOperation

\* The initial states are typed.
LEMMA InitType == Init => TypeInv
BY PlanAssumption, PlatformAssumption
   DEF Init, TypeInv, TypeOK, AtOperation, Record, RunRecord, NoRecord,
       NoBundle, Bundle, RunState, Mode, Status, Op, Inverse

\* A result is recorded for the operation at the loop head.
LEMMA RecordType ==
    ASSUME TypeOK, op \in Op, NEW result \in Status, Record_(result)
    PROVE  /\ status' \in [Op -> Status] /\ op' \in 1..NumOps + 1
           /\ pc' = "next" /\ tries' = 0 /\ pre' \in Record
BY PlanAssumption DEF TypeOK, Record_, Op, Record

\* The bookkeeping of a success keeps its types.
LEMMA SucceedType ==
    ASSUME TypeOK, op \in Op, Succeed
    PROVE  /\ status' \in [Op -> Status] /\ op' \in 1..NumOps + 1
           /\ pc' = "next" /\ tries' = 0 /\ pre' \in Record
           /\ cursor' \in 0..NumOps /\ inverse' \in Seq(Inverse)
<1>1. [key |-> KeyOf[op], record |-> pre] \in Inverse
  BY PlanAssumption DEF TypeOK, Inverse
<1>2. Record_("SUCCEEDED") /\ "SUCCEEDED" \in Status
  BY DEF Succeed, Status
<1>3. /\ status' \in [Op -> Status] /\ op' \in 1..NumOps + 1
      /\ pc' = "next" /\ tries' = 0 /\ pre' \in Record
  BY <1>2, RecordType
<1> QED
  BY <1>1, <1>3, PlanAssumption DEF TypeOK, Succeed, Op

\* A retry keeps the operation; a quarantine moves on.
LEMMA RetryType ==
    ASSUME TypeOK, op \in Op, pc = "write", NEW retryable \in BOOLEAN,
           RetryOrQuarantine(retryable)
    PROVE  /\ status' \in [Op -> Status] /\ op' \in 1..NumOps + 1
           /\ pc' \in {"next", "write"} /\ tries' \in 0..MaxAttempts
           /\ pre' \in Record
           /\ pc' = "write" => op' = op
           /\ UNCHANGED <<cursor, inverse>>
<1>1. CASE retryable /\ tries < MaxAttempts
  BY <1>1, PlatformAssumption DEF TypeOK, RetryOrQuarantine
<1>2. CASE ~(retryable /\ tries < MaxAttempts)
  BY <1>2, RecordType, PlatformAssumption
     DEF TypeOK, RetryOrQuarantine, Status
<1> QED
  BY <1>1, <1>2

\* Every step keeps every variable in its type.
LEMMA NextType == TypeInv /\ [Next]_vars => TypeInv'
<1> SUFFICES ASSUME TypeInv, [Next]_vars PROVE TypeInv'
  OBVIOUS
<1> USE PlanAssumption, PlatformAssumption DEF TypeInv, AtOperation
<1>1. ASSUME NEW r \in Run, NEW mode \in Mode, NEW resume \in BOOLEAN,
             Execute(r, mode, resume)
      PROVE  TypeInv'
  <2>1. Started(mode, resume, store[r]) \in RunRecord
    BY DEF TypeOK, Started, RunRecord, RunState, NoBundle, Bundle
  <2>2. store' \in [Run -> RunRecord]
    BY <1>1, <2>1 DEF TypeOK, Execute
  <2>3. from' \in 0..NumOps /\ op' \in 1..NumOps + 1
    BY <1>1 DEF TypeOK, Execute, RunRecord
  <2> QED
    BY <1>1, <2>2, <2>3 DEF TypeOK, Execute, Record, Status
<1>2. CASE Admit
  BY <1>2 DEF TypeOK, Admit, engineVars, observers
<1>3. CASE Refuse
  <2>1. [store[run] EXCEPT !.state = "FAILED", !.pause = FALSE] \in RunRecord
    BY DEF TypeOK, RunRecord, RunState
  <2> QED
    BY <1>3, <2>1 DEF TypeOK, Refuse, engineVars
<1>4. CASE PreviewOnly
  <2>1. op \in Op /\ KeyOf[op] \in Key
    BY <1>4 DEF TypeOK, PreviewOnly, Op
  <2> QED
    BY <1>4, <2>1, ObserveType
       DEF TypeOK, PreviewOnly, observers, Status, Op
<1>5. CASE Block
  <2>1. op \in Op
    BY <1>5 DEF TypeOK, Block, Op
  <2>2. Record_("BLOCKED_BY_DEPENDENCY") /\ "BLOCKED_BY_DEPENDENCY" \in Status
    BY <1>5 DEF Block, Status
  <2>3. /\ status' \in [Op -> Status] /\ op' \in 1..NumOps + 1
        /\ pc' = "next" /\ tries' = 0 /\ pre' \in Record
    BY <2>1, <2>2, RecordType
  <2> QED
    BY <1>5, <2>3 DEF TypeOK, Block, observers
<1>6. CASE Skip
  <2>1. op \in Op /\ KeyOf[op] \in Key
    BY <1>6 DEF TypeOK, Skip, Op
  <2>2. Record_("SKIPPED_NO_CHANGE") /\ "SKIPPED_NO_CHANGE" \in Status
    BY <1>6 DEF Skip, Status
  <2>3. /\ status' \in [Op -> Status] /\ op' \in 1..NumOps + 1
        /\ pc' = "next" /\ tries' = 0 /\ pre' \in Record
    BY <2>1, <2>2, RecordType
  <2> QED
    BY <1>6, <2>1, <2>3, ObserveType DEF TypeOK, Skip, observers, Op
<1>7. CASE WouldChange
  <2>1. op \in Op /\ KeyOf[op] \in Key
    BY <1>7 DEF TypeOK, WouldChange, Op
  <2> QED
    BY <1>7, <2>1, ObserveType DEF TypeOK, WouldChange, engineVars, observers
<1>8. CASE Capture
  <2>1. op \in Op /\ KeyOf[op] \in Key
    BY <1>8 DEF Capture
  <2> QED
    BY <1>8, <2>1, ObserveType, ReadType DEF TypeOK, Capture, observers
<1>9. CASE WriteAccepted
  <2>1. op \in Op /\ KeyOf[op] \in Key /\ Desired[op] \in Record
    BY <1>9 DEF WriteAccepted, Record
  <2>2. /\ target' \in [Key -> Record]
        /\ pending' \in [Key -> 0..ReplicationDelay]
    BY <1>9, <2>1, PutType DEF TypeOK, WriteAccepted, Land
  <2>3. accepted' \subseteq Op /\ unaudited' \subseteq Op
    BY <1>9, <2>1 DEF TypeOK, WriteAccepted, Land
  <2>4. CASE ReplicationDelay > 0
    BY <1>9, <2>1, <2>2, <2>3, <2>4 DEF TypeOK, WriteAccepted, Land
  <2>5. CASE ~(ReplicationDelay > 0)
    <3>1. /\ status' \in [Op -> Status] /\ op' \in 1..NumOps + 1
          /\ pc' = "next" /\ tries' = 0 /\ pre' \in Record
          /\ cursor' \in 0..NumOps /\ inverse' \in Seq(Inverse)
      BY <1>9, <2>1, <2>5, SucceedType DEF WriteAccepted
    <3> QED
      BY <1>9, <2>2, <2>3, <3>1 DEF TypeOK, WriteAccepted, Land
  <2> QED
    BY <2>4, <2>5
<1>10. CASE WriteRefused
  <2>1. op \in Op
    BY <1>10 DEF WriteRefused
  <2> QED
    BY <1>10, <2>1, RetryType DEF TypeOK, WriteRefused, observers
<1>11. CASE WriteAnswerLost
  <2>1. op \in Op /\ KeyOf[op] \in Key /\ Desired[op] \in Record
    BY <1>11 DEF WriteAnswerLost, Record
  <2>2. /\ target' \in [Key -> Record]
        /\ pending' \in [Key -> 0..ReplicationDelay]
    BY <1>11, <2>1, PutType DEF TypeOK, WriteAnswerLost, Land
  <2>3. accepted' \subseteq Op /\ unaudited' \subseteq Op
    BY <1>11, <2>1 DEF TypeOK, WriteAnswerLost, Land
  <2> QED
    BY <1>11, <2>1, <2>2, <2>3, RetryType DEF TypeOK, WriteAnswerLost, Land
<1>12. CASE Confirmed
  <2>1. op \in Op /\ KeyOf[op] \in Key
    BY <1>12 DEF Confirmed
  <2>2. /\ status' \in [Op -> Status] /\ op' \in 1..NumOps + 1
        /\ pc' = "next" /\ tries' = 0 /\ pre' \in Record
        /\ cursor' \in 0..NumOps /\ inverse' \in Seq(Inverse)
    BY <1>12, <2>1, SucceedType DEF Confirmed
  <2> QED
    BY <1>12, <2>1, <2>2, ObserveType DEF TypeOK, Confirmed, observers
<1>13. CASE NotYetVisible
  <2>1. op \in Op /\ KeyOf[op] \in Key
    BY <1>13 DEF NotYetVisible
  <2>2. /\ status' \in [Op -> Status] /\ op' \in 1..NumOps + 1
        /\ pc' \in {"next", "confirm"} /\ tries' \in 0..MaxAttempts
        /\ pre' \in Record
        /\ pc' = "confirm" => op' = op
    <3>1. CASE UNCHANGED <<pc, op, pre, status, tries>>
      BY <1>13, <3>1 DEF TypeOK, NotYetVisible
    <3>2. CASE Record_("QUARANTINED")
      BY <2>1, <3>2, RecordType DEF Status
    <3> QED
      BY <1>13, <3>1, <3>2 DEF NotYetVisible
  <2> QED
    BY <1>13, <2>1, <2>2, ObserveType DEF TypeOK, NotYetVisible, observers
<1>14. CASE Finish
  <2>1. Reversed(inverse) \in Seq(Inverse) /\ <<>> \in Seq(Inverse)
    BY ReversedType DEF TypeOK
  <2>2. Ended(store[run]) \in RunRecord
    <3>1. /\ store[run] \in RunRecord
          /\ store[run].completed \cup Completed \in SUBSET Op
      BY DEF TypeOK, RunRecord, Completed
    <3>2. (IF store[run].mode = "DRY_RUN" THEN NoBundle
           ELSE [present |-> TRUE, operations |-> Reversed(inverse)]) \in Bundle
      BY <2>1 DEF NoBundle, Bundle
    <3>3. (IF cursor # 0 THEN cursor ELSE from) \in 0..NumOps
      BY DEF TypeOK
    <3> QED
      BY <3>1, <3>2, <3>3 DEF Ended, RunRecord, RunState
  <2> QED
    BY <1>14, <2>2 DEF TypeOK, Finish, engineVars
<1>15. CASE Abort
  BY <1>15 DEF TypeOK, Abort, engineVars
<1>16. CASE Crash
  <2>1. NoRecord \in RunRecord
    BY DEF NoRecord, RunRecord, RunState, Mode, NoBundle, Bundle
  <2> QED
    BY <1>16, <2>1 DEF TypeOK, Crash, engineVars
<1>17. ASSUME NEW r \in Run, Rollback(r) PROVE TypeInv'
  <2>1. store[r].bundle.operations \in Seq(Inverse)
    BY DEF TypeOK, RunRecord, Bundle
  <2> QED
    BY <1>17, <2>1 DEF TypeOK, Rollback, engineVars
<1>18. ASSUME NEW r \in Run, RequestPause(r) PROVE TypeInv'
  <2>1. [store[r] EXCEPT !.pause = TRUE] \in RunRecord
    BY DEF TypeOK, RunRecord
  <2> QED
    BY <1>18, <2>1 DEF TypeOK, RequestPause, engineVars, observers
<1>19. CASE UndoOne
  <2>1. Head(undo) \in Inverse /\ Tail(undo) \in Seq(Inverse)
    BY <1>19 DEF TypeOK, UndoOne
  <2>2. Head(undo).key \in Key /\ Head(undo).record \in Record
    BY <2>1 DEF Inverse
  <2> QED
    BY <1>19, <2>1, <2>2, PutType DEF TypeOK, UndoOne, engineVars, observers
<1>20. CASE UndoFails
  <2>1. Head(undo) \in Inverse /\ Tail(undo) \in Seq(Inverse)
    BY <1>20 DEF TypeOK, UndoFails
  <2>2. Head(undo).key \in Key /\ Head(undo).record \in Record
    BY <2>1 DEF Inverse
  <2>3. /\ target' \in [Key -> Record]
        /\ pending' \in [Key -> 0..ReplicationDelay]
    BY <1>20, <2>2, PutType DEF TypeOK, UndoFails
  <2> QED
    BY <1>20, <2>1, <2>3 DEF TypeOK, UndoFails, engineVars
<1>21. CASE RollbackDone
  BY <1>21 DEF TypeOK, RollbackDone, engineVars
<1>22. CASE UNCHANGED vars
  BY <1>22 DEF TypeOK, vars, engineVars, observers
<1> QED
  BY <1>1, <1>2, <1>3, <1>4, <1>5, <1>6, <1>7, <1>8, <1>9, <1>10, <1>11,
     <1>12, <1>13, <1>14, <1>15, <1>16, <1>17, <1>18, <1>19, <1>20, <1>21,
     <1>22
     DEF Next, Apply, Undoing

\* Whatever the plan, the platform and the interleaving, every variable keeps
\* its type: no attempt, crash or rollback leaves a record the store could not
\* hold or a visibility counter out of range.
THEOREM TypeCorrect == Spec => []TypeOK
<1>1. Init => TypeInv
  BY InitType
<1>2. TypeInv /\ [Next]_vars => TypeInv'
  BY NextType
<1>3. TypeInv => TypeOK
  BY DEF TypeInv
<1> QED
  BY <1>1, <1>2, <1>3, PTL DEF Spec

-----------------------------------------------------------------------------
(***************************************************************************)
(* Inductive invariants.                                                   *)
(***************************************************************************)

Loop   == {"next", "capture", "write", "confirm"}
Active == Loop \cup {"gate", "preview"}

\* Where the engine is, and what that says of the results so far.
Control ==
    /\ last = "running" <=> pc \in Active
    /\ pc = "rollback" => last \in {"undoing", "other"}
    /\ last = "undoing" => pc = "rollback"
    /\ last = "finished" => op > NumOps
    /\ pc = "gate" => op = from + 1
    /\ op > from
    /\ \A o \in Op : o >= op \/ o <= from => status[o] = "NONE"
    /\ pc \in Loop \/ last = "finished" =>
           \A o \in Op : from < o /\ o < op =>
               status[o] \in {"SUCCEEDED", "SKIPPED_NO_CHANGE", "QUARANTINED",
                              "BLOCKED_BY_DEPENDENCY"}

\* Which operations can have been written by now.
Written ==
    /\ pc \in {"gate", "preview"} => accepted = {} /\ inverse = <<>>
    /\ \A o \in accepted : from < o /\ o <= op
    /\ op \in accepted /\ pc \in Active => pc \in {"write", "confirm"}
    /\ pc \in {"capture", "write", "confirm"} =>
           DependsOn[op] \cap Unusable = {}

\* Behind CompletedMeansInPlace: every success so far is in place unless a
\* later write went to the same key, and a blocked operation is never the only
\* one that failed.
InPlaceSoFar ==
    /\ pc \in Loop \/ last = "finished" =>
        /\ \A o \in Op :
              /\ status[o] \in {"SUCCEEDED", "SKIPPED_NO_CHANGE"}
              /\ \A p \in accepted : p > o => KeyOf[p] # KeyOf[o]
              => target[KeyOf[o]] = Desired[o]
        /\ Unusable # {} => Failures # {}
    /\ pc = "confirm" => op \in accepted /\ target[KeyOf[op]] = Desired[op]
    /\ last = "finished" /\ store[run].state = "COMPLETED" => Failures = {}

\* Behind RerunWritesNothing: while nothing has to change nothing is written.
NothingToDo == clear /\ (\A o \in Op : o > from => base[KeyOf[o]] = Desired[o])
Unchanged ==
    NothingToDo =>
        /\ accepted = {}
        /\ pc \in Active => /\ target = base
                            /\ \A k \in Key : pending[k] <= 1
                            /\ pc \notin {"capture", "write", "confirm"}

\* Behind RollbackRestores: what the inverse operations recorded so far, and
\* those a rollback has still to apply, would restore, object by object.
Untouched(k) == \A o \in Unconfirmed : KeyOf[o] # k
FirstRestores(k) ==
    \E i \in 1..Len(inverse) :
        /\ inverse[i].key = k /\ inverse[i].record = base[k]
        /\ \A j \in 1..Len(inverse) : j < i => inverse[j].key # k
NoInverse(k) == \A i \in 1..Len(inverse) : inverse[i].key # k
Restorable(k) == FirstRestores(k) \/ (NoInverse(k) /\ target[k] = base[k])
LastUndoRestores(k) ==
    \E i \in 1..Len(undo) :
        /\ undo[i].key = k /\ undo[i].record = base[k]
        /\ \A j \in 1..Len(undo) : j > i => undo[j].key # k
NoUndo(k) == \A i \in 1..Len(undo) : undo[i].key # k
Restoring(k) == LastUndoRestores(k) \/ (NoUndo(k) /\ target[k] = base[k])

UndoableRunning ==
    clear /\ pc \in Loop \cup {"gate"} =>
        \A k \in Key : Untouched(k) => pending[k] <= 1 /\ Restorable(k)
UndoableWriting ==
    clear /\ pc \in {"write", "confirm"}
          /\ (\A o \in Unconfirmed : o # op => KeyOf[o] # KeyOf[op])
        => \/ FirstRestores(KeyOf[op])
           \/ NoInverse(KeyOf[op]) /\ pre = base[KeyOf[op]]
UndoableEnded ==
    clear /\ last \in {"finished", "undone"} =>
        \A k \in Key : Untouched(k) => Restorable(k)
UndoableHalfway ==
    clear /\ last = "undoing" =>
        \A k \in Key : Untouched(k) =>
            /\ FirstRestores(k) \/ NoInverse(k)
            /\ Restoring(k)
BundleIsInverse ==
    /\ pc \in Loop => store[run].mode = "PRODUCTION"
    /\ last \in {"finished", "undoing", "undone"} =>
           store[run].bundle = [present |-> TRUE,
                                operations |-> Reversed(inverse)]
Undoable ==
    /\ UndoableRunning /\ UndoableWriting /\ UndoableEnded /\ UndoableHalfway
    /\ RollbackRestores

\* Every step keeps the control state in order.
LEMMA NextControl ==
    TypeInv /\ Control /\ [Next]_vars => Control'
<1> SUFFICES ASSUME TypeInv, Control, [Next]_vars PROVE Control'
  OBVIOUS
<1> USE PlanAssumption DEF TypeInv, TypeOK, AtOperation, Control, Loop,
      Active, Op
<1>1. ASSUME NEW r \in Run, NEW mode \in Mode, NEW resume \in BOOLEAN,
             Execute(r, mode, resume)
      PROVE  Control'
  <2>1. from' \in 0..NumOps /\ op' = from' + 1
    BY <1>1 DEF RunRecord, Execute
  <2> QED
    BY <1>1, <2>1 DEF Execute
<1>2. CASE Admit
  BY <1>2 DEF Admit, engineVars, observers
<1>3. CASE Refuse
  BY <1>3 DEF Refuse, engineVars
<1>4. CASE PreviewOnly
  BY <1>4 DEF PreviewOnly, observers
<1>5. CASE Block
  BY <1>5 DEF Block, Record_, observers
<1>6. CASE Skip
  BY <1>6 DEF Skip, Record_, observers
<1>7. CASE WouldChange
  BY <1>7 DEF WouldChange, engineVars, observers
<1>8. CASE Capture
  BY <1>8 DEF Capture, observers
<1>9. CASE WriteAccepted
  <2>1. op \in Op /\ last = "running"
    BY <1>9 DEF WriteAccepted
  <2>2. CASE ReplicationDelay > 0
    BY <1>9, <2>2 DEF WriteAccepted, Land
  <2>3. CASE ~(ReplicationDelay > 0)
    <3>1. /\ status' = [status EXCEPT ![op] = "SUCCEEDED"]
          /\ op' = op + 1 /\ pc' = "next" /\ UNCHANGED <<from, last>>
      BY <1>9, <2>3 DEF WriteAccepted, Land, Succeed, Record_
    <3> QED
      BY <1>9, <2>1, <3>1
         DEF WriteAccepted
  <2> QED
    BY <2>2, <2>3
<1>10. CASE WriteRefused
  BY <1>10 DEF WriteRefused, RetryOrQuarantine, Record_, observers
<1>11. CASE WriteAnswerLost
  BY <1>11 DEF WriteAnswerLost, Land, RetryOrQuarantine, Record_
<1>12. CASE Confirmed
  <2>1. op \in Op /\ last = "running"
    BY <1>12 DEF Confirmed
  <2>2. /\ status' = [status EXCEPT ![op] = "SUCCEEDED"]
        /\ op' = op + 1 /\ pc' = "next" /\ UNCHANGED <<from, last>>
    BY <1>12 DEF Confirmed, Succeed, Record_, observers
  <2> QED
    BY <1>12, <2>1, <2>2
       DEF Confirmed
<1>13. CASE NotYetVisible
  <2>1. op \in Op /\ last = "running"
    BY <1>13 DEF NotYetVisible
  <2>2. CASE Record_("QUARANTINED")
    <3>1. /\ status' = [status EXCEPT ![op] = "QUARANTINED"]
          /\ op' = op + 1 /\ pc' = "next" /\ UNCHANGED <<from, last>>
      BY <1>13, <2>2 DEF NotYetVisible, Record_, observers
    <3> QED
      BY <1>13, <2>1, <3>1
         DEF NotYetVisible
  <2>3. CASE UNCHANGED <<pc, op, pre, status, tries>>
    BY <1>13, <2>3 DEF NotYetVisible, observers
  <2> QED
    BY <1>13, <2>2, <2>3 DEF NotYetVisible
<1>14. CASE Finish
  BY <1>14 DEF Finish, engineVars
<1>15. CASE Abort
  BY <1>15 DEF Abort, engineVars
<1>16. CASE Crash
  BY <1>16 DEF Crash, engineVars
<1>17. CASE UndoOne
  BY <1>17 DEF UndoOne, engineVars, observers
<1>18. CASE UndoFails
  BY <1>18 DEF UndoFails, engineVars
<1>19. CASE RollbackDone
  BY <1>19 DEF RollbackDone, engineVars
<1>20. ASSUME NEW r \in Run, Rollback(r) PROVE Control'
  BY <1>20 DEF Rollback, engineVars
<1>21. ASSUME NEW r \in Run, RequestPause(r) PROVE Control'
  BY <1>21 DEF RequestPause, engineVars, observers
<1>22. CASE UNCHANGED vars
  BY <1>22 DEF vars, engineVars, observers
<1> QED
  BY <1>1, <1>2, <1>3, <1>4, <1>5, <1>6, <1>7, <1>8, <1>9, <1>10, <1>11,
     <1>12, <1>13, <1>14, <1>15, <1>16, <1>17, <1>18, <1>19, <1>20, <1>21,
     <1>22
     DEF Next, Apply, Undoing

\* Initially nothing has happened.
LEMMA InitControl == Init => Control /\ Written
BY PlanAssumption
   DEF Init, Control, Written, Loop, Active, Op

\* Every step keeps what is known of the writes of this call.
LEMMA NextWritten ==
    TypeInv /\ Control /\ Written /\ [Next]_vars => Written'
<1> SUFFICES ASSUME TypeInv, Control, Written, [Next]_vars PROVE Written'
  OBVIOUS
<1> USE PlanAssumption DEF TypeInv, TypeOK, AtOperation, Control, Written,
      Unusable, Loop, Active, Op
<1>1. ASSUME NEW r \in Run, NEW mode \in Mode, NEW resume \in BOOLEAN,
             Execute(r, mode, resume)
      PROVE  Written'
  BY <1>1 DEF Execute
<1>2. CASE Admit
  BY <1>2 DEF Admit, engineVars, observers
<1>3. CASE Refuse
  BY <1>3 DEF Refuse, engineVars
<1>4. CASE PreviewOnly
  BY <1>4 DEF PreviewOnly, observers
<1>5. CASE Block
  BY <1>5 DEF Block, Record_, observers
<1>6. CASE Skip
  BY <1>6 DEF Skip, Record_, observers
<1>7. CASE WouldChange
  BY <1>7 DEF WouldChange, engineVars, observers
<1>8. CASE Capture
  BY <1>8 DEF Capture, observers
<1>9. CASE WriteAccepted
  <2>1. CASE ReplicationDelay > 0
    BY <1>9, <2>1 DEF WriteAccepted, Land
  <2>2. CASE ~(ReplicationDelay > 0)
    <3>1. /\ status' = [status EXCEPT ![op] = "SUCCEEDED"]
          /\ op' = op + 1 /\ pc' = "next" /\ UNCHANGED <<from, last>>
          /\ accepted' = accepted \cup {op}
      BY <1>9, <2>2 DEF WriteAccepted, Land, Succeed, Record_
    <3> QED
      BY <1>9, <3>1 DEF WriteAccepted
  <2> QED
    BY <2>1, <2>2
<1>10. CASE WriteRefused
  BY <1>10 DEF WriteRefused, RetryOrQuarantine, Record_, observers
<1>11. CASE WriteAnswerLost
  BY <1>11 DEF WriteAnswerLost, Land, RetryOrQuarantine, Record_
<1>12. CASE Confirmed
  <2>1. /\ status' = [status EXCEPT ![op] = "SUCCEEDED"]
        /\ op' = op + 1 /\ pc' = "next" /\ UNCHANGED <<from, last, accepted>>
    BY <1>12 DEF Confirmed, Succeed, Record_, observers
  <2> QED
    BY <1>12, <2>1 DEF Confirmed
<1>13. CASE NotYetVisible
  <2>1. CASE Record_("QUARANTINED")
    <3>1. /\ status' = [status EXCEPT ![op] = "QUARANTINED"]
          /\ op' = op + 1 /\ pc' = "next" /\ UNCHANGED <<from, last, accepted>>
      BY <1>13, <2>1 DEF NotYetVisible, Record_, observers
    <3> QED
      BY <1>13, <3>1 DEF NotYetVisible
  <2>2. CASE UNCHANGED <<pc, op, pre, status, tries>>
    BY <1>13, <2>2 DEF NotYetVisible, observers
  <2> QED
    BY <1>13, <2>1, <2>2 DEF NotYetVisible
<1>14. CASE Finish
  BY <1>14 DEF Finish, engineVars
<1>15. CASE Abort
  BY <1>15 DEF Abort, engineVars
<1>16. CASE Crash
  BY <1>16 DEF Crash, engineVars
<1>17. CASE UndoOne
  BY <1>17 DEF UndoOne, engineVars, observers
<1>18. CASE UndoFails
  BY <1>18 DEF UndoFails, engineVars
<1>19. CASE RollbackDone
  BY <1>19 DEF RollbackDone, engineVars
<1>20. ASSUME NEW r \in Run, Rollback(r) PROVE Written'
  BY <1>20 DEF Rollback, engineVars
<1>21. ASSUME NEW r \in Run, RequestPause(r) PROVE Written'
  BY <1>21 DEF RequestPause, engineVars, observers
<1>22. CASE UNCHANGED vars
  BY <1>22 DEF vars, engineVars, observers
<1> QED
  BY <1>1, <1>2, <1>3, <1>4, <1>5, <1>6, <1>7, <1>8, <1>9, <1>10, <1>11,
     <1>12, <1>13, <1>14, <1>15, <1>16, <1>17, <1>18, <1>19, <1>20, <1>21,
     <1>22
     DEF Next, Apply, Undoing

\* Every step keeps the dependencies of a write in place.
LEMMA NextDependencies ==
    TypeInv /\ Control /\ Written /\ DependenciesInPlace /\ [Next]_vars
        => DependenciesInPlace'
<1> SUFFICES ASSUME TypeInv, Control, Written, DependenciesInPlace, [Next]_vars
             PROVE  DependenciesInPlace'
  OBVIOUS
<1> USE PlanAssumption DEF TypeInv, TypeOK, AtOperation, Control, Written,
      DependenciesInPlace, Unusable, Loop, Active, Op
<1>1. ASSUME NEW r \in Run, NEW mode \in Mode, NEW resume \in BOOLEAN,
             Execute(r, mode, resume)
      PROVE  DependenciesInPlace'
  BY <1>1 DEF Execute
<1>2. CASE Admit
  BY <1>2 DEF Admit, engineVars, observers
<1>3. CASE Refuse
  BY <1>3 DEF Refuse, engineVars
<1>4. CASE PreviewOnly
  BY <1>4 DEF PreviewOnly, observers
<1>5. CASE Block
  BY <1>5 DEF Block, Record_, observers
<1>6. CASE Skip
  BY <1>6 DEF Skip, Record_, observers
<1>7. CASE WouldChange
  BY <1>7 DEF WouldChange, engineVars, observers
<1>8. CASE Capture
  BY <1>8 DEF Capture, observers
<1>9. CASE WriteAccepted
  <2>1. CASE ReplicationDelay > 0
    BY <1>9, <2>1 DEF WriteAccepted, Land
  <2>2. CASE ~(ReplicationDelay > 0)
    <3>1. /\ status' = [status EXCEPT ![op] = "SUCCEEDED"]
          /\ op' = op + 1 /\ pc' = "next" /\ UNCHANGED <<from, last>>
          /\ accepted' = accepted \cup {op}
      BY <1>9, <2>2 DEF WriteAccepted, Land, Succeed, Record_
    <3> QED
      BY <1>9, <3>1 DEF WriteAccepted
  <2> QED
    BY <2>1, <2>2
<1>10. CASE WriteRefused
  BY <1>10 DEF WriteRefused, RetryOrQuarantine, Record_, observers
<1>11. CASE WriteAnswerLost
  BY <1>11 DEF WriteAnswerLost, Land, RetryOrQuarantine, Record_
<1>12. CASE Confirmed
  <2>1. /\ status' = [status EXCEPT ![op] = "SUCCEEDED"]
        /\ op' = op + 1 /\ pc' = "next" /\ UNCHANGED <<from, last, accepted>>
    BY <1>12 DEF Confirmed, Succeed, Record_, observers
  <2> QED
    BY <1>12, <2>1 DEF Confirmed
<1>13. CASE NotYetVisible
  <2>1. CASE Record_("QUARANTINED")
    <3>1. /\ status' = [status EXCEPT ![op] = "QUARANTINED"]
          /\ op' = op + 1 /\ pc' = "next" /\ UNCHANGED <<from, last, accepted>>
      BY <1>13, <2>1 DEF NotYetVisible, Record_, observers
    <3> QED
      BY <1>13, <3>1 DEF NotYetVisible
  <2>2. CASE UNCHANGED <<pc, op, pre, status, tries>>
    BY <1>13, <2>2 DEF NotYetVisible, observers
  <2> QED
    BY <1>13, <2>1, <2>2 DEF NotYetVisible
<1>14. CASE Finish
  BY <1>14 DEF Finish, engineVars
<1>15. CASE Abort
  BY <1>15 DEF Abort, engineVars
<1>16. CASE Crash
  BY <1>16 DEF Crash, engineVars
<1>17. CASE UndoOne
  BY <1>17 DEF UndoOne, engineVars, observers
<1>18. CASE UndoFails
  BY <1>18 DEF UndoFails, engineVars
<1>19. CASE RollbackDone
  BY <1>19 DEF RollbackDone, engineVars
<1>20. ASSUME NEW r \in Run, Rollback(r) PROVE DependenciesInPlace'
  BY <1>20 DEF Rollback, engineVars
<1>21. ASSUME NEW r \in Run, RequestPause(r) PROVE DependenciesInPlace'
  BY <1>21 DEF RequestPause, engineVars, observers
<1>22. CASE UNCHANGED vars
  BY <1>22 DEF vars, engineVars, observers
<1> QED
  BY <1>1, <1>2, <1>3, <1>4, <1>5, <1>6, <1>7, <1>8, <1>9, <1>10, <1>11,
     <1>12, <1>13, <1>14, <1>15, <1>16, <1>17, <1>18, <1>19, <1>20, <1>21,
     <1>22
     DEF Next, Apply, Undoing

\* For every plan and every way the platform may answer, an operation is written
\* only when the dependencies this call of apply ran through are in place.
THEOREM DependenciesAlwaysInPlace == Spec => []DependenciesInPlace
<1>1. Init => TypeInv /\ Control /\ Written /\ DependenciesInPlace
  BY InitType, InitControl DEF Init, DependenciesInPlace
<1>2. TypeInv /\ Control /\ Written /\ DependenciesInPlace /\ [Next]_vars
      => (TypeInv /\ Control /\ Written /\ DependenciesInPlace)'
  BY NextType, NextControl, NextWritten, NextDependencies
<1> QED
  BY <1>1, <1>2, PTL DEF Spec

\* The operations' wishes are honoured as far as the loop has come.
LEMMA NextInPlace ==
    TypeInv /\ Control /\ Written /\ InPlaceSoFar /\ [Next]_vars
        => InPlaceSoFar'
<1> SUFFICES ASSUME TypeInv, Control, Written, InPlaceSoFar, [Next]_vars
             PROVE  InPlaceSoFar'
  OBVIOUS
<1> USE PlanAssumption, PlatformAssumption DEF TypeInv, TypeOK, AtOperation,
      Control, Written, InPlaceSoFar, Unusable, Failures, Loop, Active, Op
<1>1. ASSUME NEW r \in Run, NEW mode \in Mode, NEW resume \in BOOLEAN,
             Execute(r, mode, resume)
      PROVE  InPlaceSoFar'
  BY <1>1 DEF Execute
<1>2. CASE Admit
  <2>1. \A o \in Op : status[o] = "NONE"
    BY <1>2 DEF Admit
  <2> QED
    BY <1>2, <2>1 DEF Admit, engineVars, observers
<1>3. CASE Refuse
  BY <1>3 DEF Refuse, engineVars
<1>4. CASE PreviewOnly
  BY <1>4 DEF PreviewOnly, observers
<1>5. CASE Block
  BY <1>5 DEF Block, Record_, observers
<1>6. CASE Skip
  BY <1>6 DEF Skip, Record_, observers, Read
<1>7. CASE WouldChange
  BY <1>7 DEF WouldChange, engineVars, observers
<1>8. CASE Capture
  BY <1>8 DEF Capture, observers
<1>9. CASE WriteAccepted
  <2>1. /\ op \in Op /\ KeyOf[op] \in Key
        /\ target' = [target EXCEPT ![KeyOf[op]] = Desired[op]]
        /\ accepted' = accepted \cup {op} /\ UNCHANGED <<store, last, from>>
    BY <1>9 DEF WriteAccepted, Land, Put
  <2>2. CASE ReplicationDelay > 0
    <3>1. UNCHANGED <<op, status>> /\ pc' = "confirm"
      BY <1>9, <2>2 DEF WriteAccepted
    <3> QED
      BY <1>9, <2>1, <3>1 DEF WriteAccepted
  <2>3. CASE ~(ReplicationDelay > 0)
    <3>1. /\ status' = [status EXCEPT ![op] = "SUCCEEDED"]
          /\ op' = op + 1 /\ pc' = "next"
      BY <1>9, <2>3 DEF WriteAccepted, Succeed, Record_
    <3> QED
      BY <1>9, <2>1, <3>1 DEF WriteAccepted
  <2> QED
    BY <2>2, <2>3
<1>10. CASE WriteRefused
  <2>1. UNCHANGED <<from, last, accepted, target, store>>
    BY <1>10 DEF WriteRefused, observers
  <2>2. CASE UNCHANGED <<pc, op, pre, status>>
    BY <1>10, <2>1, <2>2 DEF WriteRefused
  <2>3. CASE Record_("QUARANTINED")
    <3>1. /\ status' = [status EXCEPT ![op] = "QUARANTINED"]
          /\ op' = op + 1 /\ pc' = "next"
      BY <2>3 DEF Record_
    <3> QED
      BY <1>10, <2>1, <3>1 DEF WriteRefused
  <2> QED
    BY <1>10, <2>2, <2>3 DEF WriteRefused, RetryOrQuarantine
<1>11. CASE WriteAnswerLost
  <2>1. /\ op \in Op /\ KeyOf[op] \in Key
        /\ target' = [target EXCEPT ![KeyOf[op]] = Desired[op]]
        /\ accepted' = accepted \cup {op} /\ UNCHANGED <<store, last, from>>
    BY <1>11 DEF WriteAnswerLost, Land, Put
  <2>2. CASE UNCHANGED <<pc, op, pre, status>>
    BY <1>11, <2>1, <2>2 DEF WriteAnswerLost
  <2>3. CASE Record_("QUARANTINED")
    <3>1. /\ status' = [status EXCEPT ![op] = "QUARANTINED"]
          /\ op' = op + 1 /\ pc' = "next"
      BY <2>3 DEF Record_
    <3> QED
      BY <1>11, <2>1, <3>1 DEF WriteAnswerLost
  <2> QED
    BY <1>11, <2>2, <2>3 DEF WriteAnswerLost, RetryOrQuarantine
<1>12. CASE Confirmed
  <2>1. /\ status' = [status EXCEPT ![op] = "SUCCEEDED"]
        /\ op' = op + 1 /\ pc' = "next"
        /\ UNCHANGED <<from, last, accepted, target, store>>
    BY <1>12 DEF Confirmed, Succeed, Record_, observers
  <2> QED
    BY <1>12, <2>1 DEF Confirmed
<1>13. CASE NotYetVisible
  <2>1. CASE Record_("QUARANTINED")
    <3>1. /\ status' = [status EXCEPT ![op] = "QUARANTINED"]
          /\ op' = op + 1 /\ pc' = "next"
          /\ UNCHANGED <<from, last, accepted, target, store>>
      BY <1>13, <2>1 DEF NotYetVisible, Record_, observers
    <3> QED
      BY <1>13, <3>1 DEF NotYetVisible
  <2>2. CASE UNCHANGED <<pc, op, pre, status, tries>>
    BY <1>13, <2>2 DEF NotYetVisible, observers
  <2> QED
    BY <1>13, <2>1, <2>2 DEF NotYetVisible
<1>14. CASE Finish
  <2>1. store'[run].state = IF Failures # {} THEN "COMPLETED_WITH_FAILURES"
                            ELSE "COMPLETED"
    BY <1>14 DEF Finish, Ended, RunRecord
  <2>2. UNCHANGED <<target, status, op, from, accepted, run>>
    BY <1>14 DEF Finish, engineVars
  <2> QED
    BY <1>14, <2>1, <2>2 DEF Finish
<1>15. CASE Abort
  BY <1>15 DEF Abort, engineVars
<1>16. CASE Crash
  BY <1>16 DEF Crash, engineVars
<1>17. CASE UndoOne
  BY <1>17 DEF UndoOne, engineVars, observers
<1>18. CASE UndoFails
  BY <1>18 DEF UndoFails, engineVars
<1>19. CASE RollbackDone
  BY <1>19 DEF RollbackDone, engineVars
<1>20. ASSUME NEW r \in Run, Rollback(r) PROVE InPlaceSoFar'
  BY <1>20 DEF Rollback, engineVars
<1>21. ASSUME NEW r \in Run, RequestPause(r) PROVE InPlaceSoFar'
  <2>1. store'[run].state = store[run].state
    BY <1>21 DEF RequestPause, RunRecord
  <2> QED
    BY <1>21, <2>1 DEF RequestPause, engineVars, observers
<1>22. CASE UNCHANGED vars
  BY <1>22 DEF vars, engineVars, observers
<1> HIDE DEF TypeInv, TypeOK, AtOperation, Control, Written, InPlaceSoFar,
      Unusable, Failures, Loop, Active, Op
<1> QED
  BY <1>1, <1>2, <1>3, <1>4, <1>5, <1>6, <1>7, <1>8, <1>9, <1>10, <1>11,
     <1>12, <1>13, <1>14, <1>15, <1>16, <1>17, <1>18, <1>19, <1>20, <1>21,
     <1>22
     DEF Next, Apply, Undoing

\* A run recorded COMPLETED has brought about everything its plan wants.
LEMMA CompletedFollows ==
    TypeInv /\ Control /\ InPlaceSoFar => CompletedMeansInPlace
<1> SUFFICES ASSUME TypeInv, Control, InPlaceSoFar,
                    last = "finished", from = 0, store[run].state = "COMPLETED",
                    NEW o \in Op, \A p \in Op : p > o => KeyOf[p] # KeyOf[o]
             PROVE  target[KeyOf[o]] = Desired[o]
  BY DEF CompletedMeansInPlace, InPlace
<1>1. from < o /\ o < op
  BY PlanAssumption DEF TypeInv, TypeOK, Control, Op
<1>2. Failures = {} /\ Unusable = {}
  BY DEF InPlaceSoFar
<1>3. status[o] \in {"SUCCEEDED", "SKIPPED_NO_CHANGE"}
  BY <1>1, <1>2 DEF Control, Unusable
<1>4. \A p \in accepted : p > o => KeyOf[p] # KeyOf[o]
  BY DEF TypeInv, TypeOK
<1> QED
  BY <1>3, <1>4 DEF InPlaceSoFar

\* Whatever was throttled, refused, blocked or answered late on the way, and
\* whatever an earlier attempt left behind, a fresh run recorded COMPLETED finds
\* the target as its plan wants it.
THEOREM CompletedIsComplete == Spec => []CompletedMeansInPlace
<1> DEFINE IInv == TypeInv /\ Control /\ Written /\ InPlaceSoFar
<1>1. Init => IInv
  BY InitType, InitControl
     DEF Init, InPlaceSoFar, Loop
<1>2. IInv /\ [Next]_vars => IInv'
  BY NextType, NextControl, NextWritten, NextInPlace
<1>3. IInv => CompletedMeansInPlace
  BY CompletedFollows
<1> QED
  BY <1>1, <1>2, <1>3, PTL DEF Spec

\* As long as nothing has to change, nothing is about to be written.
LEMMA NextUnchanged ==
    TypeInv /\ Control /\ Unchanged /\ [Next]_vars => Unchanged'
<1> SUFFICES ASSUME TypeInv, Control, Unchanged, [Next]_vars PROVE Unchanged'
  OBVIOUS
<1> USE PlanAssumption, PlatformAssumption DEF TypeInv, TypeOK, AtOperation,
      Control, Unchanged, NothingToDo, Loop, Active, Op
<1>1. ASSUME NEW r \in Run, NEW mode \in Mode, NEW resume \in BOOLEAN,
             Execute(r, mode, resume)
      PROVE  Unchanged'
  <2>1. /\ base' = target /\ UNCHANGED <<target, pending>>
        /\ accepted' = {} /\ pc' = "gate"
        /\ clear' = (\A k \in Key : pending[k] <= 1)
    BY <1>1 DEF Execute
  <2> QED
    BY <2>1
<1>2. CASE Admit
  BY <1>2 DEF Admit, engineVars, observers
<1>3. CASE Refuse
  BY <1>3 DEF Refuse, engineVars
<1>4. CASE PreviewOnly
  <2>1. KeyOf[op] \in Key /\ UNCHANGED <<base, clear, from, target, accepted>>
    BY <1>4 DEF PreviewOnly, observers
  <2>2. (\A k \in Key : pending[k] <= 1) => \A k \in Key : pending'[k] <= 1
    BY <1>4, <2>1 DEF PreviewOnly, Observe
  <2> QED
    BY <1>4, <2>1, <2>2 DEF PreviewOnly
<1>5. CASE Block
  BY <1>5 DEF Block, Record_, observers
<1>6. CASE Skip
  <2>1. KeyOf[op] \in Key /\ UNCHANGED <<base, clear, from, target, accepted>>
    BY <1>6 DEF Skip, observers
  <2>2. (\A k \in Key : pending[k] <= 1) => \A k \in Key : pending'[k] <= 1
    BY <1>6, <2>1 DEF Skip, Observe
  <2> QED
    BY <1>6, <2>1, <2>2 DEF Skip, Record_
<1>7. CASE WouldChange
  <2>1. op \in Op /\ op > from /\ KeyOf[op] \in Key
    BY <1>7 DEF WouldChange
  <2>2. ~NothingToDo
    BY <1>7, <2>1 DEF WouldChange, Read
  <2> QED
    BY <1>7, <2>2 DEF WouldChange, engineVars, observers
<1>8. CASE Capture
  <2>1. UNCHANGED <<base, clear, from>>
    BY <1>8 DEF Capture, observers
  <2>2. pc \in {"capture", "write", "confirm"}
    BY <1>8 DEF Capture
  <2> QED
    BY <2>1, <2>2
<1>9. CASE WriteAccepted
  <2>1. UNCHANGED <<base, clear, from>>
    BY <1>9 DEF WriteAccepted, Land
  <2>2. pc \in {"capture", "write", "confirm"}
    BY <1>9 DEF WriteAccepted
  <2> QED
    BY <2>1, <2>2
<1>10. CASE WriteRefused
  <2>1. UNCHANGED <<base, clear, from>>
    BY <1>10 DEF WriteRefused, observers
  <2>2. pc \in {"capture", "write", "confirm"}
    BY <1>10 DEF WriteRefused
  <2> QED
    BY <2>1, <2>2
<1>11. CASE WriteAnswerLost
  <2>1. UNCHANGED <<base, clear, from>>
    BY <1>11 DEF WriteAnswerLost, Land
  <2>2. pc \in {"capture", "write", "confirm"}
    BY <1>11 DEF WriteAnswerLost
  <2> QED
    BY <2>1, <2>2
<1>12. CASE Confirmed
  <2>1. UNCHANGED <<base, clear, from>>
    BY <1>12 DEF Confirmed, observers
  <2>2. pc \in {"capture", "write", "confirm"}
    BY <1>12 DEF Confirmed
  <2> QED
    BY <2>1, <2>2
<1>13. CASE NotYetVisible
  <2>1. UNCHANGED <<base, clear, from>>
    BY <1>13 DEF NotYetVisible, observers
  <2>2. pc \in {"capture", "write", "confirm"}
    BY <1>13 DEF NotYetVisible
  <2> QED
    BY <2>1, <2>2
<1>14. CASE Finish
  BY <1>14 DEF Finish, engineVars
<1>15. CASE Abort
  BY <1>15 DEF Abort, engineVars
<1>16. CASE Crash
  BY <1>16 DEF Crash, engineVars
<1>17. CASE UndoOne
  <2>1. pc \notin Active /\ pc' \notin Active
    BY <1>17 DEF UndoOne
  <2>2. UNCHANGED <<base, clear, from, accepted>>
    BY <1>17 DEF UndoOne, engineVars, observers
  <2> QED
    BY <2>1, <2>2
<1>18. CASE UndoFails
  <2>1. pc \notin Active /\ pc' \notin Active
    BY <1>18 DEF UndoFails
  <2>2. UNCHANGED <<base, clear, from, accepted>>
    BY <1>18 DEF UndoFails, engineVars, observers
  <2> QED
    BY <2>1, <2>2
<1>19. CASE RollbackDone
  <2>1. pc \notin Active /\ pc' \notin Active
    BY <1>19 DEF RollbackDone
  <2>2. UNCHANGED <<base, clear, from, accepted>>
    BY <1>19 DEF RollbackDone, engineVars, observers
  <2> QED
    BY <2>1, <2>2
<1>20. ASSUME NEW r \in Run, Rollback(r) PROVE Unchanged'
  BY <1>20 DEF Rollback, engineVars
<1>21. ASSUME NEW r \in Run, RequestPause(r) PROVE Unchanged'
  BY <1>21 DEF RequestPause, engineVars, observers
<1>22. CASE UNCHANGED vars
  BY <1>22 DEF vars, engineVars, observers
<1> HIDE DEF TypeInv, TypeOK, AtOperation, Control, Unchanged, NothingToDo,
      Loop, Active, Op
<1> QED
  BY <1>1, <1>2, <1>3, <1>4, <1>5, <1>6, <1>7, <1>8, <1>9, <1>10, <1>11,
     <1>12, <1>13, <1>14, <1>15, <1>16, <1>17, <1>18, <1>19, <1>20, <1>21,
     <1>22
     DEF Next, Apply, Undoing

\* For every plan: applied to a target that holds what it wants, it writes
\* nothing, so a plan can be run again without effect.
THEOREM RerunIsNoOp == Spec => []RerunWritesNothing
<1> DEFINE IInv == TypeInv /\ Control /\ Unchanged
<1>1. Init => IInv
  BY InitType, InitControl DEF Init, Unchanged, Active, Loop
<1>2. IInv /\ [Next]_vars => IInv'
  BY NextType, NextControl, NextUnchanged
<1>3. IInv => RerunWritesNothing
  BY DEF Unchanged, NothingToDo, RerunWritesNothing
<1> QED
  BY <1>1, <1>2, <1>3, PTL DEF Spec

\* What the inverse operations would restore depends on them and on `base` only.
LEMMA SameInverse ==
    ASSUME UNCHANGED <<inverse, base>>, NEW k
    PROVE  /\ FirstRestores(k)' <=> FirstRestores(k)
           /\ NoInverse(k)' <=> NoInverse(k)
BY DEF FirstRestores, NoInverse

\* An inverse operation is appended: earlier ones take precedence.
LEMMA AppendInverse ==
    ASSUME inverse \in Seq(Inverse), UNCHANGED base,
           NEW key \in Key, NEW record \in Record,
           inverse' = Append(inverse, [key |-> key, record |-> record]),
           NEW k \in Key
    PROVE  /\ FirstRestores(k) => FirstRestores(k)'
           /\ NoInverse(k) /\ k # key => NoInverse(k)'
           /\ NoInverse(key) /\ record = base[key] => FirstRestores(key)'
<1>1. /\ Len(inverse') = Len(inverse) + 1 /\ Len(inverse) \in Nat
      /\ \A i \in 1..Len(inverse) : inverse'[i] = inverse[i]
      /\ inverse'[Len(inverse) + 1] = [key |-> key, record |-> record]
  OBVIOUS
<1>2. FirstRestores(k) => FirstRestores(k)'
  <2> SUFFICES ASSUME NEW i \in 1..Len(inverse),
                      inverse[i].key = k, inverse[i].record = base[k],
                      \A j \in 1..Len(inverse) : j < i => inverse[j].key # k
               PROVE  FirstRestores(k)'
    BY DEF FirstRestores
  <2>1. i \in 1..Len(inverse') /\ inverse'[i].key = k
        /\ inverse'[i].record = base'[k]
    BY <1>1
  <2>2. \A j \in 1..Len(inverse') : j < i => inverse'[j].key # k
    BY <1>1
  <2> QED
    BY <2>1, <2>2 DEF FirstRestores
<1>3. NoInverse(k) /\ k # key => NoInverse(k)'
  BY <1>1 DEF NoInverse
<1>4. NoInverse(key) /\ record = base[key] => FirstRestores(key)'
  <2> SUFFICES ASSUME NoInverse(key), record = base[key]
               PROVE  FirstRestores(key)'
    OBVIOUS
  <2> DEFINE i == Len(inverse) + 1
  <2>1. i \in 1..Len(inverse') /\ inverse'[i].key = key
        /\ inverse'[i].record = base'[key]
    BY <1>1
  <2>2. \A j \in 1..Len(inverse') : j < i => inverse'[j].key # key
    BY <1>1 DEF NoInverse
  <2> HIDE DEF i
  <2> QED
    BY <2>1, <2>2 DEF FirstRestores
<1> QED
  BY <1>2, <1>3, <1>4

\* Starting to apply the reversed inverse operations.
LEMMA ReversedRestores ==
    ASSUME inverse \in Seq(Inverse), UNCHANGED base, undo' = Reversed(inverse),
           NEW k \in Key
    PROVE  /\ FirstRestores(k) => LastUndoRestores(k)'
           /\ NoInverse(k) => NoUndo(k)'
<1> DEFINE n == Len(inverse)
<1>1. n \in Nat /\ Len(undo') = n
      /\ \A i \in 1..n : undo'[i] = inverse[n + 1 - i]
  BY DEF Reversed
<1>2. FirstRestores(k) => LastUndoRestores(k)'
  <2> SUFFICES ASSUME NEW i \in 1..n,
                      inverse[i].key = k, inverse[i].record = base[k],
                      \A j \in 1..n : j < i => inverse[j].key # k
               PROVE  LastUndoRestores(k)'
    BY DEF FirstRestores
  <2> DEFINE m == n + 1 - i
  <2>1. m \in 1..n /\ n + 1 - m = i
    BY <1>1
  <2>2. undo'[m].key = k /\ undo'[m].record = base'[k]
    BY <1>1, <2>1
  <2>3. ASSUME NEW j \in 1..n, j > m PROVE undo'[j].key # k
    <3>1. n + 1 - j \in 1..n /\ n + 1 - j < i
      BY <1>1, <2>3
    <3> QED
      BY <1>1, <3>1
  <2> HIDE DEF m, n
  <2> QED
    BY <1>1, <2>1, <2>2, <2>3 DEF LastUndoRestores
<1>3. NoInverse(k) => NoUndo(k)'
  <2> SUFFICES ASSUME NoInverse(k), NEW i \in 1..n PROVE undo'[i].key # k
    BY <1>1 DEF NoUndo
  <2>1. n + 1 - i \in 1..n
    BY <1>1
  <2> QED
    BY <1>1, <2>1 DEF NoInverse
<1> QED
  BY <1>2, <1>3

\* Applying one of them: what is still to be restored is in place or still to
\* come.
LEMMA TailRestores ==
    ASSUME target \in [Key -> Record], undo \in Seq(Inverse), undo # <<>>,
           UNCHANGED base, undo' = Tail(undo),
           target' = [target EXCEPT ![Head(undo).key] = Head(undo).record],
           NEW k \in Key, Restoring(k)
    PROVE  Restoring(k)'
<1>1. /\ Len(undo) \in Nat \ {0} /\ Len(undo') = Len(undo) - 1
      /\ \A i \in 1..Len(undo') : undo'[i] = undo[i + 1]
      /\ Head(undo) = undo[1] /\ Head(undo).key \in Key
  <2>1. Len(undo) \in Nat \ {0} /\ Head(undo) = undo[1]
    OBVIOUS
  <2>2. undo[1] \in Inverse
    BY <2>1
  <2>3. Len(undo') = Len(undo) - 1
    OBVIOUS
  <2>4. \A i \in 1..Len(undo) - 1 : Tail(undo)[i] = undo[i + 1]
    BY <2>1
  <2> QED
    BY <2>1, <2>2, <2>3, <2>4 DEF Inverse
<1>2. CASE LastUndoRestores(k)
  <2> PICK i \in 1..Len(undo) :
           /\ undo[i].key = k /\ undo[i].record = base[k]
           /\ \A j \in 1..Len(undo) : j > i => undo[j].key # k
    BY <1>2 DEF LastUndoRestores
  <2>1. CASE i = 1
    <3>1. target'[k] = base'[k]
      BY <1>1, <2>1
    <3>2. NoUndo(k)'
      BY <1>1, <2>1 DEF NoUndo
    <3> QED
      BY <3>1, <3>2 DEF Restoring
  <2>2. CASE i # 1
    <3> DEFINE m == i - 1
    <3>1. m \in 1..Len(undo') /\ m + 1 = i
      BY <1>1, <2>2
    <3>2. undo'[m].key = k /\ undo'[m].record = base'[k]
      BY <1>1, <3>1
    <3>3. \A j \in 1..Len(undo') : j > m => undo'[j].key # k
      BY <1>1, <3>1
    <3> HIDE DEF m
    <3>4. LastUndoRestores(k)'
      BY <3>1, <3>2, <3>3 DEF LastUndoRestores
    <3> QED
      BY <3>4 DEF Restoring
  <2> QED
    BY <2>1, <2>2
<1>3. CASE NoUndo(k) /\ target[k] = base[k]
  <2>1. NoUndo(k)'
    BY <1>1, <1>3 DEF NoUndo
  <2>2. Head(undo).key # k
    BY <1>1, <1>3 DEF NoUndo
  <2> QED
    BY <1>1, <1>3, <2>1, <2>2 DEF Restoring
<1> QED
  BY <1>2, <1>3 DEF Restoring

\* The recorded bundle is what the run appended, last first.
LEMMA NextBundle ==
    TypeInv /\ Control /\ BundleIsInverse /\ [Next]_vars => BundleIsInverse'
<1> SUFFICES ASSUME TypeInv, Control, BundleIsInverse, [Next]_vars
             PROVE  BundleIsInverse'
  OBVIOUS
<1> USE PlanAssumption DEF TypeInv, TypeOK, AtOperation, Control,
      BundleIsInverse, Loop, Active, Op
<1>1. ASSUME NEW r \in Run, NEW mode \in Mode, NEW resume \in BOOLEAN,
             Execute(r, mode, resume)
      PROVE  BundleIsInverse'
  BY <1>1 DEF Execute, Started
<1>2. CASE Admit
  BY <1>2 DEF Admit, engineVars, observers, RunRecord, Mode
<1>3. CASE Refuse
  BY <1>3 DEF Refuse, engineVars
<1>4. CASE PreviewOnly
  BY <1>4 DEF PreviewOnly, observers
<1>5. CASE Block
  <2>1. last = "running" /\ last' = "running" /\ UNCHANGED <<store, run>>
    BY <1>5 DEF Block, observers
  <2>2. pc \in Loop
    BY <1>5 DEF Block
  <2> QED
    BY <2>1, <2>2
<1>6. CASE Skip
  <2>1. last = "running" /\ last' = "running" /\ UNCHANGED <<store, run>>
    BY <1>6 DEF Skip, observers
  <2>2. pc \in Loop
    BY <1>6 DEF Skip
  <2> QED
    BY <2>1, <2>2
<1>7. CASE WouldChange
  <2>1. last = "running" /\ last' = "running" /\ UNCHANGED <<store, run>>
    BY <1>7 DEF WouldChange, observers, engineVars
  <2>2. pc \in Loop
    BY <1>7 DEF WouldChange
  <2> QED
    BY <2>1, <2>2
<1>8. CASE Capture
  <2>1. last = "running" /\ last' = "running" /\ UNCHANGED <<store, run>>
    BY <1>8 DEF Capture, observers
  <2>2. pc \in Loop
    BY <1>8 DEF Capture
  <2> QED
    BY <2>1, <2>2
<1>9. CASE WriteAccepted
  <2>1. last = "running" /\ last' = "running" /\ UNCHANGED <<store, run>>
    BY <1>9 DEF WriteAccepted, Land
  <2>2. pc \in Loop
    BY <1>9 DEF WriteAccepted
  <2> QED
    BY <2>1, <2>2
<1>10. CASE WriteRefused
  <2>1. last = "running" /\ last' = "running" /\ UNCHANGED <<store, run>>
    BY <1>10 DEF WriteRefused, observers
  <2>2. pc \in Loop
    BY <1>10 DEF WriteRefused
  <2> QED
    BY <2>1, <2>2
<1>11. CASE WriteAnswerLost
  <2>1. last = "running" /\ last' = "running" /\ UNCHANGED <<store, run>>
    BY <1>11 DEF WriteAnswerLost, Land
  <2>2. pc \in Loop
    BY <1>11 DEF WriteAnswerLost
  <2> QED
    BY <2>1, <2>2
<1>12. CASE Confirmed
  <2>1. last = "running" /\ last' = "running" /\ UNCHANGED <<store, run>>
    BY <1>12 DEF Confirmed, observers
  <2>2. pc \in Loop
    BY <1>12 DEF Confirmed
  <2> QED
    BY <2>1, <2>2
<1>13. CASE NotYetVisible
  <2>1. last = "running" /\ last' = "running" /\ UNCHANGED <<store, run>>
    BY <1>13 DEF NotYetVisible, observers
  <2>2. pc \in Loop
    BY <1>13 DEF NotYetVisible
  <2> QED
    BY <2>1, <2>2
<1>14. CASE Finish
  <2>1. store[run] \in RunRecord /\ run' = run
    BY <1>14 DEF Finish, engineVars
  <2>2. CASE pc = "next"
    <3>1. store'[run].bundle = [present |-> TRUE,
                                operations |-> Reversed(inverse)]
      BY <1>14, <2>1, <2>2 DEF Finish, Ended, RunRecord
    <3> QED
      BY <1>14, <2>1, <3>1 DEF Finish, engineVars, Reversed
  <2>3. CASE pc # "next"
    BY <1>14, <2>3 DEF Finish
  <2> QED
    BY <2>2, <2>3
<1>15. CASE Abort
  BY <1>15 DEF Abort, engineVars
<1>16. CASE Crash
  BY <1>16 DEF Crash, engineVars
<1>17. CASE UndoOne
  <2>1. pc' \notin Loop /\ UNCHANGED <<store, run, inverse>>
    BY <1>17 DEF UndoOne, engineVars
  <2>2. last' \in {"undoing", "undone"} => last \in {"undoing", "undone"}
    BY <1>17 DEF UndoOne, observers
  <2>3. last' # "finished"
    BY <1>17 DEF UndoOne, observers
  <2> QED
    BY <2>1, <2>2, <2>3 DEF Reversed
<1>18. CASE UndoFails
  BY <1>18 DEF UndoFails, engineVars, Reversed
<1>19. CASE RollbackDone
  <2>1. pc' \notin Loop /\ UNCHANGED <<store, run, inverse>>
    BY <1>19 DEF RollbackDone, engineVars
  <2>2. last' \in {"undoing", "undone"} => last \in {"undoing", "undone"}
    BY <1>19 DEF RollbackDone
  <2>3. last' # "finished"
    BY <1>19 DEF RollbackDone
  <2> QED
    BY <2>1, <2>2, <2>3 DEF Reversed
<1>20. ASSUME NEW r \in Run, Rollback(r) PROVE BundleIsInverse'
  BY <1>20 DEF Rollback, engineVars, Reversed
<1>21. ASSUME NEW r \in Run, RequestPause(r) PROVE BundleIsInverse'
  <2>1. /\ store'[run].bundle = store[run].bundle
        /\ store'[run].mode = store[run].mode
    BY <1>21 DEF RequestPause, RunRecord
  <2> QED
    BY <1>21, <2>1 DEF RequestPause, engineVars, observers, Reversed
<1>22. CASE UNCHANGED vars
  BY <1>22 DEF vars, engineVars, observers
<1> HIDE DEF TypeInv, TypeOK, AtOperation, Control, BundleIsInverse, Loop,
      Active, Op
<1> QED
  BY <1>1, <1>2, <1>3, <1>4, <1>5, <1>6, <1>7, <1>8, <1>9, <1>10, <1>11,
     <1>12, <1>13, <1>14, <1>15, <1>16, <1>17, <1>18, <1>19, <1>20, <1>21,
     <1>22
     DEF Next, Apply, Undoing

\* A step of a run that writes nothing leaves what can be restored as it is.
LEMMA QuietStep ==
    ASSUME TypeInv, Control, Undoable, pc \in Loop \cup {"gate"},
           UNCHANGED <<inverse, base, clear, target, last>>,
           Unconfirmed' = Unconfirmed,
           \A k \in Key : pending[k] <= 1 => pending'[k] <= 1
    PROVE  /\ UndoableRunning' /\ UndoableEnded' /\ UndoableHalfway'
           /\ RollbackRestores'
<1>1. last' = "running"
  BY DEF Control, Active, Loop
<1>2. UndoableRunning'
  <2>1. \A k \in Key : Restorable(k)' <=> Restorable(k)
    BY SameInverse DEF Restorable
  <2>2. \A k \in Key : Untouched(k)' <=> Untouched(k)
    BY DEF Untouched
  <2> QED
    BY <2>1, <2>2 DEF Undoable, UndoableRunning
<1> QED
  BY <1>1, <1>2 DEF UndoableEnded, UndoableHalfway, RollbackRestores

\* A write that is not a success yet: its object is outside the bundle.
LEMMA LandStep ==
    ASSUME TypeInv, Control, Undoable, pc = "write", Land,
           UNCHANGED <<inverse, last>>,
           op \in Unconfirmed',
           Unconfirmed \subseteq Unconfirmed'
    PROVE  /\ UndoableRunning' /\ UndoableEnded' /\ UndoableHalfway'
           /\ RollbackRestores'
<1>1. last' = "running"
  BY DEF Control, Active, Loop
<1>2. op \in Op /\ KeyOf[op] \in Key
  BY PlanAssumption DEF TypeInv, AtOperation
<1>3. UNCHANGED <<base, clear>>
  BY DEF Land
<1>4. \A k \in Key : k # KeyOf[op] =>
         target'[k] = target[k] /\ pending'[k] = pending[k]
  BY <1>2 DEF Land, Put, TypeInv, TypeOK
<1>5. \A k \in Key : Untouched(k)' => Untouched(k) /\ k # KeyOf[op]
  BY DEF Untouched
<1>6. \A k \in Key : k # KeyOf[op] => (Restorable(k)' <=> Restorable(k))
  BY <1>3, <1>4, SameInverse DEF Restorable
<1>7. UndoableRunning'
  BY <1>3, <1>4, <1>5, <1>6 DEF Undoable, UndoableRunning, Loop
<1> QED
  BY <1>1, <1>7 DEF UndoableEnded, UndoableHalfway, RollbackRestores

\* A success: its object is back inside the bundle, with the captured record.
LEMMA SucceedStep ==
    ASSUME TypeInv, Control, Undoable, pc \in {"write", "confirm"}, Succeed,
           UNCHANGED <<base, clear, last>>,
           Unconfirmed' = Unconfirmed \ {op},
           pending'[KeyOf[op]] <= 1,
           \A k \in Key : k # KeyOf[op] =>
               /\ target'[k] = target[k]
               /\ pending[k] <= 1 => pending'[k] <= 1
    PROVE  Undoable'
<1>1. last' = "running" /\ pc' = "next"
  BY DEF Control, Active, Loop, Succeed, Record_
<1>2. op \in Op /\ KeyOf[op] \in Key /\ pre \in Record
  BY PlanAssumption DEF TypeInv, AtOperation, TypeOK
<1> PICK key \in Key, record \in Record : key = KeyOf[op] /\ record = pre
  BY <1>2
<1>3. inverse \in Seq(Inverse)
  BY DEF TypeInv, TypeOK
<1>4. /\ inverse' = Append(inverse, [key |-> key, record |-> record])
      /\ base' = base
  BY DEF Succeed
<1>5. ASSUME NEW k \in Key
      PROVE  /\ FirstRestores(k) => FirstRestores(k)'
             /\ NoInverse(k) /\ k # key => NoInverse(k)'
             /\ NoInverse(key) /\ record = base[key] => FirstRestores(key)'
  BY <1>2, <1>3, <1>4, AppendInverse
<1>6. ASSUME clear, NEW k \in Key, Untouched(k)'
      PROVE  pending'[k] <= 1 /\ Restorable(k)'
  <2>1. CASE k = key
    <3>1. \A o \in Unconfirmed : o # op => KeyOf[o] # KeyOf[op]
      BY <1>6, <2>1 DEF Untouched
    <3>2. \/ FirstRestores(key)
          \/ NoInverse(key) /\ record = base[key]
      BY <1>6, <3>1 DEF Undoable, UndoableWriting
    <3> QED
      BY <1>5, <2>1, <3>2 DEF Restorable
  <2>2. CASE k # key
    <3>1. Untouched(k)
      BY <1>6, <2>2 DEF Untouched
    <3>2. pending[k] <= 1 /\ Restorable(k)
      BY <1>6, <3>1 DEF Undoable, UndoableRunning, Loop
    <3>3. pending'[k] <= 1 /\ target'[k] = target[k]
      BY <2>2, <3>2
    <3>4. /\ FirstRestores(k) => FirstRestores(k)'
          /\ NoInverse(k) => NoInverse(k)'
      BY <1>5, <2>2
    <3> QED
      BY <1>4, <3>2, <3>3, <3>4 DEF Restorable
  <2> QED
    BY <2>1, <2>2
<1>7. UndoableRunning'
  BY <1>6 DEF UndoableRunning
<1> QED
  BY <1>1, <1>7 DEF Undoable, UndoableWriting, UndoableEnded, UndoableHalfway,
                    RollbackRestores

\* Every step keeps what can be restored and what is being restored.
LEMMA NextUndoable ==
    TypeInv /\ Control /\ Written /\ BundleIsInverse /\ Undoable /\ [Next]_vars
        => Undoable'
<1> SUFFICES ASSUME TypeInv, Control, Written, BundleIsInverse, Undoable,
                    [Next]_vars
             PROVE  Undoable'
  OBVIOUS
<1> USE DEF Undoable
<1>1. ASSUME NEW r \in Run, NEW mode \in Mode, NEW resume \in BOOLEAN,
             Execute(r, mode, resume)
      PROVE  Undoable'
  <2>1. /\ accepted' = {} /\ inverse' = <<>> /\ base' = target
        /\ target' = target /\ pending' = pending
        /\ clear' = (\A k \in Key : pending[k] <= 1)
        /\ pc' = "gate" /\ last' = "running"
    BY <1>1 DEF Execute
  <2>2. \A k \in Key : NoInverse(k)'
    BY <2>1 DEF NoInverse
  <2> QED
    BY <2>1, <2>2
       DEF Restorable, UndoableRunning, UndoableWriting, UndoableEnded,
           UndoableHalfway, RollbackRestores
<1>2. CASE Admit
  <2>1. /\ pc \in Loop \cup {"gate"}
        /\ UNCHANGED <<inverse, base, clear, target, last, accepted>>
    BY <1>2 DEF Admit, Loop, observers, engineVars
  <2>2. Unconfirmed' = Unconfirmed
    BY <1>2, <2>1 DEF Admit, Unconfirmed, engineVars
  <2>3. \A k \in Key : pending[k] <= 1 => pending'[k] <= 1
    BY <1>2 DEF Admit
  <2>4. UndoableWriting'
    BY <1>2 DEF Admit, UndoableWriting
  <2> QED
    BY <2>1, <2>2, <2>3, <2>4, QuietStep
<1>3. CASE Refuse
  <2>1. /\ pc' \notin Loop \cup {"gate"}
        /\ last' \notin {"finished", "undone", "undoing"}
    BY <1>3 DEF Refuse, TypeInv, Control, Active, Loop
  <2> QED
    BY <2>1 DEF UndoableRunning, UndoableWriting, UndoableEnded,
                UndoableHalfway, RollbackRestores, Loop
<1>4. CASE PreviewOnly
  <2>1. /\ pc' \notin Loop \cup {"gate"}
        /\ last' \notin {"finished", "undone", "undoing"}
    BY <1>4 DEF PreviewOnly, observers, TypeInv, Control, Active, Loop
  <2> QED
    BY <2>1 DEF UndoableRunning, UndoableWriting, UndoableEnded,
                UndoableHalfway, RollbackRestores, Loop
<1>5. CASE Block
  <2>1. /\ pc \in Loop \cup {"gate"}
        /\ UNCHANGED <<inverse, base, clear, target, last, accepted>>
    BY <1>5 DEF Block, Loop, observers, engineVars
  <2>2. Unconfirmed' = Unconfirmed
    <3>1. op \in Op /\ op \notin accepted
      BY <1>5 DEF Block, Control, Written, Active, Loop, TypeInv, TypeOK, Op
    <3> QED
      BY <1>5, <2>1, <3>1 DEF Block, Record_, Unconfirmed
  <2>3. \A k \in Key : pending[k] <= 1 => pending'[k] <= 1
    BY <1>5 DEF Block
  <2>4. UndoableWriting'
    BY <1>5 DEF Block, UndoableWriting, Record_
  <2> QED
    BY <2>1, <2>2, <2>3, <2>4, QuietStep
<1>6. CASE Skip
  <2>1. /\ pc \in Loop \cup {"gate"}
        /\ UNCHANGED <<inverse, base, clear, target, last, accepted>>
    BY <1>6 DEF Skip, Loop, observers, engineVars
  <2>2. Unconfirmed' = Unconfirmed
    <3>1. op \in Op /\ op \notin accepted
      BY <1>6 DEF Skip, Control, Written, Active, Loop, TypeInv, TypeOK, Op
    <3> QED
      BY <1>6, <2>1, <3>1 DEF Skip, Record_, Unconfirmed
  <2>3. \A k \in Key : pending[k] <= 1 => pending'[k] <= 1
    <3>1. op \in Op /\ KeyOf[op] \in Key
      BY <1>6, PlanAssumption DEF Skip, TypeInv, TypeOK, AtOperation, Op
    <3> QED
      BY <1>6, <3>1 DEF Skip, Observe, TypeInv, TypeOK
  <2>4. UndoableWriting'
    BY <1>6 DEF Skip, UndoableWriting, Record_
  <2> QED
    BY <2>1, <2>2, <2>3, <2>4, QuietStep
<1>7. CASE WouldChange
  <2>1. /\ pc \in Loop \cup {"gate"}
        /\ UNCHANGED <<inverse, base, clear, target, last, accepted>>
    BY <1>7 DEF WouldChange, Loop, observers, engineVars
  <2>2. Unconfirmed' = Unconfirmed
    BY <1>7, <2>1 DEF WouldChange, Unconfirmed, engineVars
  <2>3. \A k \in Key : pending[k] <= 1 => pending'[k] <= 1
    <3>1. op \in Op /\ KeyOf[op] \in Key
      BY <1>7, PlanAssumption DEF WouldChange, TypeInv, TypeOK, AtOperation, Op
    <3> QED
      BY <1>7, <3>1 DEF WouldChange, Observe, TypeInv, TypeOK
  <2>4. UndoableWriting'
    BY <1>7 DEF WouldChange, UndoableWriting
  <2> QED
    BY <2>1, <2>2, <2>3, <2>4, QuietStep
<1>8. CASE Capture
  <2>1. /\ pc \in Loop \cup {"gate"}
        /\ UNCHANGED <<inverse, base, clear, target, last, accepted>>
    BY <1>8 DEF Capture, Loop, observers, engineVars
  <2>2. Unconfirmed' = Unconfirmed
    BY <1>8, <2>1 DEF Capture, Unconfirmed, engineVars
  <2>3. \A k \in Key : pending[k] <= 1 => pending'[k] <= 1
    <3>1. op \in Op /\ KeyOf[op] \in Key
      BY <1>8, PlanAssumption DEF Capture, TypeInv, TypeOK, AtOperation, Op
    <3> QED
      BY <1>8, <3>1 DEF Capture, Observe, TypeInv, TypeOK
  <2>4. UndoableWriting'
    <3> SUFFICES ASSUME clear,
                        \A o \in Unconfirmed : o # op => KeyOf[o] # KeyOf[op]
                 PROVE  (\/ FirstRestores(KeyOf[op])
                         \/ NoInverse(KeyOf[op]) /\ pre = base[KeyOf[op]])'
      BY <1>8, <2>1, <2>2 DEF Capture, UndoableWriting
    <3> PICK key \in Key : key = KeyOf[op]
      BY <1>8, PlanAssumption DEF Capture, TypeInv, AtOperation
    <3>1. op \notin accepted
      BY <1>8 DEF Capture, Control, Written, Active, Loop
    <3>2. Untouched(key)
      BY <3>1 DEF Untouched, Unconfirmed
    <3>3. pending[key] <= 1 /\ Restorable(key)
      BY <1>8, <3>2 DEF Capture, UndoableRunning, Loop
    <3>4. pre' = target[key]
      BY <1>8, <3>3 DEF Capture, Read, TypeInv, TypeOK
    <3>5. op' = op
      BY <1>8 DEF Capture
    <3> QED
      BY <2>1, <3>3, <3>4, <3>5, SameInverse DEF Restorable
  <2> QED
    BY <2>1, <2>2, <2>3, <2>4, QuietStep
<1>9. CASE WriteAccepted
  <2>1. op \in Op /\ KeyOf[op] \in Key /\ Land /\ pc = "write"
        /\ status[op] = "NONE" /\ UNCHANGED last
    BY <1>9, PlanAssumption
       DEF WriteAccepted, Land, TypeInv, AtOperation, Control, TypeOK
  <2>2. CASE ReplicationDelay > 0
    <3>1. UNCHANGED <<op, pre, status, inverse>>
      BY <1>9, <2>2 DEF WriteAccepted
    <3>2. op \in Unconfirmed' /\ Unconfirmed \subseteq Unconfirmed'
      BY <2>1, <3>1 DEF Unconfirmed, Land
    <3>3. UndoableWriting'
      <4> PICK key \in Key : key = KeyOf[op]
        BY <2>1
      <4>1. /\ FirstRestores(key)' <=> FirstRestores(key)
            /\ NoInverse(key)' <=> NoInverse(key)
        BY <2>1, <3>1, SameInverse DEF Land
      <4> QED
        BY <2>1, <2>2, <3>1, <4>1 DEF UndoableWriting, Unconfirmed, Land
    <3> QED
      BY <2>1, <3>1, <3>2, <3>3, LandStep
  <2>3. CASE ~(ReplicationDelay > 0)
    <3>1. Succeed
      BY <1>9, <2>3 DEF WriteAccepted
    <3>2. Unconfirmed' = Unconfirmed \ {op}
      BY <2>1, <3>1 DEF Unconfirmed, Succeed, Record_, Land, TypeInv, TypeOK
    <3>3. \A k \in Key : pending'[k] <= 1
      BY <2>1, <2>3, PlatformAssumption DEF Land, Put, TypeInv, TypeOK
    <3>4. \A k \in Key : k # KeyOf[op] => target'[k] = target[k]
      BY <2>1 DEF Land, Put, TypeInv, TypeOK
    <3>5. UNCHANGED <<base, clear>>
      BY <2>1 DEF Land
    <3> QED
      BY <2>1, <3>1, <3>2, <3>3, <3>4, <3>5, SucceedStep
  <2> QED
    BY <2>2, <2>3
<1>10. CASE WriteRefused
  <2>1. /\ pc \in Loop \cup {"gate"}
        /\ UNCHANGED <<inverse, base, clear, target, last, accepted>>
    BY <1>10 DEF WriteRefused, RetryOrQuarantine, Loop, observers, engineVars
  <2>2. Unconfirmed' = Unconfirmed
    <3>1. CASE UNCHANGED <<pc, op, pre, status>>
      BY <2>1, <3>1 DEF Unconfirmed
    <3>2. CASE Record_("QUARANTINED")
      <4>1. op \in Op /\ status[op] = "NONE"
        BY <1>10 DEF WriteRefused, TypeInv, AtOperation, Control, TypeOK
      <4> QED
        BY <2>1, <3>2, <4>1 DEF Record_, Unconfirmed, TypeInv, TypeOK
    <3> QED
      BY <1>10, <3>1, <3>2 DEF WriteRefused, RetryOrQuarantine
  <2>3. \A k \in Key : pending[k] <= 1 => pending'[k] <= 1
    BY <1>10 DEF WriteRefused
  <2>4. UndoableWriting'
    <3>1. CASE UNCHANGED <<pc, op, pre, status>>
      <4> PICK key \in Key : key = KeyOf[op]
        BY <1>10, PlanAssumption DEF WriteRefused, TypeInv, AtOperation
      <4>1. /\ FirstRestores(key)' <=> FirstRestores(key)
            /\ NoInverse(key)' <=> NoInverse(key)
        BY <2>1, SameInverse
      <4> QED
        BY <2>1, <2>2, <3>1, <4>1 DEF UndoableWriting
    <3>2. CASE Record_("QUARANTINED")
      BY <3>2 DEF Record_, UndoableWriting
    <3> QED
      BY <1>10, <3>1, <3>2 DEF WriteRefused, RetryOrQuarantine
  <2> QED
    BY <2>1, <2>2, <2>3, <2>4, QuietStep
<1>11. CASE WriteAnswerLost
  <2>1. op \in Op /\ KeyOf[op] \in Key /\ Land /\ pc = "write"
        /\ status[op] = "NONE" /\ UNCHANGED <<last, inverse>>
    BY <1>11, PlanAssumption
       DEF WriteAnswerLost, RetryOrQuarantine, Land, TypeInv, AtOperation,
           Control, TypeOK
  <2>2. CASE UNCHANGED <<pc, op, pre, status>>
    <3>1. op \in Unconfirmed' /\ Unconfirmed \subseteq Unconfirmed'
      BY <2>1, <2>2 DEF Unconfirmed, Land
    <3>2. UndoableWriting'
      <4> PICK key \in Key : key = KeyOf[op]
        BY <2>1
      <4>1. /\ FirstRestores(key)' <=> FirstRestores(key)
            /\ NoInverse(key)' <=> NoInverse(key)
        BY <2>1, <3>1, SameInverse DEF Land
      <4> QED
        BY <2>1, <2>2, <3>1, <4>1 DEF UndoableWriting, Unconfirmed, Land
    <3> QED
      BY <2>1, <3>1, <3>2, LandStep
  <2>3. CASE Record_("QUARANTINED")
    <3>1. op \in Unconfirmed' /\ Unconfirmed \subseteq Unconfirmed'
      BY <2>1, <2>3 DEF Unconfirmed, Land, Record_, TypeInv, TypeOK
    <3>2. UndoableWriting'
      BY <2>3 DEF Record_, UndoableWriting
    <3> QED
      BY <2>1, <3>1, <3>2, LandStep
  <2> QED
    BY <1>11, <2>2, <2>3 DEF WriteAnswerLost, RetryOrQuarantine
<1>12. CASE Confirmed
  <2>1. op \in Op /\ KeyOf[op] \in Key /\ Succeed /\ status[op] = "NONE"
        /\ UNCHANGED <<base, clear, last, target, accepted>>
    BY <1>12, PlanAssumption
       DEF Confirmed, observers, TypeInv, AtOperation, Control, TypeOK
  <2>2. Unconfirmed' = Unconfirmed \ {op}
    BY <2>1 DEF Unconfirmed, Succeed, Record_, TypeInv, TypeOK
  <2>3. pending[KeyOf[op]] <= 1
    BY <1>12, <2>1 DEF Confirmed, Read, TypeInv, TypeOK
  <2>4. \A k \in Key : pending[k] <= 1 => pending'[k] <= 1
    BY <1>12, <2>1 DEF Confirmed, Observe, TypeInv, TypeOK
  <2> QED
    BY <1>12, <2>1, <2>2, <2>3, <2>4, SucceedStep DEF Confirmed
<1>13. CASE NotYetVisible
  <2>1. /\ pc \in Loop \cup {"gate"}
        /\ UNCHANGED <<inverse, base, clear, target, last, accepted>>
    BY <1>13 DEF NotYetVisible, Loop, observers, engineVars
  <2>2. Unconfirmed' = Unconfirmed
    <3>1. CASE UNCHANGED <<pc, op, pre, status>>
      BY <2>1, <3>1 DEF Unconfirmed
    <3>2. CASE Record_("QUARANTINED")
      <4>1. op \in Op /\ status[op] = "NONE"
        BY <1>13 DEF NotYetVisible, TypeInv, AtOperation, Control, TypeOK
      <4> QED
        BY <2>1, <3>2, <4>1 DEF Record_, Unconfirmed, TypeInv, TypeOK
    <3> QED
      BY <1>13, <3>1, <3>2 DEF NotYetVisible
  <2>3. \A k \in Key : pending[k] <= 1 => pending'[k] <= 1
    <3>1. op \in Op /\ KeyOf[op] \in Key
      BY <1>13, PlanAssumption DEF NotYetVisible, TypeInv, TypeOK, AtOperation, Op
    <3> QED
      BY <1>13, <3>1 DEF NotYetVisible, Observe, TypeInv, TypeOK
  <2>4. UndoableWriting'
    <3>1. CASE UNCHANGED <<pc, op, pre, status>>
      <4> PICK key \in Key : key = KeyOf[op]
        BY <1>13, PlanAssumption DEF NotYetVisible, TypeInv, AtOperation
      <4>1. /\ FirstRestores(key)' <=> FirstRestores(key)
            /\ NoInverse(key)' <=> NoInverse(key)
        BY <2>1, SameInverse
      <4> QED
        BY <2>1, <2>2, <3>1, <4>1 DEF UndoableWriting
    <3>2. CASE Record_("QUARANTINED")
      BY <3>2 DEF Record_, UndoableWriting
    <3> QED
      BY <1>13, <3>1, <3>2 DEF NotYetVisible
  <2> QED
    BY <2>1, <2>2, <2>3, <2>4, QuietStep
<1>14. CASE Finish
  <2>1. UNCHANGED <<inverse, base, clear, target, accepted, status>>
    BY <1>14 DEF Finish, engineVars
  <2>2. \A k \in Key : Restorable(k)' <=> Restorable(k)
    BY <2>1, SameInverse DEF Restorable
  <2>3. \A k \in Key : Untouched(k)' <=> Untouched(k)
    BY <2>1 DEF Untouched, Unconfirmed
  <2>4. CASE pc = "next"
    <3>1. pc' = "idle" /\ last' = "finished"
      BY <1>14, <2>4 DEF Finish
    <3>2. UndoableEnded'
      BY <2>1, <2>2, <2>3, <2>4 DEF UndoableRunning, UndoableEnded, Loop
    <3> QED
      BY <3>1, <3>2 DEF UndoableRunning, UndoableWriting, UndoableHalfway,
                        RollbackRestores, Loop
  <2>5. CASE pc # "next"
    <3>1. pc' = "idle" /\ last' = "previewed"
      BY <1>14, <2>5 DEF Finish
    <3> QED
      BY <3>1 DEF UndoableRunning, UndoableWriting, UndoableEnded,
                  UndoableHalfway, RollbackRestores, Loop
  <2> QED
    BY <2>4, <2>5
<1>15. CASE Abort
  <2>1. /\ pc' \notin Loop \cup {"gate"}
        /\ last' \notin {"finished", "undone", "undoing"}
    BY <1>15 DEF Abort, TypeInv, Control, Active, Loop
  <2> QED
    BY <2>1 DEF UndoableRunning, UndoableWriting, UndoableEnded,
                UndoableHalfway, RollbackRestores, Loop
<1>16. CASE Crash
  <2>1. /\ pc' \notin Loop \cup {"gate"}
        /\ last' \notin {"finished", "undone", "undoing"}
    BY <1>16 DEF Crash, TypeInv, Control, Active, Loop
  <2> QED
    BY <2>1 DEF UndoableRunning, UndoableWriting, UndoableEnded,
                UndoableHalfway, RollbackRestores, Loop
<1>17. CASE UndoOne
  <2>1. UNCHANGED <<inverse, base, clear, accepted, status, last>>
        /\ pc = "rollback" /\ pc' = "rollback"
    BY <1>17 DEF UndoOne, engineVars, observers
  <2>2. \A k \in Key : Restoring(k) => Restoring(k)'
    BY <1>17, <2>1, TailRestores DEF UndoOne, Put, TypeInv, TypeOK
  <2>3. \A k \in Key : Untouched(k)' <=> Untouched(k)
    BY <2>1 DEF Untouched, Unconfirmed
  <2>4. \A k \in Key : FirstRestores(k) \/ NoInverse(k)
                      => FirstRestores(k)' \/ NoInverse(k)'
    BY <2>1, SameInverse
  <2>5. UndoableHalfway'
    BY <2>1, <2>2, <2>3, <2>4 DEF UndoableHalfway
  <2>6. last \in {"undoing", "other"}
    BY <2>1 DEF Control
  <2> QED
    BY <2>1, <2>5, <2>6 DEF UndoableRunning, UndoableWriting, UndoableEnded,
                            RollbackRestores, Loop
<1>18. CASE UndoFails
  <2>1. /\ pc' \notin Loop \cup {"gate"}
        /\ last' \notin {"finished", "undone", "undoing"}
    BY <1>18 DEF UndoFails, TypeInv, Control, Active, Loop
  <2> QED
    BY <2>1 DEF UndoableRunning, UndoableWriting, UndoableEnded,
                UndoableHalfway, RollbackRestores, Loop
<1>19. CASE RollbackDone
  <2>1. UNCHANGED <<inverse, base, clear, target, accepted, status, undo>>
        /\ pc' = "idle" /\ undo = <<>>
    BY <1>19 DEF RollbackDone, engineVars
  <2>2. CASE last = "undoing"
    <3>1. last' = "undone"
      BY <1>19, <2>2 DEF RollbackDone
    <3>2. ASSUME clear, NEW k \in Key, Untouched(k)'
          PROVE  Restorable(k)' /\ target'[k] = base'[k]
      <4>1. Untouched(k)
        BY <2>1, <3>2 DEF Untouched, Unconfirmed
      <4>2. (FirstRestores(k) \/ NoInverse(k)) /\ Restoring(k)
        BY <2>2, <3>2, <4>1 DEF UndoableHalfway
      <4>3. target[k] = base[k]
        BY <2>1, <4>2 DEF Restoring, LastUndoRestores
      <4> QED
        BY <2>1, <4>2, <4>3, SameInverse DEF Restorable
    <3>3. RollbackRestores'
      BY <2>1, <3>2 DEF RollbackRestores, Untouched
    <3> QED
      BY <2>1, <3>1, <3>2, <3>3
         DEF UndoableRunning, UndoableWriting, UndoableEnded, UndoableHalfway, Loop
  <2>3. CASE last # "undoing"
    <3>1. last' = "other"
      BY <1>19, <2>3 DEF RollbackDone, Control
    <3> QED
      BY <2>1, <3>1 DEF UndoableRunning, UndoableWriting, UndoableEnded,
                        UndoableHalfway, RollbackRestores, Loop
  <2> QED
    BY <2>2, <2>3
<1>20. ASSUME NEW r \in Run, Rollback(r) PROVE Undoable'
  <2>1. UNCHANGED <<inverse, base, clear, target, accepted, status>>
        /\ pc' = "rollback"
    BY <1>20 DEF Rollback, engineVars
  <2>2. CASE r = run /\ last \in {"finished", "undone"}
    <3>1. undo' = Reversed(inverse) /\ last' = "undoing"
      BY <1>20, <2>2 DEF Rollback, BundleIsInverse
    <3>2. ASSUME clear, NEW k \in Key, Untouched(k)'
          PROVE  (FirstRestores(k)' \/ NoInverse(k)') /\ Restoring(k)'
      <4>1. Untouched(k)
        BY <2>1, <3>2 DEF Untouched, Unconfirmed
      <4>2. Restorable(k)
        BY <2>2, <3>2, <4>1 DEF UndoableEnded
      <4>3. inverse \in Seq(Inverse)
        BY DEF TypeInv, TypeOK
      <4>4. /\ FirstRestores(k) => LastUndoRestores(k)'
            /\ NoInverse(k) => NoUndo(k)'
        BY <2>1, <3>1, <4>3, ReversedRestores
      <4> QED
        BY <2>1, <4>2, <4>4, SameInverse DEF Restorable, Restoring
    <3>3. UndoableHalfway'
      BY <2>1, <3>2 DEF UndoableHalfway
    <3> QED
      BY <2>1, <3>1, <3>3 DEF UndoableRunning, UndoableWriting, UndoableEnded,
                              RollbackRestores, Loop
  <2>3. CASE ~(r = run /\ last \in {"finished", "undone"})
    <3>1. last' = "other"
      BY <1>20, <2>3 DEF Rollback
    <3> QED
      BY <2>1, <3>1 DEF UndoableRunning, UndoableWriting, UndoableEnded,
                        UndoableHalfway, RollbackRestores, Loop
  <2> QED
    BY <2>2, <2>3
<1>21. ASSUME NEW r \in Run, RequestPause(r) PROVE Undoable'
  <2>1. UNCHANGED <<inverse, base, clear, target, pending, accepted, status,
                    undo, pc, op, pre, last>>
    BY <1>21 DEF RequestPause, engineVars, observers
  <2> QED
    BY <2>1
       DEF UndoableRunning, UndoableWriting, UndoableEnded, UndoableHalfway,
           RollbackRestores, Restorable, Restoring, FirstRestores, NoInverse,
           LastUndoRestores, NoUndo, Untouched, Unconfirmed
<1>22. CASE UNCHANGED vars
  <2>1. UNCHANGED <<inverse, base, clear, target, pending, accepted, status,
                    undo, pc, op, pre, last>>
    BY <1>22 DEF vars, engineVars, observers
  <2> QED
    BY <2>1
       DEF UndoableRunning, UndoableWriting, UndoableEnded, UndoableHalfway,
           RollbackRestores, Restorable, Restoring, FirstRestores, NoInverse,
           LastUndoRestores, NoUndo, Untouched, Unconfirmed
<1> HIDE DEF Undoable
<1> QED
  BY <1>1, <1>2, <1>3, <1>4, <1>5, <1>6, <1>7, <1>8, <1>9, <1>10, <1>11,
     <1>12, <1>13, <1>14, <1>15, <1>16, <1>17, <1>18, <1>19, <1>20, <1>21,
     <1>22
     DEF Next, Apply, Undoing

\* For every plan, also where several of its operations write the same object,
\* rolling back the run that finished last restores every object that was
\* readable when the run started and has no unconfirmed write.
THEOREM RollbackIsExact == Spec => []RollbackRestores
<1> DEFINE IInv == TypeInv /\ Control /\ Written /\ BundleIsInverse /\ Undoable
<1>1. Init => IInv
  BY InitType, InitControl
     DEF Init, BundleIsInverse, Undoable, UndoableRunning, UndoableWriting,
         UndoableEnded, UndoableHalfway, RollbackRestores, Loop
<1>2. IInv /\ [Next]_vars => IInv'
  BY NextType, NextControl, NextWritten, NextBundle, NextUndoable
<1>3. IInv => RollbackRestores
  BY DEF Undoable
<1> QED
  BY <1>1, <1>2, <1>3, PTL DEF Spec

-----------------------------------------------------------------------------
(***************************************************************************)
(* Checkpoints.                                                            *)
(***************************************************************************)

\* Behind AttemptKeepsCheckpoint: while an apply call is under way the store
\* still has the checkpoint it resumed from, and its own cursor is past that.
CheckpointKept ==
    /\ pc \in Active => store[run].checkpoint = from
    /\ cursor = 0 \/ cursor > from

\* The steps that put no run record and start no run.
StoreUntouched ==
    /\ UNCHANGED <<store, run, from>>
    /\ pc' \in Active => pc \in Active
    /\ cursor' = cursor \/ cursor' = op

\* Such a step keeps the checkpoint where it was.
LEMMA UntouchedKeeps ==
    ASSUME TypeInv, Control, CheckpointKept, StoreUntouched
    PROVE  CheckpointKept'
BY DEF TypeInv, TypeOK, Control, CheckpointKept, StoreUntouched

\* Of the steps of a run, only its end, its refusal and a crash put a record.
LEMMA LoopStoreUntouched ==
    ASSUME TypeInv,
           \/ Apply /\ ~Finish
           \/ Abort \/ Undoing
           \/ \E r \in Run : Rollback(r)
           \/ UNCHANGED vars
    PROVE  StoreUntouched
<1> USE DEF StoreUntouched, Active, Loop
<1>1. CASE Admit \/ PreviewOnly
  BY <1>1 DEF Admit, PreviewOnly, engineVars
<1>2. CASE Block \/ Skip
  BY <1>2 DEF Block, Skip, Record_
<1>3. CASE WouldChange \/ Capture
  BY <1>3 DEF WouldChange, Capture, engineVars
<1>4. CASE WriteAccepted
  BY <1>4 DEF WriteAccepted, Succeed, Record_
<1>5. CASE WriteRefused \/ WriteAnswerLost
  BY <1>5 DEF WriteRefused, WriteAnswerLost, RetryOrQuarantine, Record_
<1>6. CASE Confirmed \/ NotYetVisible
  BY <1>6 DEF Confirmed, NotYetVisible, Succeed, Record_
<1>7. CASE Abort
  BY <1>7 DEF Abort, engineVars
<1>8. CASE Undoing
  BY <1>8 DEF Undoing, UndoOne, UndoFails, RollbackDone, engineVars
<1>9. CASE \E r \in Run : Rollback(r)
  BY <1>9 DEF Rollback, engineVars
<1>10. CASE UNCHANGED vars
  BY <1>10 DEF vars, engineVars
<1> QED
  BY <1>1, <1>2, <1>3, <1>4, <1>5, <1>6, <1>7, <1>8, <1>9, <1>10 DEF Apply

\* The record put when apply returned holds a checkpoint at or past the old one.
LEMMA EndedCheckpoint ==
    ASSUME TypeInv, CheckpointKept, Finish, pc \in Active
    PROVE  store'[run].checkpoint >= store[run].checkpoint
<1>1. store'[run] = Ended(store[run])
  BY DEF Finish, TypeInv, TypeOK
<1>2. store'[run].checkpoint = IF cursor # 0 THEN cursor ELSE from
  BY <1>1 DEF Ended, TypeInv, TypeOK, RunRecord
<1> QED
  BY <1>2 DEF CheckpointKept, TypeInv, TypeOK

\* Every step keeps CheckpointKept.
LEMMA NextCheckpoint ==
    TypeInv /\ Control /\ CheckpointKept /\ [Next]_vars => CheckpointKept'
<1> SUFFICES ASSUME TypeInv, Control, CheckpointKept, [Next]_vars
             PROVE  CheckpointKept'
  OBVIOUS
<1>1. ASSUME NEW r \in Run, NEW mode \in Mode, NEW resume \in BOOLEAN,
             Execute(r, mode, resume)
      PROVE  CheckpointKept'
  <2>1. store'[r].checkpoint = IF resume THEN store[r].checkpoint ELSE 0
    BY <1>1 DEF Execute, Started, TypeInv, TypeOK
  <2> QED
    BY <1>1, <2>1 DEF Execute, CheckpointKept
<1>2. CASE Refuse \/ Finish \/ Crash
  BY <1>2 DEF Refuse, Finish, Crash, CheckpointKept, engineVars, Active, Loop
<1>3. ASSUME NEW r \in Run, RequestPause(r) PROVE CheckpointKept'
  <2>1. store'[run].checkpoint = store[run].checkpoint
    BY <1>3 DEF RequestPause, TypeInv, TypeOK, RunRecord
  <2> QED
    BY <1>3, <2>1 DEF RequestPause, CheckpointKept, engineVars
<1>4. CASE \/ Apply /\ ~Finish
           \/ Abort \/ Undoing
           \/ \E r \in Run : Rollback(r)
           \/ UNCHANGED vars
  BY <1>4, LoopStoreUntouched, UntouchedKeeps
<1> QED
  BY <1>1, <1>2, <1>3, <1>4 DEF Next

\* The step property behind AttemptKeepsCheckpoint.
LEMMA StepKeepsCheckpoint ==
    TypeInv /\ Control /\ CheckpointKept /\ [Next]_vars =>
        \A r \in Run : pc # "idle" /\ store'[r].state # "PENDING"
                          => store'[r].checkpoint >= store[r].checkpoint
<1> SUFFICES ASSUME TypeInv, Control, CheckpointKept, [Next]_vars,
                    NEW r \in Run, pc # "idle", store'[r].state # "PENDING"
             PROVE  store'[r].checkpoint >= store[r].checkpoint
  OBVIOUS
<1>1. store[r].checkpoint \in Nat
  BY PlanAssumption DEF TypeInv, TypeOK, RunRecord
<1>2. CASE store' = store
  BY <1>1, <1>2
<1>3. CASE Refuse
  <2>1. store'[r].checkpoint = store[r].checkpoint
    BY <1>3 DEF Refuse, TypeInv, TypeOK, RunRecord
  <2> QED
    BY <1>1, <2>1
<1>4. CASE Finish
  <2>1. pc \in Active
    BY <1>4 DEF Finish, Active, Loop
  <2>2. CASE r = run
    BY <1>4, <2>1, <2>2, EndedCheckpoint
  <2>3. CASE r # run
    <3>1. store'[r] = store[r]
      BY <1>4, <2>3 DEF Finish, TypeInv, TypeOK
    <3> QED
      BY <1>1, <3>1
  <2> QED
    BY <2>2, <2>3
<1>5. CASE Crash
  <2>1. Durable
    BY <1>5 DEF Crash, NoRecord
  <2> QED
    BY <1>1, <1>5, <2>1 DEF Crash
<1>6. ASSUME NEW s \in Run, RequestPause(s)
      PROVE  store'[r].checkpoint >= store[r].checkpoint
  <2>1. store'[r].checkpoint = store[r].checkpoint
    BY <1>6 DEF RequestPause, TypeInv, TypeOK, RunRecord
  <2> QED
    BY <1>1, <2>1
<1>7. CASE \/ Apply /\ ~Finish
           \/ Abort \/ Undoing
           \/ \E s \in Run : Rollback(s)
           \/ UNCHANGED vars
  BY <1>2, <1>7, LoopStoreUntouched DEF StoreUntouched
<1> QED
  BY <1>3, <1>4, <1>5, <1>6, <1>7 DEF Next, Execute

\* Whatever fails, crashes or is paused, an attempt never moves the checkpoint
\* of a stored run back, so resuming never repeats what an earlier attempt had
\* recorded as passed.
THEOREM CheckpointNeverMovesBack == Spec => AttemptKeepsCheckpoint
<1> DEFINE IInv == TypeInv /\ Control /\ CheckpointKept
<1>1. Init => IInv
  BY InitType, InitControl DEF Init, CheckpointKept, Active, Loop
<1>2. IInv /\ [Next]_vars => IInv'
  BY NextType, NextControl, NextCheckpoint
<1>3. IInv /\ [Next]_vars =>
          [\A r \in Run : pc # "idle" /\ store'[r].state # "PENDING"
               => store'[r].checkpoint >= store[r].checkpoint]_vars
  BY StepKeepsCheckpoint
<1> QED
  BY <1>1, <1>2, <1>3, PTL DEF Spec, AttemptKeepsCheckpoint

-----------------------------------------------------------------------------
(***************************************************************************)
(* Execution implements Rollout.                                           *)
(***************************************************************************)

\* What relates the results so far to the promise: a call in progress has no
\* verdict yet, and a dry run brings every operation about.
Promising ==
    /\ pc \in Active => store[run].state = "RUNNING"
    /\ pc = "preview" =>
           \A o \in Op : from < o /\ o < op => status[o] = "PREVIEWED"

\* Everything the refinement rests on.
RefinementInv == TypeInv /\ Control /\ Written /\ InPlaceSoFar /\ Promising

\* Every step keeps Promising.
LEMMA NextPromising ==
    TypeInv /\ Control /\ Promising /\ [Next]_vars => Promising'
<1> SUFFICES ASSUME TypeInv, Control, Promising, [Next]_vars
             PROVE  Promising'
  OBVIOUS
<1> USE DEF Promising, Active, Loop
<1>1. ASSUME NEW r \in Run, NEW mode \in Mode, NEW resume \in BOOLEAN,
             Execute(r, mode, resume)
      PROVE  Promising'
  BY <1>1 DEF Execute, Started, TypeInv, TypeOK
<1>2. CASE Admit
  BY <1>2, PlanAssumption DEF Admit, engineVars, Control, TypeInv, TypeOK, Op
<1>3. CASE PreviewOnly
  BY <1>3, PlanAssumption DEF PreviewOnly, TypeInv, TypeOK, Op
<1>4. CASE Refuse \/ Finish \/ Crash
  BY <1>4 DEF Refuse, Finish, Crash
<1>5. ASSUME NEW r \in Run, RequestPause(r) PROVE Promising'
  <2>1. store'[run].state = store[run].state
    BY <1>5 DEF RequestPause, TypeInv, TypeOK, RunRecord
  <2> QED
    BY <1>5, <2>1 DEF RequestPause, engineVars
<1>6. CASE Block \/ Skip
  BY <1>6 DEF Block, Skip, Record_
<1>7. CASE WouldChange \/ Capture
  BY <1>7 DEF WouldChange, Capture, engineVars
<1>8. CASE WriteAccepted \/ WriteRefused \/ WriteAnswerLost
  BY <1>8 DEF WriteAccepted, WriteRefused, WriteAnswerLost, Succeed,
              RetryOrQuarantine, Record_
<1>9. CASE Confirmed \/ NotYetVisible
  BY <1>9 DEF Confirmed, NotYetVisible, Succeed, Record_
<1>10. CASE Abort \/ Undoing
  BY <1>10 DEF Abort, Undoing, UndoOne, UndoFails, RollbackDone, engineVars
<1>11. ASSUME NEW r \in Run, Rollback(r) PROVE Promising'
  BY <1>11 DEF Rollback
<1>12. CASE UNCHANGED vars
  BY <1>12 DEF vars, engineVars
<1> QED
  BY <1>1, <1>2, <1>3, <1>4, <1>5, <1>6, <1>7, <1>8, <1>9, <1>10, <1>11,
     <1>12 DEF Next, Apply

\* A step that leaves the results, the call and its verdict alone is a stutter
\* of the promise.
LEMMA StutterStep ==
    ASSUME TypeInv, pc' \in Active <=> pc \in Active,
           pc' \in Active \cup {"idle", "rollback"},
           UNCHANGED <<run, from, status>>,
           store'[run].state = store[run].state
    PROVE  UNCHANGED Promise!vars
<1>1. (pc \in {"idle", "rollback"} <=> pc \notin Active)
      /\ (pc' \in {"idle", "rollback"} <=> pc' \notin Active)
  BY DEF TypeInv, TypeOK, Active, Loop
<1>2. Completed' = Completed /\ Unusable' = Unusable
  BY DEF Completed, Unusable
<1> QED
  BY <1>1, <1>2 DEF Promise!vars

\* In a call in progress the operations passed without failing are done.
LEMMA PassedAreDone ==
    ASSUME RefinementInv, pc \in Active \ {"gate"}, op \in Op,
           DependsOn[op] \cap Unusable = {}
    PROVE  DependsOn[op] \subseteq (1..from) \cup Completed
<1> SUFFICES ASSUME NEW d \in DependsOn[op]
             PROVE  d \in (1..from) \cup Completed
  OBVIOUS
<1>1. d \in Op /\ d < op /\ from \in Nat /\ NumOps \in Nat
  BY PlanAssumption DEF RefinementInv, TypeInv, TypeOK
<1>2. CASE d <= from
  BY <1>1, <1>2 DEF Op
<1>3. CASE d > from
  BY <1>1, <1>3
     DEF RefinementInv, Control, Promising, Completed, Unusable, Active
<1> QED
  BY <1>1, <1>2, <1>3 DEF Op

\* A result that counts as completed completes the operation at the loop head.
LEMMA CompleteStep ==
    ASSUME RefinementInv, pc \in Active \ {"gate"}, pc' \in Active, op \in Op,
           DependsOn[op] \cap Unusable = {},
           NEW result \in {"SUCCEEDED", "SKIPPED_NO_CHANGE", "PREVIEWED"},
           status' = [status EXCEPT ![op] = result],
           UNCHANGED <<run, from, store>>
    PROVE  Promise!Next
<1>1. pc \notin {"idle", "rollback"} /\ pc' \notin {"idle", "rollback"}
  BY DEF Active, Loop
<1>2. status[op] = "NONE" /\ op > from /\ from \in Nat
  BY DEF RefinementInv, TypeInv, TypeOK, Control, Op
<1>3. Completed' = Completed \cup {op} /\ Unusable' = Unusable
  BY <1>2 DEF Completed, Unusable, RefinementInv, TypeInv, TypeOK
<1>4. op \notin (1..from) \cup Completed \cup Unusable
  BY <1>2 DEF Completed, Unusable
<1>5. DependsOn[op] \subseteq (1..from) \cup Completed
  BY PassedAreDone
<1>6. Promise!Complete(op)
  BY <1>1, <1>3, <1>4, <1>5 DEF Promise!Complete
<1> QED
  BY <1>6 DEF Promise!Next

\* A result that counts as unusable gives the operation up.
LEMMA GiveUpStep ==
    ASSUME RefinementInv, pc \in Active \ {"gate"}, pc' \in Active, op \in Op,
           NEW result \in {"QUARANTINED", "BLOCKED_BY_DEPENDENCY"},
           result = "QUARANTINED" => DependsOn[op] \cap Unusable = {},
           result = "BLOCKED_BY_DEPENDENCY" => DependsOn[op] \cap Unusable # {},
           status' = [status EXCEPT ![op] = result],
           UNCHANGED <<run, from, store>>
    PROVE  Promise!Next
<1>1. pc \notin {"idle", "rollback"} /\ pc' \notin {"idle", "rollback"}
  BY DEF Active, Loop
<1>2. status[op] = "NONE" /\ op > from /\ from \in Nat
  BY DEF RefinementInv, TypeInv, TypeOK, Control, Op
<1>3. Completed' = Completed /\ Unusable' = Unusable \cup {op}
  BY <1>2 DEF Completed, Unusable, RefinementInv, TypeInv, TypeOK
<1>4. op \notin (1..from) \cup Completed \cup Unusable
  BY <1>2 DEF Completed, Unusable
<1>5. \/ DependsOn[op] \subseteq (1..from) \cup Completed
      \/ DependsOn[op] \cap Unusable # {}
  BY PassedAreDone
<1>6. Promise!GiveUp(op)
  BY <1>1, <1>3, <1>4, <1>5 DEF Promise!GiveUp
<1> QED
  BY <1>6 DEF Promise!Next

\* A call cut short leaves the promise without a verdict.
LEMMA AbandonStep ==
    ASSUME TypeInv, pc' = "idle", UNCHANGED <<run, from, status>>,
           store'[run].state \notin {"COMPLETED", "COMPLETED_WITH_FAILURES"}
    PROVE  Promise!Next
<1>1. Completed' = Completed /\ Unusable' = Unusable
  BY DEF Completed, Unusable
<1>2. Promise!Abandon
  BY <1>1 DEF Promise!Abandon
<1> QED
  BY <1>2 DEF Promise!Next

\* The end of a call concludes the promise, with the verdict its results call for.
LEMMA ConcludeStep ==
    ASSUME RefinementInv, Finish
    PROVE  Promise!Next
<1>1. pc \in {"next", "preview"} /\ op > NumOps /\ pc' = "idle"
      /\ UNCHANGED <<run, from, status>>
  BY DEF Finish, engineVars
<1>2. Completed' = Completed /\ Unusable' = Unusable
  BY <1>1 DEF Completed, Unusable
<1>3. from \in Nat /\ NumOps \in Nat /\ from <= NumOps /\ op \in Nat
  BY PlanAssumption DEF RefinementInv, TypeInv, TypeOK
<1>4. (1..from) \cup Completed \cup Unusable = Op
  <2>1. \A o \in Op : o > from => o \in Completed \cup Unusable
    BY <1>1, <1>3
       DEF RefinementInv, Control, Promising, Completed, Unusable, Loop, Op
  <2> QED
    BY <1>3, <2>1 DEF Completed, Unusable, Op
<1>5. Unusable = {} <=> Failures = {}
  <2>1. CASE pc = "next"
    BY <2>1 DEF RefinementInv, InPlaceSoFar, Unusable, Failures, Loop
  <2>2. CASE pc = "preview"
    BY <1>1, <1>3, <2>2
       DEF RefinementInv, Control, Promising, Unusable, Failures, Op
  <2> QED
    BY <1>1, <2>1, <2>2
<1>6. store'[run].state = IF Unusable = {} THEN "COMPLETED"
                          ELSE "COMPLETED_WITH_FAILURES"
  <2>1. store'[run] = Ended(store[run])
    BY DEF Finish, RefinementInv, TypeInv, TypeOK
  <2> QED
    BY <1>5, <2>1 DEF Ended, RefinementInv, TypeInv, TypeOK, RunRecord
<1>7. Promise!Conclude
  BY <1>1, <1>2, <1>4, <1>6 DEF Promise!Conclude
<1> QED
  BY <1>7 DEF Promise!Next

\* execute() starts a new promise, with what an earlier attempt passed as done.
LEMMA StartStep ==
    ASSUME RefinementInv,
           NEW r \in Run, NEW mode \in Mode, NEW resume \in BOOLEAN,
           Execute(r, mode, resume)
    PROVE  Promise!Next
<1>1. pc = "idle" /\ pc' = "gate" /\ run' = r
  BY DEF Execute
<1>2. store'[r].state = "RUNNING"
  BY DEF Execute, Started, RefinementInv, TypeInv, TypeOK
<1>3. Completed' = {} /\ Unusable' = {}
  BY DEF Execute, Completed, Unusable
<1>4. from' \in 0..NumOps
  BY PlanAssumption DEF Execute, RefinementInv, TypeInv, TypeOK, RunRecord
<1>5. (1..from') \subseteq Op
  BY <1>4, PlanAssumption DEF Op
<1>6. Promise!Start
  BY <1>1, <1>2, <1>3, <1>5 DEF Promise!Start
<1> QED
  BY <1>6 DEF Promise!Next

\* Every step of the engine is a step of the promise, or none.
LEMMA NextImplements ==
    RefinementInv /\ [Next]_vars => [Promise!Next]_(Promise!vars)
<1> SUFFICES ASSUME RefinementInv, [Next]_vars
             PROVE  Promise!Next \/ UNCHANGED Promise!vars
  OBVIOUS
<1>1. ASSUME NEW r \in Run, NEW mode \in Mode, NEW resume \in BOOLEAN,
             Execute(r, mode, resume)
      PROVE  Promise!Next
  BY <1>1, StartStep
<1>2. CASE Admit \/ WouldChange \/ Capture
  BY <1>2, StutterStep
     DEF Admit, WouldChange, Capture, engineVars, RefinementInv, Active, Loop
<1>3. CASE Refuse
  <2>1. store'[run].state = "FAILED"
    BY <1>3 DEF Refuse, RefinementInv, TypeInv, TypeOK, RunRecord
  <2> QED
    BY <1>3, <2>1, AbandonStep DEF Refuse, engineVars, RefinementInv
<1>4. CASE PreviewOnly
  <2>1. op \in Op
    BY <1>4 DEF PreviewOnly, RefinementInv, TypeInv, TypeOK, Op
  <2>2. \A o \in Op : o >= op \/ o <= from \/ (from < o /\ o < op)
    BY PlanAssumption DEF RefinementInv, TypeInv, TypeOK, Op
  <2>3. \A o \in Op : status[o] \in {"NONE", "PREVIEWED"}
    BY <1>4, <2>2 DEF PreviewOnly, RefinementInv, Control, Promising
  <2>4. Unusable = {}
    BY <2>3 DEF Unusable
  <2> QED
    BY <1>4, <2>1, <2>4, CompleteStep DEF PreviewOnly, Active
<1>5. CASE Block
  <2>1. op \in Op
    BY <1>5 DEF Block, RefinementInv, TypeInv, TypeOK, Op
  <2> QED
    BY <1>5, <2>1, GiveUpStep DEF Block, Record_, Active, Loop
<1>6. CASE Skip
  <2>1. op \in Op
    BY <1>6 DEF Skip, RefinementInv, TypeInv, TypeOK, Op
  <2> QED
    BY <1>6, <2>1, CompleteStep DEF Skip, Record_, Active, Loop
<1>7. ASSUME pc \in {"write", "confirm"}, Record_("SUCCEEDED"),
             UNCHANGED <<run, from, store>>
      PROVE  Promise!Next
  BY <1>7, CompleteStep
     DEF Record_, RefinementInv, TypeInv, AtOperation, Written, Active, Loop
<1>8. ASSUME pc \in {"write", "confirm"}, Record_("QUARANTINED"),
             UNCHANGED <<run, from, store>>
      PROVE  Promise!Next
  BY <1>8, GiveUpStep
     DEF Record_, RefinementInv, TypeInv, AtOperation, Written, Active, Loop
<1>9. ASSUME pc \in {"write", "confirm"}, pc' \in {"write", "confirm"},
             UNCHANGED <<run, from, status, store>>
      PROVE  UNCHANGED Promise!vars
  BY <1>9, StutterStep DEF RefinementInv, Active, Loop
<1>10. CASE WriteAccepted
  <2>1. CASE ReplicationDelay > 0
    BY <1>9, <1>10, <2>1 DEF WriteAccepted
  <2>2. CASE ~(ReplicationDelay > 0)
    BY <1>7, <1>10, <2>2 DEF WriteAccepted, Succeed
  <2> QED
    BY <2>1, <2>2
<1>11. CASE WriteRefused \/ WriteAnswerLost
  BY <1>8, <1>9, <1>11
     DEF WriteRefused, WriteAnswerLost, RetryOrQuarantine
<1>12. CASE Confirmed
  BY <1>7, <1>12 DEF Confirmed, Succeed
<1>13. CASE NotYetVisible
  BY <1>8, <1>9, <1>13 DEF NotYetVisible
<1>14. CASE Finish
  BY <1>14, ConcludeStep
<1>15. CASE Abort
  BY <1>15, AbandonStep
     DEF Abort, engineVars, RefinementInv, Promising, Active, Loop
<1>16. CASE Crash
  <2>1. CASE Durable /\ pc = "rollback"
    BY <1>16, <2>1, StutterStep
       DEF Crash, engineVars, RefinementInv, Active, Loop
  <2>2. CASE Durable /\ pc # "rollback"
    BY <1>16, <2>2, AbandonStep
       DEF Crash, engineVars, RefinementInv, Promising, TypeInv, TypeOK,
           Active, Loop
  <2>3. CASE ~Durable
    BY <1>16, <2>3, AbandonStep
       DEF Crash, engineVars, RefinementInv, NoRecord, TypeInv, TypeOK
  <2> QED
    BY <2>1, <2>2, <2>3
<1>17. CASE Undoing
  BY <1>17, StutterStep
     DEF Undoing, UndoOne, UndoFails, RollbackDone, engineVars, RefinementInv,
         Active, Loop
<1>18. ASSUME NEW r \in Run, Rollback(r) PROVE UNCHANGED Promise!vars
  BY <1>18, StutterStep
     DEF Rollback, engineVars, RefinementInv, Active, Loop
<1>19. ASSUME NEW r \in Run, RequestPause(r) PROVE UNCHANGED Promise!vars
  <2>1. store'[run].state = store[run].state
    BY <1>19 DEF RequestPause, RefinementInv, TypeInv, TypeOK, RunRecord
  <2> QED
    BY <1>19, <2>1, StutterStep
       DEF RequestPause, engineVars, RefinementInv, TypeInv, TypeOK, Active,
           Loop
<1>20. CASE UNCHANGED vars
  BY <1>20, StutterStep
     DEF vars, engineVars, RefinementInv, TypeInv, TypeOK, Active, Loop
<1> QED
  BY <1>1, <1>2, <1>3, <1>4, <1>5, <1>6, <1>10, <1>11, <1>12, <1>13, <1>14,
     <1>15, <1>16, <1>17, <1>18, <1>19, <1>20 DEF Next, Apply

\* For every plan and platform, the engine with its connector, retries, polling,
\* resumption and crashes keeps the promise of Rollout: operations are brought
\* about in dependency order and the recorded state owns up to those given up.
THEOREM EngineImplementsRollout == Spec => ImplementsRollout
<1>1. Init => RefinementInv
  BY InitType, InitControl
     DEF Init, RefinementInv, InPlaceSoFar, Promising, Active, Loop
<1>2. RefinementInv /\ [Next]_vars => RefinementInv'
  BY NextType, NextControl, NextWritten, NextInPlace, NextPromising
     DEF RefinementInv
<1>3. Init => Promise!Init
  BY DEF Init, Promise!Init, Completed, Unusable, NoRecord
<1>4. RefinementInv /\ [Next]_vars => [Promise!Next]_(Promise!vars)
  BY NextImplements
<1> QED
  BY <1>1, <1>2, <1>3, <1>4, PTL DEF Spec, ImplementsRollout, Promise!Spec

=============================================================================
