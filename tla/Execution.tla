----------------------------- MODULE Execution -----------------------------
(***************************************************************************)
(* The execution core: ExecutionEngine driving Connector.apply over one    *)
(* ApplyPlan, the RunStore it checkpoints to, and the target platform the  *)
(* connector writes to (the reference connector and its in-memory PBX).    *)
(*                                                                         *)
(* One action stands for the code between two suspension points (every     *)
(* call into the platform is awaited), so a crash, an abort or a pause     *)
(* request may fall between any two of them.  The engine calls of one      *)
(* estate are serialised by its session lock, hence a single program       *)
(* counter; Workspace.tla models the callers around that lock.             *)
(*                                                                         *)
(* Operations are numbered in the order operations_in_dependency_order     *)
(* gives them, so every dependency of an operation has a smaller number.   *)
(***************************************************************************)
EXTENDS Integers, Sequences, FiniteSets

CONSTANTS
    Run,               \* run identifiers
    Key,               \* native keys of target objects
    Value,             \* records a target object may hold
    Absent,            \* "no such object" (None)
    NumOps,            \* length of the plan
    KeyOf,             \* the native key each operation writes
    Desired,           \* the record each operation wants under its key
    DependsOn,         \* WriteOperation.depends_on
    MaxAttempts,       \* manifest.rate_limits.max_attempts
    ReplicationDelay,  \* reads until a written object becomes readable
    Durable            \* TRUE: JsonFileRunStore, FALSE: InMemoryRunStore

Op == 1..NumOps

ASSUME PlanAssumption ==
    /\ NumOps \in Nat
    /\ KeyOf \in [Op -> Key]
    /\ Desired \in [Op -> Value]
    /\ DependsOn \in [Op -> SUBSET Op]
    /\ \A o \in Op : \A d \in DependsOn[o] : d < o

ASSUME PlatformAssumption ==
    /\ Absent \notin Value
    /\ MaxAttempts \in Nat \ {0}
    /\ ReplicationDelay \in Nat
    /\ Durable \in BOOLEAN

VARIABLES
    target,    \* the platform's collections
    pending,   \* _pending_visibility: reads left until visible, 0 when no entry
    store,     \* the RunStore
    pc,        \* where the engine is suspended
    run,       \* run id of the latest execute call
    from,      \* its resume_after_op_id, 0 for None
    op,        \* operation at the loop head
    tries,     \* attempt number in _execute_with_retry
    pre,       \* pre_state captured for op
    status,    \* results of this apply call
    cursor,    \* checkpoint of this apply call, 0 for None
    inverse,   \* inverse_ops, in the order appended
    undo       \* operations of a rollback bundle still to apply

(***************************************************************************)
(* Observation variables: no action's guard reads them.                    *)
(***************************************************************************)
VARIABLES
    base,      \* the target when the latest apply call started
    clear,     \* was every object readable then?
    accepted,  \* operations whose write has reached the target since
    unaudited, \* writes that reached the target and are in no audit record
    last       \* how the latest apply call ended, and whether it was undone

engineVars == <<run, from, op, tries, pre, status, cursor, inverse>>
observers  == <<base, clear, accepted, unaudited, last>>
vars == <<target, pending, store, pc, engineVars, undo, observers>>

Record == Value \cup {Absent}
Status   == {"NONE", "SUCCEEDED", "SKIPPED_NO_CHANGE", "PREVIEWED",
             "QUARANTINED", "BLOCKED_BY_DEPENDENCY"}
Mode     == {"DRY_RUN", "PRODUCTION"}
RunState == {"PENDING", "RUNNING", "COMPLETED", "COMPLETED_WITH_FAILURES",
             "FAILED"}

\* An inverse operation restores a record under a key; Absent is a DELETE.
Inverse  == [key : Key, record : Record]
Bundle   == [present : BOOLEAN, operations : Seq(Inverse)]
NoBundle == [present |-> FALSE, operations |-> <<>>]
RunRecord == [state : RunState, mode : Mode, checkpoint : 0..NumOps,
              completed : SUBSET Op, bundle : Bundle, pause : BOOLEAN]

\* Stands for get() returning None: a run nobody started yet.
NoRecord == [state |-> "PENDING", mode |-> "DRY_RUN", checkpoint |-> 0,
             completed |-> {}, bundle |-> NoBundle, pause |-> FALSE]

Init ==
    /\ target \in [Key -> Record]
    /\ pending = [k \in Key |-> 0]
    /\ store = [r \in Run |-> NoRecord]
    /\ pc = "idle"
    /\ run \in Run
    /\ from = 0 /\ op = 1 /\ tries = 0 /\ cursor = 0
    /\ pre = Absent
    /\ status = [o \in Op |-> "NONE"]
    /\ inverse = <<>> /\ undo = <<>>
    /\ base = target /\ clear = TRUE
    /\ accepted = {} /\ unaudited = {} /\ last = "none"

-----------------------------------------------------------------------------
(***************************************************************************)
(* The platform.                                                           *)
(***************************************************************************)

\* get_record: an object written recently reads as absent until its
\* visibility counter has run down; each read runs it down by one.
Read(k) == IF pending[k] > 1 THEN Absent ELSE target[k]
ObserveBelowZero(k) ==   \* mutant: the counter is never dropped at zero
    pending' = [pending EXCEPT ![k] = @ - 1]
Observe(k) ==
    pending' = [pending EXCEPT ![k] = IF @ > 1 THEN @ - 1 ELSE 0]

\* upsert, and delete for Absent.  Only an upsert restarts the counter.
Put(k, record) ==
    /\ target' = [target EXCEPT ![k] = record]
    /\ pending' = IF record # Absent /\ ReplicationDelay > 0
                  THEN [pending EXCEPT ![k] = ReplicationDelay]
                  ELSE pending

-----------------------------------------------------------------------------
(***************************************************************************)
(* Starting a run.                                                         *)
(***************************************************************************)

\* The record execute() puts before calling apply: a new attempt starts with
\* no bundle and no pause request, whatever the stored record held.
Started(mode, resumed, existing) ==
    [state |-> "RUNNING", mode |-> mode,
     checkpoint |-> IF resumed THEN existing.checkpoint ELSE 0,
     completed |-> IF resumed THEN existing.completed ELSE {},
     bundle |-> NoBundle, pause |-> FALSE]

\* execute() up to the call of apply.  Resuming a COMPLETED run returns its
\* summary and a run of another plan is refused: neither changes anything.
Execute(r, mode, resume) ==
    /\ pc = "idle"
    /\ resume => store[r].state # "COMPLETED"
    /\ store' = [store EXCEPT ![r] = Started(mode, resume, @)]
    /\ pc' = "gate"
    /\ run' = r
    /\ from' = IF resume THEN store[r].checkpoint ELSE 0
    /\ op' = from' + 1
    /\ tries' = 0 /\ pre' = Absent /\ cursor' = 0 /\ inverse' = <<>>
    /\ status' = [o \in Op |-> "NONE"]
    /\ base' = target
    /\ clear' = (\A k \in Key : pending[k] <= 1)
    /\ accepted' = {} /\ last' = "running"
    /\ UNCHANGED <<target, pending, undo, unaudited>>

\* apply's whole-plan checks pass (Authorization.tla models them).
Admit ==
    /\ pc = "gate"
    /\ pc' = IF store[run].mode = "DRY_RUN" THEN "preview" ELSE "next"
    /\ UNCHANGED <<target, pending, store, engineVars, undo, observers>>

\* A GuardrailViolation: the record becomes FAILED and the error is raised.
Refuse ==
    /\ pc = "gate"
    /\ store' = [store EXCEPT ![run] = [@ EXCEPT !.state = "FAILED",
                                                   !.pause = FALSE]]
    /\ pc' = "idle"
    /\ last' = "refused"
    /\ UNCHANGED <<target, pending, engineVars, undo, base, clear, accepted,
                   unaudited>>

-----------------------------------------------------------------------------
(***************************************************************************)
(* _run_dry: preview every operation, write nothing.                       *)
(***************************************************************************)

PreviewOnly ==
    /\ pc = "preview" /\ op <= NumOps
    /\ Observe(KeyOf[op])
    /\ status' = [status EXCEPT ![op] = "PREVIEWED"]
    /\ op' = op + 1
    /\ UNCHANGED <<target, store, pc, run, from, tries, pre, cursor, inverse,
                   undo, observers>>

-----------------------------------------------------------------------------
(***************************************************************************)
(* _run_production, one operation at a time.                               *)
(***************************************************************************)

UnusableWithoutBlocked ==   \* mutant: a blocked operation is not marked
    {o \in Op : status[o] = "QUARANTINED"}
\* The local set `unusable`: what this apply call could not bring about.
Unusable == {o \in Op : status[o] \in {"QUARANTINED", "BLOCKED_BY_DEPENDENCY"}}

\* The loop reaches the next operation with `result` recorded for this one.
Record_(result) ==
    /\ status' = [status EXCEPT ![op] = result]
    /\ op' = op + 1
    /\ pc' = "next"
    /\ tries' = 0 /\ pre' = Absent

\* A dependency is unusable: the operation is not attempted.
Block ==
    /\ pc = "next" /\ op <= NumOps
    /\ DependsOn[op] \cap Unusable # {}
    /\ Record_("BLOCKED_BY_DEPENDENCY")
    /\ UNCHANGED <<target, pending, store, run, from, cursor, inverse, undo,
                   observers>>

\* The preview finds the target already as desired: not a write.
Skip ==
    /\ pc = "next" /\ op <= NumOps
    /\ DependsOn[op] \cap Unusable = {}
    /\ Read(KeyOf[op]) = Desired[op]
    /\ Observe(KeyOf[op])
    /\ Record_("SKIPPED_NO_CHANGE")
    /\ cursor' = op
    /\ UNCHANGED <<target, store, run, from, inverse, undo, observers>>

WouldChangeUnchecked ==   \* mutant: every operation is written
    /\ pc = "next" /\ op <= NumOps
    /\ DependsOn[op] \cap Unusable = {}
    /\ Observe(KeyOf[op])
    /\ pc' = "capture"
    /\ UNCHANGED <<target, store, engineVars, undo, observers>>

\* The preview finds a difference.
WouldChange ==
    /\ pc = "next" /\ op <= NumOps
    /\ DependsOn[op] \cap Unusable = {}
    /\ Read(KeyOf[op]) # Desired[op]
    /\ Observe(KeyOf[op])
    /\ pc' = "capture"
    /\ UNCHANGED <<target, store, engineVars, undo, observers>>

\* _capture_pre_state: a second read of the same object.
Capture ==
    /\ pc = "capture"
    /\ pre' = Read(KeyOf[op])
    /\ Observe(KeyOf[op])
    /\ tries' = 1
    /\ pc' = "write"
    /\ UNCHANGED <<target, store, run, from, op, status, cursor, inverse,
                   undo, observers>>

\* Bookkeeping of an operation that counts as successful: the cursor moves
\* and its inverse restores the captured pre-state.
Succeed ==
    /\ Record_("SUCCEEDED")
    /\ cursor' = op
    /\ inverse' = Append(inverse, [key |-> KeyOf[op], record |-> pre])

RequeueInstead(retryable) ==   \* mutant: the operation is taken up again
    /\ IF retryable /\ tries < MaxAttempts
       THEN tries' = tries + 1 /\ UNCHANGED <<pc, op, pre, status>>
       ELSE /\ pc' = "next" /\ tries' = 0 /\ pre' = Absent
            /\ UNCHANGED <<op, status>>
    /\ UNCHANGED <<cursor, inverse>>
\* A retryable error sends the loop round again until the attempts run out; any
\* other error, or the last attempt, quarantines the operation.
RetryOrQuarantine(retryable) ==
    /\ IF retryable /\ tries < MaxAttempts
       THEN tries' = tries + 1 /\ UNCHANGED <<pc, op, pre, status>>
       ELSE Record_("QUARANTINED")
    /\ UNCHANGED <<cursor, inverse>>

\* The write reaches the platform.
Land ==
    /\ Put(KeyOf[op], Desired[op])
    /\ accepted' = accepted \cup {op}
    /\ unaudited' = unaudited \cup {op}
    /\ UNCHANGED <<base, clear, last>>

\* _execute_operation returns.  Where the platform replicates lazily every
\* kind is in confirm_required_for_kinds, and the write awaits confirmation.
WriteAccepted ==
    /\ pc = "write"
    /\ Land
    /\ IF ReplicationDelay > 0
       THEN pc' = "confirm"
            /\ UNCHANGED <<op, tries, pre, status, cursor, inverse>>
       ELSE Succeed
    /\ UNCHANGED <<store, run, from, undo>>

\* The platform refuses the write.
WriteRefused ==
    /\ pc = "write"
    /\ \E retryable \in BOOLEAN : RetryOrQuarantine(retryable)
    /\ UNCHANGED <<target, pending, store, run, from, undo, observers>>

\* The write lands but its answer is lost (a reset connection): the caller
\* sees a retryable error.
WriteAnswerLost ==
    /\ pc = "write"
    /\ Land
    /\ RetryOrQuarantine(TRUE)
    /\ UNCHANGED <<store, run, from, undo>>

\* One confirm poll sees the object.
Confirmed ==
    /\ pc = "confirm"
    /\ Read(KeyOf[op]) # Absent
    /\ Observe(KeyOf[op])
    /\ Succeed
    /\ UNCHANGED <<target, store, run, from, undo, observers>>

\* One confirm poll does not see it; the deadline is checked after the read
\* and may have passed by then, which quarantines the accepted write.
NotYetVisible ==
    /\ pc = "confirm"
    /\ Read(KeyOf[op]) = Absent
    /\ Observe(KeyOf[op])
    /\ \/ UNCHANGED <<pc, op, tries, pre, status>>
       \/ Record_("QUARANTINED")
    /\ UNCHANGED <<target, store, run, from, cursor, inverse, undo, observers>>

-----------------------------------------------------------------------------
(***************************************************************************)
(* Ending a run.                                                           *)
(***************************************************************************)

InOrder(s) == s   \* mutant: the bundle is not reversed
Reversed(s) == [i \in 1..Len(s) |-> s[Len(s) + 1 - i]]

\* The statuses execute() counts as completed, and those failures() lists.
Completed == {o \in Op : status[o] \in
                  {"SUCCEEDED", "SKIPPED_NO_CHANGE", "PREVIEWED"}}
NoFailures == {}   \* mutant: quarantined results are not failures
Failures == {o \in Op : status[o] = "QUARANTINED"}

EndedAtCursor(started) ==   \* mutant: an empty cursor replaces the checkpoint
    [started EXCEPT
        !.state = IF Failures # {} THEN "COMPLETED_WITH_FAILURES"
                  ELSE "COMPLETED",
        !.checkpoint = cursor,
        !.completed = @ \cup Completed,
        !.bundle = IF started.mode = "DRY_RUN" THEN NoBundle
                   ELSE [present |-> TRUE, operations |-> Reversed(inverse)],
        !.pause = FALSE]
\* The record execute() puts after apply returned.  It is derived from the
\* record put at the start, not re-read, so a pause requested since is lost.
Ended(started) ==
    [started EXCEPT
        !.state = IF Failures # {} THEN "COMPLETED_WITH_FAILURES"
                  ELSE "COMPLETED",
        !.checkpoint = IF cursor # 0 THEN cursor ELSE from,
        !.completed = @ \cup Completed,
        !.bundle = IF started.mode = "DRY_RUN" THEN NoBundle
                   ELSE [present |-> TRUE, operations |-> Reversed(inverse)],
        !.pause = FALSE]

\* apply returns, every result is audited, the record is put.
Finish ==
    /\ pc \in {"next", "preview"} /\ op > NumOps
    /\ store' = [store EXCEPT ![run] = Ended(store[run])]
    /\ pc' = "idle"
    /\ unaudited' = unaudited \ accepted
    /\ last' = IF pc = "next" THEN "finished" ELSE "previewed"
    /\ UNCHANGED <<target, pending, engineVars, undo, base, clear, accepted>>

\* An exception that is no GuardrailViolation leaves apply: from a whole-plan
\* check, a read of the target, or a write that broke in another way than with
\* a ConnectorError.  execute() does not catch it, and the report,
\* with results and inverse operations, is gone.
Abort ==
    /\ pc \in {"gate", "preview", "next", "capture", "write", "confirm"}
    /\ pc \in {"preview", "next"} => op <= NumOps
    /\ pc' = "idle"
    /\ last' = "aborted"
    /\ UNCHANGED <<target, pending, store, engineVars, undo, base, clear,
                   accepted, unaudited>>

\* The process dies and is restarted; the store survives only if durable.
Crash ==
    /\ pc # "idle"
    /\ pc' = "idle"
    /\ store' = IF Durable THEN store ELSE [r \in Run |-> NoRecord]
    /\ undo' = <<>>
    /\ last' = "aborted"
    /\ UNCHANGED <<target, pending, engineVars, base, clear, accepted,
                   unaudited>>

-----------------------------------------------------------------------------
(***************************************************************************)
(* Rollback and pause.                                                     *)
(***************************************************************************)

\* rollback() is called with the stored bundle of run r.
Rollback(r) ==
    /\ pc = "idle"
    /\ store[r].bundle.present
    /\ undo' = store[r].bundle.operations
    /\ pc' = "rollback"
    /\ last' = IF r = run /\ last \in {"finished", "undone"}
               THEN "undoing" ELSE "other"
    /\ UNCHANGED <<target, pending, store, engineVars, base, clear, accepted,
                   unaudited>>

\* One inverse operation is executed; _execute_operation is called directly.
UndoOne ==
    /\ pc = "rollback" /\ undo # <<>>
    /\ Put(Head(undo).key, Head(undo).record)
    /\ undo' = Tail(undo)
    /\ UNCHANGED <<store, pc, engineVars, observers>>

\* It fails, before or after the write reached the platform: recorded as
\* FAILED, and the loop goes on with the next one.
UndoFails ==
    /\ pc = "rollback" /\ undo # <<>>
    /\ \/ Put(Head(undo).key, Head(undo).record)
       \/ UNCHANGED <<target, pending>>
    /\ undo' = Tail(undo)
    /\ last' = "other"
    /\ UNCHANGED <<store, pc, engineVars, base, clear, accepted, unaudited>>

\* rollback() returns; it puts no run record.
RollbackDone ==
    /\ pc = "rollback" /\ undo = <<>>
    /\ pc' = "idle"
    /\ last' = IF last = "undoing" THEN "undone" ELSE last
    /\ UNCHANGED <<target, pending, store, engineVars, undo, base, clear,
                   accepted, unaudited>>

\* request_pause: a read-modify-write of the stored record, between any two
\* suspension points of a run.
RequestPause(r) ==
    /\ store[r] # NoRecord
    /\ store' = [store EXCEPT ![r].pause = TRUE]
    /\ UNCHANGED <<target, pending, pc, engineVars, undo, observers>>

-----------------------------------------------------------------------------
Apply ==
    \/ Admit \/ PreviewOnly
    \/ Block \/ Skip \/ WouldChange \/ Capture
    \/ WriteAccepted \/ WriteRefused \/ WriteAnswerLost
    \/ Confirmed \/ NotYetVisible
    \/ Finish
Undoing == UndoOne \/ UndoFails \/ RollbackDone

Next ==
    \/ \E r \in Run, mode \in Mode, resume \in BOOLEAN :
           Execute(r, mode, resume)
    \/ Apply \/ Refuse \/ Abort \/ Crash
    \/ \E r \in Run : Rollback(r) \/ RequestPause(r)
    \/ Undoing

Spec == Init /\ [][Next]_vars

\* The event loop runs a started coroutine on: apply and rollback take their
\* next step.  Nobody has to call execute, rollback or request_pause.
FairSpec == Spec /\ WF_vars(Apply) /\ WF_vars(Undoing)
-----------------------------------------------------------------------------
(***************************************************************************)
(* Properties the code keeps.                                              *)
(***************************************************************************)

\* Every variable stays in the set of values its Python counterpart has.
TypeOK ==
    /\ target \in [Key -> Record]
    /\ pending \in [Key -> 0..ReplicationDelay]
    /\ store \in [Run -> RunRecord]
    /\ pc \in {"idle", "gate", "preview", "next", "capture", "write",
              "confirm", "rollback"}
    /\ run \in Run
    /\ from \in 0..NumOps /\ cursor \in 0..NumOps
    /\ op \in 1..NumOps + 1
    /\ tries \in 0..MaxAttempts
    /\ pre \in Record
    /\ status \in [Op -> Status]
    /\ inverse \in Seq(Inverse) /\ undo \in Seq(Inverse)
    /\ base \in [Key -> Record] /\ clear \in BOOLEAN
    /\ accepted \subseteq Op /\ unaudited \subseteq Op
    /\ last \in {"none", "running", "refused", "finished", "previewed",
                "aborted", "undoing", "undone", "other"}

\* No operation is written unless each of its dependencies that this call of
\* apply ran through either succeeded or needed no change, at any distance down
\* the dependency graph (_run_production's handling of `unusable`).
DependenciesInPlace ==
    \A o \in accepted : \A d \in DependsOn[o] :
        d > from => status[d] \in {"SUCCEEDED", "SKIPPED_NO_CHANGE"}

\* The last operation on every key has what it wants.
InPlace ==
    \A o \in Op : (\A p \in Op : p > o => KeyOf[p] # KeyOf[o])
                    => target[KeyOf[o]] = Desired[o]

\* A run that was not resumed is recorded COMPLETED only if the target holds
\* everything the plan wants, whatever was throttled, refused, answered late
\* or skipped on the way (execute's choice of the final state).
CompletedMeansInPlace ==
    last = "finished" /\ from = 0 /\ store[run].state = "COMPLETED" => InPlace

\* Writes that reached the target without counting as successful.
Unconfirmed == {o \in accepted : status[o] # "SUCCEEDED"}

\* Rolling back the run that finished last puts every object back to what it was
\* when the run started, also where several operations wrote the same object;
\* objects with an unconfirmed write are outside the bundle, and every object
\* must have been readable when the run started.
RollbackRestores ==
    last = "undone" /\ clear =>
        \A k \in Key : (\A o \in Unconfirmed : KeyOf[o] # k)
                          => target[k] = base[k]

\* Running a plan against a target that already holds what it wants writes
\* nothing (the preview's would_change, and the re-run criterion).
RerunWritesNothing ==
    clear /\ (\A o \in Op : o > from => base[KeyOf[o]] = Desired[o])
        => accepted = {}

\* An attempt never moves the stored checkpoint backwards, even when none of its
\* own operations succeeds.
AttemptKeepsCheckpoint ==
    [][\A r \in Run :
        pc # "idle" /\ store'[r].state # "PENDING"
            => store'[r].checkpoint >= store[r].checkpoint]_vars

\* Every started apply or rollback comes to an end: retries are bounded and
\* confirm polling stops at visibility or at the deadline.
EveryCallEnds == pc # "idle" ~> pc = "idle"

\* What an apply call promises its callers: see Rollout.
Promise == INSTANCE Rollout WITH
    phase   <- IF pc \in {"idle", "rollback"} THEN "idle" ELSE "running",
    done    <- (1..from) \cup Completed,
    failed  <- Unusable,
    verdict <- CASE store[run].state = "COMPLETED" -> "complete"
                 [] store[run].state = "COMPLETED_WITH_FAILURES" -> "partial"
                 [] OTHER -> "none"

\* The engine with its connector implements that promise.
ImplementsRollout == Promise!Spec

-----------------------------------------------------------------------------
(***************************************************************************)
(* Statements of the documentation the code does not keep.                 *)
(***************************************************************************)

\* "Progress is checkpointed to a store after every operation."
ProgressIsDurable ==
    pc = "next" /\ cursor # 0 => store[run].checkpoint = cursor

\* The checkpoint is the "last operation known to be durably complete.
\* Resumption starts after it": what a resumed run leaves out was completed.
ResumeSkipsOnlyCompleted ==
    pc \in {"preview", "next", "write"} =>
        1..from \subseteq store[run].completed

\* depends_on: "op_ids that must succeed first", over all attempts of a run.
DependenciesSucceededFirst ==
    pc = "write" => DependsOn[op] \subseteq store[run].completed \cup Completed

\* "Partial rollback is disclosed, never silent": a bundle with no
\* incomplete_reason undoes every write of its run.  (Every operation of the
\* reference connector can be inverted, so incomplete_reason is never set.)
BundleCoversWrites ==
    last = "finished" =>
        \A o \in accepted : \E i \in DOMAIN inverse : inverse[i].key = KeyOf[o]

\* The same over attempts: resuming a finished run keeps the means to undo it.
ResumeKeepsBundle ==
    [][\A r \in Run :
        store[r].bundle.present /\ store'[r].state # "PENDING" /\ from' # 0
            => store'[r].bundle.present]_vars

\* "Pause, resume, and rollback are first-class states": once a pause is on
\* record, the run starts no further write.
PauseStopsTheRun ==
    [][pc = "next" /\ store[run].pause => pc' # "capture"]_vars

\* The same sentence: a rolled-back run is recorded as rolled back.
RollbackIsRecorded == last = "undone" => store[run].state = "ROLLED_BACK"

\* "Every operation produces an audit record with before/after state."
WritesAreAudited == last = "finished" => unaudited = {}

\* The reference connector's "rollback is real": with confirm-polling against a
\* lagging platform too, undoing a run restores what it overwrote.
RollbackRestoresUnderLag ==
    last = "undone" =>
        \A k \in Key : (\A o \in Unconfirmed : KeyOf[o] # k)
                          => target[k] = base[k]
=============================================================================
