----------------------------- MODULE RoundTrip -----------------------------
(***************************************************************************)
(* A migration on the reference platform from end to end: the source is    *)
(* discovered and assessed, a plan of it is applied to the target, some    *)
(* operations failing, runs are rolled back, and what the target holds     *)
(* then is compared with what was discovered.  The source goes on being    *)
(* administered meanwhile.                                                 *)
(*                                                                         *)
(* A run is one step here; that it is more, is Execution.  The platform of *)
(* this scenario has no replication lag, so an operation that fails has    *)
(* left nothing behind.                                                    *)
(***************************************************************************)
EXTENDS Validation

CONSTANTS Sources,     \* what the source estate may hold, sets of records
          InitialTargets,  \* what the target estate may hold to begin with
          EditedTo,    \* bound: those of them a change of the source leads to
          MaxEdits,    \* bound: changes of the source
          MaxRuns,     \* bound: runs
          MaxWaiting   \* bound: validations that wait for the lock at a time

\* A platform holds finitely many records; neither None nor the marker of
\* reconcile() is a key of a user or a number; of a site that is validated is
\* known when.
IsEstate(estate) ==
    /\ IsFiniteSet(estate)
    /\ \A r \in estate :
          /\ r.kind \in Collections
          /\ r.kind \in {"User", "E164Number"} => r.key \notin {None, UNRESOLVED}
          /\ r.kind = "EmergencyLocation" /\ r.says.validated => r.says.on # None

\* A target of this connector: every record under its natural key, lines too,
\* and one to a place.
IsKeyed(estate) ==
    /\ \A r \in estate : Place(r) = Composite(Extracted(r))
    /\ \A r, w \in estate : Place(r) = Place(w) => r = w

\* Every key of a record, and every key one names.
NativeKeys ==
    UNION {{r.key, r.site, r.owner, r.number, NaturalKey(Extracted(r))} :
              r \in UNION (Sources \cup InitialTargets)}

ASSUME RoundTripAssumption ==
    /\ EditedTo \subseteq Sources
    /\ MaxEdits \in Nat /\ MaxRuns \in Nat /\ MaxWaiting \in Nat
    /\ \A estate \in Sources :
          /\ IsEstate(estate)
          /\ \A e \in Extract(estate) : KeyFor(e) = NaturalKey(e)
    /\ \A estate \in InitialTargets : IsEstate(estate) /\ IsKeyed(estate)

ASSUME NoneIsNothingElse ==
    /\ None # UNRESOLVED
    /\ \A estate \in Sources : None \notin {estate, Extract(estate)}
    /\ \A kind \in Collections, key \in NativeKeys \cup {None} :
          None # <<kind, key>>

VARIABLES source, target,    \* the two platforms, sets of records
          snapshot, assessment, plan_result, validation,   \* of the session
          run,         \* the last run: the snapshot it was planned from, its
                       \* plan, the operations that succeeded, the target
                       \* before and after it
          validating,  \* the validations that wait for the session's lock, by
                       \* the estate whose snapshot each has read; several of
                       \* one estate are one
          discovered,  \* history: the records the snapshot was read from
          edits, runs
vars == <<source, target, snapshot, assessment, plan_result, validation, run,
          validating, discovered, edits, runs>>

Init ==
    /\ source \in Sources /\ target \in InitialTargets
    /\ snapshot = None /\ assessment = None /\ plan_result = None
    /\ validation = None /\ run = None /\ validating = {} /\ discovered = None
    /\ edits = 0 /\ runs = 0

\* An administrator of the source.
Edit(to) ==
    /\ edits < MaxEdits /\ to # source
    /\ source' = to /\ edits' = edits + 1
    /\ UNCHANGED <<target, snapshot, assessment, plan_result, validation, run,
                   validating, discovered, runs>>

\* Workspace.discover()
Discover ==
    /\ snapshot' = Extract(source) /\ discovered' = source
    /\ assessment' = None /\ plan_result' = None /\ validation' = None
    /\ UNCHANGED <<source, target, run, validating, edits, runs>>

\* Workspace.assess()
Assess ==
    /\ snapshot # None
    /\ assessment' = Assessed(snapshot)
    /\ UNCHANGED <<source, target, snapshot, plan_result, validation, run,
                   validating, discovered, edits, runs>>

\* POST assessment/{rule_id}/waive
Waive(rule) ==
    /\ assessment # None
    /\ \E f \in assessment : f.rule = rule
    /\ assessment' = Waived(assessment, rule)
    /\ UNCHANGED <<source, target, snapshot, plan_result, validation, run,
                   validating, discovered, edits, runs>>

\* Workspace.build_plan() for the reference scenario, whatever the assessment
\* found.
BuildPlan ==
    /\ snapshot # None
    /\ plan_result' = BuildResult(snapshot, {})
    /\ UNCHANGED <<source, target, snapshot, assessment, validation, run,
                   validating, discovered, edits, runs>>

\* Workspace.execute(): the platform refuses some operations, those that
\* depend on one that did not succeed are blocked, the others are written; of
\* several with one place one is written last.
Execute(failed) ==
    LET operations == plan_result.operations
        Waits(o)   == o.depends_on \cap {p.id : p \in failed} # {}
        records    == {RecordOf(o) : o \in operations \ failed}
    IN  /\ plan_result # None /\ runs < MaxRuns
        /\ \A o \in operations : Waits(o) => o \in failed
        /\ \E last \in SUBSET records :
              /\ \A r \in records : \E w \in last : Place(w) = Place(r)
              /\ \A r, w \in last : Place(w) = Place(r) => w = r
              /\ target' = Stored(target, last)
        /\ run' = [planned |-> snapshot, plan |-> plan_result,
                   succeeded |-> operations \ failed,
                   before |-> target, after |-> target']
        /\ runs' = runs + 1
        /\ UNCHANGED <<source, snapshot, assessment, plan_result, validation,
                       validating, discovered, edits>>

\* Workspace.rollback() of that run.
Rollback ==
    /\ run # None
    /\ target' = Restored(target, {Place(RecordOf(o)) : o \in run.succeeded},
                          run.before)
    /\ run' = None
    /\ UNCHANGED <<source, snapshot, assessment, plan_result, validation,
                   validating, discovered, edits, runs>>

\* Workspace.validate(): the snapshot is read, and the lock awaited.
StartValidate ==
    /\ snapshot # None /\ Cardinality(validating) < MaxWaiting
    /\ validating' = validating \cup {discovered}
    /\ UNCHANGED <<source, target, snapshot, assessment, plan_result, validation,
                   run, discovered, edits, runs>>

\* The lock is had: the target as it is, against the snapshot read before,
\* whatever the session has discovered since.
FinishValidate(of) ==
    LET then == Extract(of)
        held == Extract(target)
    IN  /\ of \in validating
        /\ validating' = validating \ {of}
        /\ \E s \in ByKey(then), t \in ByKey(held) :
              validation' = [of |-> of, held |-> target,
                             failed |-> Failed(then, held,
                                            Differences(then, s, held, t))]
        /\ UNCHANGED <<source, target, snapshot, assessment, plan_result, run,
                       discovered, edits, runs>>

Next ==
    \/ \E to \in EditedTo : Edit(to)
    \/ Discover
    \/ Assess
    \/ \E rule \in DOMAIN SeverityOf : Waive(rule)
    \/ BuildPlan
    \/ plan_result # None
       /\ \E failed \in SUBSET plan_result.operations : Execute(failed)
    \/ Rollback
    \/ StartValidate
    \/ \E of \in validating : FinishValidate(of)

Spec == Init /\ [][Next]_vars
-----------------------------------------------------------------------------
Findings == [rule : DOMAIN SeverityOf, severity : Severity, status : FindingStatus]

\* The snapshot is of the estate discovered last, a report of one that was, a
\* BLOCKER is never waived, and a place of the target holds one record.
TypeOK ==
    /\ source \in Sources
    /\ (snapshot = None) = (discovered = None)
    /\ snapshot # None => discovered \in Sources /\ snapshot = Extract(discovered)
    /\ assessment # None =>
          /\ assessment \subseteq Findings
          /\ \A f \in assessment : f.severity = "BLOCKER" => f.status = "OPEN"
    /\ validation # None => validation.of \in Sources
    /\ validating \subseteq Sources
    /\ \A r, w \in target : Place(r) = Place(w) => r = w
    /\ edits \in 0..MaxEdits /\ runs \in 0..MaxRuns

\* A reference to a record of the estate.
Names(estate, kind, key) == \E r \in estate : r.kind = kind /\ r.key = key

\* One record for another: what the connector reads of a record, and the name
\* it has for its user, its number or its ELIN, have come over.
Carried(r, from, w, into) ==
    /\ w.kind = r.kind /\ w.site = r.site
    /\ Extracted(w).said = Extracted(r).said
    /\ NaturalKey(Extracted(w)) = NaturalKey(Extracted(r))
    /\ Names(from, "User", r.owner) \/ r.owner = None => w.owner = r.owner
    /\ Names(from, "E164Number", r.number) \/ r.number = None => w.number = r.number

\* When validation passes, every record of the estate whose snapshot it read is
\* on the target, with its owner and its number where the estate has them,
\* whatever failed, was rolled back, discovered meanwhile or there before
\* (validate, reconcile, _object_counts: keys that fall together, references
\* resolved on both sides).  What is not read is not compared: PassedMeansAll.
PassedMeansCarriedOver ==
    validation # None /\ Passed(validation) =>
        \A r \in validation.of : \E w \in validation.held :
            Carried(r, validation.of, w, validation.held)

\* What the connector can write as it was read: a site with a name of its own,
\* validated on a day, and a user with both fields of the name, null or not.
IsPlain(r) ==
    /\ r.kind = "EmergencyLocation" =>
          /\ r.says.name # None
          /\ r.says.validated => DatePart(r.says.on) = r.says.on
    /\ r.kind = "User" => ABSENT \notin {r.says.first, r.says.last}

\* The other way round: a run that completed, of a plan without unresolved
\* references, for an estate of plain records with distinct keys, on a target
\* that held nothing besides, passes every check but that of emergency
\* locations; and that one too when the assessment found no blocker, ELINs
\* apart (build_apply_plan, the record builders, extraction, reconcile).
Distinct(entities) ==
    \A d, e \in entities : Composite(d) = Composite(e) => d = e
CompletedRunsPass ==
    /\ validation # None /\ run # None
    /\ validation.held = run.after /\ run.planned = Extract(validation.of)
    /\ run.succeeded = run.plan.operations
    /\ run.plan.unresolved = {} /\ Distinct(run.planned)
    /\ \A r \in validation.of : IsPlain(r)
    /\ \A r \in Extract(run.before) :
          \E e \in run.planned : Composite(e) = Composite(r)
    => /\ validation.failed \subseteq {"VAL-003"}
       /\ /\ ReadyToPlan(Assessed(run.planned))
          /\ \A n \in OfKind(run.planned, "E164Number") : ~n.said.elin
          => Passed(validation)
-----------------------------------------------------------------------------
(***************************************************************************)
(* Not kept.                                                               *)
(***************************************************************************)

\* "Compares what is actually present on the target against what the source
\* held, at attribute level": two references that both lead nowhere are equal,
\* also when they name different things.
PassedMeansEqual ==
    validation # None /\ Passed(validation) =>
        \A r \in validation.of : \E w \in validation.held :
            /\ w.kind = r.kind /\ w.site = r.site
            /\ w.owner = r.owner /\ w.number = r.number

\* A pass leaves out the other users of a line and the class of restriction of a
\* user: tests/test_reference_roundtrip.py:263.
PassedMeansAll ==
    validation # None /\ Passed(validation) =>
        \A r \in validation.of : \E w \in validation.held :
            w.kind = r.kind /\ w.says = r.says

\* A complete run of any estate passes: a user without the field of the first
\* name is called "None ..." on the target, a site without a name after its
\* code, and the time of a validation is cut off.
CompletedRunsPassAnyway ==
    /\ validation # None /\ run # None
    /\ validation.held = run.after /\ run.planned = Extract(validation.of)
    /\ run.succeeded = run.plan.operations
    /\ run.plan.unresolved = {} /\ Distinct(run.planned)
    /\ \A r \in Extract(run.before) :
          \E e \in run.planned : Composite(e) = Composite(r)
    => validation.failed \subseteq {"VAL-003"}

\* The report the session holds is of the estate it discovered last: it is
\* stored by whoever read the snapshot before.
ReportIsOfTheLastDiscovery ==
    validation # None => validation.of = discovered

\* An estate without a blocker can be migrated safely: EMG-001 leaves ELINs out,
\* VAL-003 does not, and a number may name a site that is not there.
ReadyMeansSafe ==
    /\ validation # None /\ run # None
    /\ validation.held = run.after /\ run.planned = Extract(validation.of)
    /\ run.succeeded = run.plan.operations
    /\ ReadyToPlan(Assessed(run.planned))
    => SafeToSignOff(validation)
=============================================================================
