----------------------------- MODULE Validation -----------------------------
(***************************************************************************)
(* What the program says about an estate before and after a migration: the *)
(* assessment rules (assessment/engine.py), the comparison of two estates  *)
(* (pipeline/reconcile.py) and the checks for signing off                  *)
(* (validation/service.py), for the kinds the reference platform holds.    *)
(***************************************************************************)
EXTENDS MemoryPBX

\* The marker of reconcile.py for a reference without a key.
UNRESOLVED == "<unresolved>"

Severity == {"BLOCKER", "HIGH", "LOW"}
FindingStatus == {"OPEN", "WAIVED"}

OfKind(entities, kind) == {e \in entities : e.kind = kind}

\* The rules that find anything in a reference estate, with whom they find.
RuleOf(entities) ==
    LET locations == OfKind(entities, "EmergencyLocation")
        numbers   == OfKind(entities, "E164Number")
        users     == OfKind(entities, "User")
    IN  [EMG001 |-> {n \in numbers : n.refs = {} /\ ~n.said.elin},
         EMG002 |-> {l \in locations : ~l.said.dispatchable},
         EMG003 |-> {l \in locations : ~l.said.validated},
         EMG004 |-> {u \in users : u.said.voice /\ \E l \in locations :
                                        l.site = u.site /\ ~l.said.dynamic},
         LIC001 |-> {u \in users : u.said.voice}]

SeverityOf == [EMG001 |-> "BLOCKER", EMG002 |-> "BLOCKER", EMG003 |-> "HIGH",
               EMG004 |-> "HIGH", LIC001 |-> "LOW"]

\* assess(): a finding per rule that affects anything.
Assessed(entities) ==
    {[rule |-> r, severity |-> SeverityOf[r], status |-> "OPEN"] :
        r \in {x \in DOMAIN SeverityOf : RuleOf(entities)[x] # {}}}

\* mutant: whatever is found can be waived
WaivedAny(findings, rule) ==
    {IF f.rule = rule THEN [f EXCEPT !.status = "WAIVED"] ELSE f : f \in findings}

\* Finding.waive(), and the route that calls it: a BLOCKER is refused.
Waived(findings, rule) ==
    {IF f.rule = rule /\ f.severity # "BLOCKER"
     THEN [f EXCEPT !.status = "WAIVED"] ELSE f : f \in findings}

\* AssessmentReport.is_ready_to_plan
ReadyToPlan(findings) == \A f \in findings : f.severity # "BLOCKER"
-----------------------------------------------------------------------------
(***************************************************************************)
(* Reconciliation.                                                         *)
(***************************************************************************)
Composite(e) == <<e.kind, NaturalKey(e)>>

\* {(kind, key): entity}: of several with one key one remains, which one the
\* order of the snapshot says.
ByKey(entities) ==
    {some \in SUBSET entities :
        /\ \A e \in entities : \E s \in some : Composite(s) = Composite(e)
        /\ \A s, t \in some : Composite(s) = Composite(t) => s = t}

\* build_key_index() and the reference part of neutral_view()
Neutral(ref, entities) ==
    IF ref = None THEN None
    ELSE IF \E e \in entities : e.id = ref
         THEN NaturalKey(CHOOSE e \in entities : e.id = ref) ELSE UNRESOLVED

\* mutant: references are left out of the comparison
ViewOfContent(e, entities) == [said |-> e.said, site |-> e.site]

\* neutral_view()
View(e, entities) ==
    [said |-> e.said, site |-> e.site, owner |-> Neutral(e.owner, entities),
     number |-> Neutral(e.number, entities),
     refs |-> {Neutral(r, entities) : r \in e.refs}]

\* reconcile(): the failures, with "s" and "t" the entities that stand for
\* their keys.
Differences(source, s, target, t) ==
    LET keys(some) == {Composite(e) : e \in some}
    IN  {<<c, "MISSING_ON_TARGET">> : c \in keys(s) \ keys(t)}
        \cup {<<c, "EXTRA_ON_TARGET">> : c \in keys(t) \ keys(s)}
        \cup {<<c, "MISMATCHED">> : c \in {d \in keys(s) \cap keys(t) :
                \E x \in s, y \in t : /\ Composite(x) = d /\ Composite(y) = d
                                      /\ View(x, source) # View(y, target)}}
-----------------------------------------------------------------------------
(***************************************************************************)
(* The checks.                                                             *)
(***************************************************************************)

\* _object_counts(): at least as many of each kind as the source has.
Short(source, target) ==
    \E k \in Collections :
        Cardinality(OfKind(target, k)) < Cardinality(OfKind(source, k))

\* _emergency_locations(): every assigned number, ELIN or not.
Unlocated(target) ==
    {n \in OfKind(target, "E164Number") :
        /\ n.said.assigned
        /\ ~ \E l \in OfKind(target, "EmergencyLocation") : l.id \in n.refs}

\* _numbers_assigned_and_routable(): the reference platform has no numbers
\* that are not activated.
Unrouted(target) ==
    {n \in OfKind(target, "E164Number") : n.said.assigned /\ n.owner = None}

\* ValidationService.validate() without SKUs, policies, mailboxes and a probe,
\* whose checks do not fail.
Failed(source, target, differences) ==
    {c \in {"VAL-001", "VAL-002", "VAL-003", "VAL-004"} :
        \/ c = "VAL-001" /\ Short(source, target)
        \/ c = "VAL-002" /\ differences # {}
        \/ c = "VAL-003" /\ Unlocated(target) # {}
        \/ c = "VAL-004" /\ Unrouted(target) # {}}

\* ValidationReport.passed, safe_to_sign_off
Passed(report) == report.failed = {}
SafeToSignOff(report) == "VAL-003" \notin report.failed
=============================================================================
