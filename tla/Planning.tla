------------------------------ MODULE Planning ------------------------------
(***************************************************************************)
(* The planning stages of an estate session (api/workspace.py, the wave    *)
(* routes of api/app.py): discovery, mapping, wave planning, the moves an  *)
(* operator makes on the console, and plan building, each from what the    *)
(* stages before left in the session.  Locks, runs and receipts are the    *)
(* subject of Workspace; here the contents are.                            *)
(***************************************************************************)
EXTENDS Waves, Planner

CONSTANTS Snapshots,    \* what discovery may find, sequences of entities
          Scenarios,    \* [profile or None, numbers_only, appliable]
          Keys,         \* user keys an operator may ask to move
          WaveIds,      \* wave ids an operator may name
          MaxMoves      \* bound: moves on one wave plan

\* None is nothing else, sites and departments are numbers, also where rules
\* and overrides set them, and there are finitely many rules of a number plan.
SetsNumbers(fields) ==
    \A f \in {"site", "department"} \cap DOMAIN fields : fields[f] \in Nat
ASSUME PlanningAssumption ==
    /\ MaxMoves \in Nat
    /\ None \notin Snapshots /\ None \notin Nat \X Nat
    /\ \A found \in Snapshots :
          /\ found \in Seq(ToSet(found))
          /\ \A e \in ToSet(found) :
                IsEntity(e) /\ {e.site, e.department} \subseteq Nat \cup {None}
    /\ \A s \in Scenarios : s.profile # None =>
          /\ IsFiniteSet(s.profile.plan)
          /\ s.profile.rules \in Seq(ToSet(s.profile.rules))
          /\ \A r \in ToSet(s.profile.rules) : SetsNumbers(r.then)
          /\ s.profile.overrides \in Seq(ToSet(s.profile.overrides))
          /\ \A o \in ToSet(s.profile.overrides) :
                o.field \in {"site", "department"} => o.value \in Nat

VARIABLES scenario,     \* the session's, for good
          snapshot, transform,  \* what discovery found, what mapping made of it
          wave_plan, plan_result,
          waves_of, moves,      \* history: what the waves were planned from and
                                \* how often a user was moved since
          planned_of            \* history: plan inputs, after the exclusions
vars == <<scenario, snapshot, transform, wave_plan, plan_result, waves_of, moves,
          planned_of>>
-----------------------------------------------------------------------------
\* The entities of EstateSession.effective_snapshot.
Mapped(t) == ToSet(t.entities) \cup t.new_numbers
Effective == IF transform # None THEN Mapped(transform) ELSE ToSet(snapshot)

\* plan_inputs(): everything, or the numbers somebody is assigned to with the
\* rest as context (_assignable_numbers).
Assignable(entities) ==
    {e \in entities : e.kind = "E164Number" /\ e.owner # None}
Inputs(entities) ==
    IF scenario.numbers_only
    THEN LET numbers == Assignable(entities)
         IN  [planned |-> numbers,
              context |-> {e \in entities : e.id \notin {n.id : n \in numbers}}]
    ELSE [planned |-> entities, context |-> {}]

\* build_plan(): kinds the target cannot apply become context.
Appliable(inputs) ==
    LET excluded == {e \in inputs.planned : e.kind \notin scenario.appliable}
    IN  [planned |-> inputs.planned \ excluded,
         context |-> inputs.context \cup excluded]
-----------------------------------------------------------------------------
Init ==
    /\ scenario \in Scenarios
    /\ snapshot = None /\ transform = None
    /\ wave_plan = None /\ plan_result = None
    /\ waves_of = None /\ moves = 0 /\ planned_of = None

\* mutant: the mapping of the estate before stays
DiscoverKeepsTransform(found) ==
    /\ snapshot' = found
    /\ wave_plan' = None /\ plan_result' = None
    /\ waves_of' = None /\ moves' = 0 /\ planned_of' = None
    /\ UNCHANGED <<scenario, transform>>

\* discover(): everything downstream is dropped.
Discover(found) ==
    /\ snapshot' = found
    /\ transform' = None /\ wave_plan' = None /\ plan_result' = None
    /\ waves_of' = None /\ moves' = 0 /\ planned_of' = None
    /\ UNCHANGED scenario

\* map(): drops the plan, keeps the waves.
Map ==
    /\ snapshot # None /\ scenario.profile # None
    /\ transform' = Transformed(scenario.profile, snapshot)
    /\ plan_result' = None /\ planned_of' = None
    /\ UNCHANGED <<scenario, snapshot, wave_plan, waves_of, moves>>

\* plan_waves()
BuildWaves(strategy, size) ==
    /\ snapshot # None
    /\ wave_plan' = WavePlan(Effective, strategy, size)
    /\ waves_of' = Effective /\ moves' = 0
    /\ UNCHANGED <<scenario, snapshot, transform, plan_result, planned_of>>

\* POST waves/move
Move(user, to) ==
    /\ wave_plan # None /\ moves < MaxMoves
    /\ wave_plan' = Moved(wave_plan, user, to)
    /\ moves' = moves + 1
    /\ UNCHANGED <<scenario, snapshot, transform, plan_result, waves_of, planned_of>>

\* build_plan(): whether or not the mapping is clean.
BuildPlan ==
    /\ snapshot # None
    /\ planned_of' = Appliable(Inputs(Effective))
    /\ plan_result' = BuildResult(planned_of'.planned, planned_of'.context)
    /\ UNCHANGED <<scenario, snapshot, transform, wave_plan, waves_of, moves>>

Next ==
    \/ \E found \in Snapshots : Discover(found)
    \/ Map
    \/ \E strategy \in {"SITE", "DEPARTMENT", "MANUAL"}, size \in 0..2 :
            BuildWaves(strategy, size)
    \/ \E user \in Keys, to \in WaveIds : Move(user, to)
    \/ BuildPlan

Spec == Init /\ [][Next]_vars
-----------------------------------------------------------------------------
TypeOK ==
    /\ scenario \in Scenarios
    /\ snapshot \in Snapshots \cup {None}
    /\ snapshot = None => transform = None /\ wave_plan = None /\ plan_result = None
    /\ transform # None =>
          /\ DOMAIN transform.entities = DOMAIN snapshot
          /\ \A i \in DOMAIN snapshot : transform.entities[i].kind = snapshot[i].kind
    /\ wave_plan # None =>
          /\ \A w \in DOMAIN wave_plan.waves :
                w \in Nat \X Nat /\ wave_plan.waves[w] \subseteq UserKeys(waves_of) \cup Keys
          /\ wave_plan.violations
                \subseteq {wave_plan.clusters[i].id : i \in DOMAIN wave_plan.clusters}
    /\ moves \in 0..MaxMoves
    /\ plan_result # None =>
          planned_of.planned \cup planned_of.context \subseteq Effective

\* A wave plan the console shows as valid leaves no shared line, line group,
\* queue or delegation of the estate it was planned from in two waves, and no
\* user in two of them, whatever users were moved since; and the planner's own
\* plan, with its repair, is always valid and has every user (merge_clusters,
\* _repair, move_user).
WavesKeepGroupsTogether ==
    wave_plan # None =>
        LET waves == wave_plan.waves IN
        /\ wave_plan.violations = {} =>
              \A e \in waves_of : \A u, v \in ClusterKeys(waves_of, e) :
                  \A w \in DOMAIN waves : u \in waves[w] <=> v \in waves[w]
        /\ \A v, w \in DOMAIN waves : v # w => waves[v] \cap waves[w] = {}
        /\ moves = 0 =>
              /\ wave_plan.violations = {}
              /\ UserKeys(waves_of) = UNION {waves[w] : w \in DOMAIN waves}

\* Every number the mapping derived is what exactly one rule of the site gives
\* for the extension it was derived from, with the digits and at the site the
\* rules put it, and no extension got one that two rules claim (normalise:
\* "Refusing to guess").
DerivedBy(n, e) ==
    {r \in scenario.profile.plan :
        /\ r.site = e.site
        /\ e.value \in DOMAIN r.gives /\ r.gives[e.value] = n.value}
NumbersRestOnOneRule ==
    transform # None =>
        LET ruled == AfterRules(scenario.profile, snapshot) IN
        \A n \in transform.new_numbers :
            \A e \in ToSet(ruled) : e.id \in n.refs =>
                /\ Cardinality(DerivedBy(n, e)) = 1
                /\ Candidates(scenario.profile.plan, e.value, e.site) = DerivedBy(n, e)

\* Two extensions that differ in digits or site and are given one number are in
\* the collisions the transform reports, also when the rules moved them there,
\* and whatever an override made of them but their numbers (detect_collisions,
\* and the order of the stages of apply_profile).
IsGivenNumber(i) ==
    /\ GetsNumber(scenario.profile, AfterRules(scenario.profile, snapshot)[i])
    /\ \A o \in ToSet(scenario.profile.overrides) :
          o.id = snapshot[i].id => o.field # "number"
SharedNumbersAreReported ==
    transform # None =>
        LET ruled == AfterRules(scenario.profile, snapshot) IN
        \A i, j \in DOMAIN ruled :
            /\ IsGivenNumber(i) /\ IsGivenNumber(j)
            /\ <<ruled[i].value, ruled[i].site>> # <<ruled[j].value, ruled[j].site>>
            /\ transform.entities[i].number = transform.entities[j].number
            => \E c \in transform.collisions :
                  transform.entities[i].number = <<"E164Number", DerivedKey(c)>>

\* An operation names only what the plan writes or the target is said to have:
\* nothing that was left to people, nothing unknown, and every reference it
\* does not resolve is reported ("reported, never written as dangling
\* pointers").
NoDanglingWrites ==
    plan_result # None =>
        \A o \in plan_result.operations :
            /\ o.keys \subseteq {<<x.kind, KeyFor(x)>> :
                    x \in Planned(planned_of.planned) \cup planned_of.context}
            /\ \A r \in References(o.entity) :
                  \/ <<o.entity.id, r>> \in plan_result.unresolved
                  \/ \E x \in Planned(planned_of.planned) \cup planned_of.context :
                        x.id = r /\ <<x.kind, KeyFor(x)>> \in o.keys

\* Every dependency of an operation is an operation of the same plan and of an
\* earlier kind: there is no cycle, nothing waits for what is never run, and
\* the topological order of the gate never raises (operations_in_dependency_order).
OperationsFollowDependencies ==
    plan_result # None =>
        \A o \in plan_result.operations : \A d \in o.depends_on :
            \E p \in plan_result.operations :
                p.id = d /\ Before(p.entity, o.entity)
-----------------------------------------------------------------------------
(***************************************************************************)
(* Not kept.                                                               *)
(***************************************************************************)

\* "No structural problems."  Two extensions share a number that one of them got
\* from an override of e164_ref, which comes after collisions were looked for.
CleanMappingsShareNoNumber ==
    transform # None /\ IsClean(transform) =>
        \A i, j \in DOMAIN transform.entities :
            LET x == transform.entities[i]
                y == transform.entities[j]
            IN  /\ {x.kind, y.kind} = {"Extension"} /\ x.number # None
                /\ <<x.value, x.site>> # <<y.value, y.site>>
                => x.number # y.number

\* "Same estate + same object => same id, forever."  A rule or an override may
\* set canonical_id.
IdsAreForever ==
    transform # None =>
        \A i \in DOMAIN snapshot : transform.entities[i].id = snapshot[i].id

\* "The planner refuses to proceed when false", "structured results that the
\* planner refuses to proceed past": build_plan does not look.
PlansRestOnCleanMappings ==
    plan_result # None /\ transform # None => IsClean(transform)

\* A clean mapping writes one number for one user.  Two extensions with equal
\* digits at one site, in two partitions, share a derived number, which counts
\* as one source; and a derived number may be one that was read.
CleanMappingsWriteNumbersOnce ==
    plan_result # None /\ transform # None /\ IsClean(transform) =>
        \A o, p \in plan_result.operations : o.intent = p.intent => o = p

\* The waves fit the estate planning works from: map() leaves them.
WavesFitTheEstate ==
    wave_plan # None => waves_of = Effective

\* "Move a user between waves": the move to a wave that is not there takes the
\* user out of a plan that stays valid, with nobody unassigned.
ValidPlansHaveEveryone ==
    wave_plan # None /\ wave_plan.violations = {} =>
        UserKeys(waves_of)
            \subseteq UNION {wave_plan.waves[w] : w \in DOMAIN wave_plan.waves}
=============================================================================
