--------------------------- MODULE PlanningProofs ---------------------------
(***************************************************************************)
(* What a plan's operations refer to and depend on, which number an        *)
(* extension is given, and which users move together, for every estate,    *)
(* profile and target connector.                                           *)
(*                                                                         *)
(* Each follows from what a session holds being what its stage made of the *)
(* stages before: PlanOfItsInputs, MappingOfItsSnapshot, WavesOfTheirEstate*)
(* and Stages are inductive; the theorems read the operators off them.     *)
(* What _repair and merge_clusters reach by repeating a step is an         *)
(* induction over the number of repetitions, stated of a set of numbers    *)
(* (NatAll) and of the function that Iteration says there is.              *)
(***************************************************************************)
EXTENDS Planning, FiniteSetTheorems, WellFoundedInduction, TLAPS

\* The plan the session holds is build_apply_plan of what it was planned of.
PlanOfItsInputs ==
    plan_result # None =>
        plan_result = BuildResult(planned_of.planned, planned_of.context)

\* Entities that share an id share kind and key.
OneName(entities) ==
    \A x, y \in entities : x.id = y.id => x.kind = y.kind /\ KeyFor(x) = KeyFor(y)

\* Of what the session's plan was made.  (Canonical ids are minted from the kind
\* and the native key; a rule or an override may set others: NamesTheorem.)
IdsAreNames ==
    plan_result # None => OneName(planned_of.planned \cup planned_of.context)

-----------------------------------------------------------------------------
\* A resolved reference has its id among the entities that are written or there
\* already (build_apply_plan: the check against planned_ids and context_ids).
LEMMA ResolvedIsThere ==
    ASSUME NEW input, NEW context, NEW e, NEW t \in Resolved(e, input, context)
    PROVE  /\ t \in input \cup context
           /\ t.id \in References(e)
           /\ \E x \in Planned(input) \cup context : x.id = t.id
BY DEF Resolved, Resolvable, Targets

\* A dependency is an operation of the plan and of an earlier kind
\* (build_apply_plan: "Only depend on strictly-earlier kinds").
LEMMA DependenciesDescend ==
    ASSUME NEW input, NEW context, OneName(input \cup context),
           NEW e \in Planned(input), NEW d \in DependsOn(e, input, context)
    PROVE  \E p \in Planned(input) : OpId(p) = d /\ Before(p, e)
<1>1. PICK t \in Resolved(e, input, context) :
          /\ d = OpId(t)
          /\ t.id \notin {c.id : c \in context}
          /\ Precedence(t.kind) < Precedence(e.kind)
  BY DEF DependsOn
<1>2. PICK p \in Planned(input) \cup context : p.id = t.id
  BY ResolvedIsThere
<1>3. p \in Planned(input)
  BY <1>1, <1>2
<1>4. p.kind = t.kind
  <2>1. p \in input \cup context
    BY <1>3 DEF Planned
  <2>2. t \in input \cup context
    BY ResolvedIsThere
  <2>. QED  BY <2>1, <2>2, <1>2 DEF OneName
<1>. QED  BY <1>1, <1>2, <1>3, <1>4 DEF OpId, Before

\* The keys in an operation's payload belong to entities that are written or
\* there already, and a reference without one is in the report
\* (build_apply_plan: UnresolvedReference).
LEMMA KeysAreThere ==
    ASSUME NEW input, NEW context, OneName(input \cup context),
           NEW e \in Planned(input)
    PROVE  LET there == Planned(input) \cup context
               keys  == {<<t.kind, KeyFor(t)>> : t \in Resolved(e, input, context)}
           IN  /\ keys \subseteq {<<x.kind, KeyFor(x)>> : x \in there}
               /\ \A r \in References(e) :
                     \/ r \in Unresolved(e, input, context)
                     \/ \E x \in there : x.id = r /\ <<x.kind, KeyFor(x)>> \in keys
<1>. DEFINE there == Planned(input) \cup context
            keys  == {<<t.kind, KeyFor(t)>> : t \in Resolved(e, input, context)}
<1>1. ASSUME NEW t \in Resolved(e, input, context)
      PROVE  \E x \in there : /\ x.id = t.id
                              /\ <<x.kind, KeyFor(x)>> = <<t.kind, KeyFor(t)>>
  <2>1. PICK x \in there : x.id = t.id
    BY ResolvedIsThere
  <2>2. x \in input \cup context
    BY DEF Planned
  <2>3. t \in input \cup context
    BY ResolvedIsThere
  <2>4. x.kind = t.kind /\ KeyFor(x) = KeyFor(t)
    BY <2>1, <2>2, <2>3 DEF OneName
  <2>. QED  BY <2>1, <2>4
<1>2. keys \subseteq {<<x.kind, KeyFor(x)>> : x \in there}
  <2>. SUFFICES ASSUME NEW t \in Resolved(e, input, context)
                PROVE  <<t.kind, KeyFor(t)>> \in {<<x.kind, KeyFor(x)>> : x \in there}
    OBVIOUS
  <2>1. PICK x \in there : <<x.kind, KeyFor(x)>> = <<t.kind, KeyFor(t)>>
    BY <1>1
  <2>. QED  BY <2>1
<1>3. ASSUME NEW r \in References(e), r \notin Unresolved(e, input, context)
      PROVE  \E x \in there : x.id = r /\ <<x.kind, KeyFor(x)>> \in keys
  <2>1. PICK t \in Resolved(e, input, context) : t.id = r
    BY <1>3 DEF Unresolved
  <2>2. PICK x \in there : /\ x.id = t.id
                           /\ <<x.kind, KeyFor(x)>> = <<t.kind, KeyFor(t)>>
    BY <1>1
  <2>. QED  BY <2>1, <2>2
<1>. QED  BY <1>2, <1>3

-----------------------------------------------------------------------------
\* The session's plan is always what the planner made of the inputs it was
\* given (build_plan, and the resets of discover and map).
THEOREM PlanOfItsInputsTheorem == Spec => []PlanOfItsInputs
<1>1. Init => PlanOfItsInputs
  BY DEF Init, PlanOfItsInputs
<1>2. PlanOfItsInputs /\ [Next]_vars => PlanOfItsInputs'
  <2>. SUFFICES ASSUME PlanOfItsInputs, [Next]_vars PROVE PlanOfItsInputs'
    OBVIOUS
  <2>1. ASSUME NEW found \in Snapshots, Discover(found) PROVE PlanOfItsInputs'
    BY <2>1 DEF Discover, PlanOfItsInputs
  <2>2. CASE Map
    BY <2>2 DEF Map, PlanOfItsInputs
  <2>3. ASSUME NEW strategy, NEW size, BuildWaves(strategy, size)
        PROVE  PlanOfItsInputs'
    BY <2>3 DEF BuildWaves, PlanOfItsInputs
  <2>4. ASSUME NEW user, NEW to, Move(user, to) PROVE PlanOfItsInputs'
    BY <2>4 DEF Move, PlanOfItsInputs
  <2>5. CASE BuildPlan
    BY <2>5 DEF BuildPlan, PlanOfItsInputs
  <2>6. CASE UNCHANGED vars
    BY <2>6 DEF vars, PlanOfItsInputs
  <2>. QED  BY <2>1, <2>2, <2>3, <2>4, <2>5, <2>6 DEF Next
<1>. QED  BY <1>1, <1>2, PTL DEF Spec

\* No plan has a cycle or waits for an operation it does not contain, whatever
\* refers to whatever, as long as ids name one object (build_apply_plan,
\* operations_in_dependency_order).
THEOREM DependenciesTheorem ==
    Spec => [](IdsAreNames => OperationsFollowDependencies)
<1>1. PlanOfItsInputs => (IdsAreNames => OperationsFollowDependencies)
  <2>. SUFFICES ASSUME PlanOfItsInputs, IdsAreNames, plan_result # None,
                       NEW o \in plan_result.operations, NEW d \in o.depends_on
                PROVE  \E p \in plan_result.operations :
                          p.id = d /\ Before(p.entity, o.entity)
    BY DEF OperationsFollowDependencies
  <2>. DEFINE input   == planned_of.planned
              context == planned_of.context
  <2>1. /\ plan_result.operations
             = {Operation(e, input, context) : e \in Planned(input)}
        /\ OneName(input \cup context)
    BY DEF PlanOfItsInputs, BuildResult, IdsAreNames, OneName
  <2>2. PICK e \in Planned(input) : o = Operation(e, input, context)
    BY <2>1
  <2>3. d \in DependsOn(e, input, context) /\ o.entity = e
    BY <2>2 DEF Operation
  <2>4. PICK p \in Planned(input) : OpId(p) = d /\ Before(p, e)
    BY <2>1, <2>3, DependenciesDescend
  <2>5. Operation(p, input, context) \in plan_result.operations
    BY <2>1, <2>4
  <2>6. /\ Operation(p, input, context).id = d
        /\ Operation(p, input, context).entity = p
    BY <2>4 DEF Operation
  <2>. QED  BY <2>3, <2>4, <2>5, <2>6
<1>. QED  BY <1>1, PlanOfItsInputsTheorem, PTL

\* No operation names what is neither written nor there, and every reference it
\* drops is reported, as long as ids name one object (build_apply_plan).
THEOREM NoDanglingWritesTheorem == Spec => [](IdsAreNames => NoDanglingWrites)
<1>1. PlanOfItsInputs => (IdsAreNames => NoDanglingWrites)
  <2>. SUFFICES ASSUME PlanOfItsInputs, IdsAreNames, plan_result # None,
                       NEW o \in plan_result.operations
                PROVE  /\ o.keys \subseteq {<<x.kind, KeyFor(x)>> :
                            x \in Planned(planned_of.planned) \cup planned_of.context}
                       /\ \A r \in References(o.entity) :
                            \/ <<o.entity.id, r>> \in plan_result.unresolved
                            \/ \E x \in Planned(planned_of.planned) \cup planned_of.context :
                                  x.id = r /\ <<x.kind, KeyFor(x)>> \in o.keys
    BY DEF NoDanglingWrites
  <2>. DEFINE input   == planned_of.planned
              context == planned_of.context
  <2>1. /\ plan_result.operations
             = {Operation(e, input, context) : e \in Planned(input)}
        /\ plan_result.unresolved
             = UNION {{<<e.id, r>> : r \in Unresolved(e, input, context)} :
                        e \in Planned(input)}
        /\ OneName(input \cup context)
    BY DEF PlanOfItsInputs, BuildResult, IdsAreNames, OneName
  <2>2. PICK e \in Planned(input) : o = Operation(e, input, context)
    BY <2>1
  <2>3. /\ o.entity = e
        /\ o.keys = {<<t.kind, KeyFor(t)>> : t \in Resolved(e, input, context)}
    BY <2>2 DEF Operation
  <2>4. ASSUME NEW r \in Unresolved(e, input, context)
        PROVE  <<e.id, r>> \in plan_result.unresolved
    BY <2>1
  <2>. QED  BY <2>1, <2>3, <2>4, KeysAreThere
<1>. QED  BY <1>1, PlanOfItsInputsTheorem, PTL

-----------------------------------------------------------------------------
(***************************************************************************)
(* Mapping.                                                                *)
(***************************************************************************)

\* The mapping the session holds is of its snapshot by its profile.
MappingOfItsSnapshot ==
    /\ scenario \in Scenarios
    /\ snapshot \in Snapshots \cup {None}
    /\ transform # None =>
          /\ snapshot # None /\ scenario.profile # None
          /\ transform = Transformed(scenario.profile, snapshot)

\* Only map() makes a mapping, and discover() drops it with its snapshot.
LEMMA MappingOfItsSnapshotHolds == Spec => []MappingOfItsSnapshot
<1>1. Init => MappingOfItsSnapshot
  BY DEF Init, MappingOfItsSnapshot
<1>2. MappingOfItsSnapshot /\ [Next]_vars => MappingOfItsSnapshot'
  <2>. SUFFICES ASSUME MappingOfItsSnapshot, [Next]_vars PROVE MappingOfItsSnapshot'
    OBVIOUS
  <2>1. ASSUME NEW found \in Snapshots, Discover(found) PROVE MappingOfItsSnapshot'
    BY <2>1 DEF Discover, MappingOfItsSnapshot
  <2>2. CASE Map
    BY <2>2 DEF Map, MappingOfItsSnapshot
  <2>3. ASSUME NEW strategy, NEW size, BuildWaves(strategy, size)
        PROVE  MappingOfItsSnapshot'
    BY <2>3 DEF BuildWaves, MappingOfItsSnapshot
  <2>4. ASSUME NEW user, NEW to, Move(user, to) PROVE MappingOfItsSnapshot'
    BY <2>4 DEF Move, MappingOfItsSnapshot
  <2>5. CASE BuildPlan
    BY <2>5 DEF BuildPlan, MappingOfItsSnapshot
  <2>6. CASE UNCHANGED vars
    BY <2>6 DEF vars, MappingOfItsSnapshot
  <2>. QED  BY <2>1, <2>2, <2>3, <2>4, <2>5, <2>6 DEF Next
<1>. QED  BY <1>1, <1>2, PTL DEF Spec

\* A number is given only where one rule of the site applies (normalise:
\* "Refusing to guess").
LEMMA OneRuleApplies ==
    ASSUME NEW plan, IsFiniteSet(plan), NEW digits, NEW site,
           Normalise(plan, digits, site).outcome = "NORMALISED"
    PROVE  \E r \in plan : /\ Candidates(plan, digits, site) = {r}
                           /\ Normalise(plan, digits, site).e164 = r.gives[digits]
                           /\ r.gives[digits] # None
<1>. DEFINE rules == Candidates(plan, digits, site)
            rule  == CHOOSE r \in rules : TRUE
            n     == Normalise(plan, digits, site)
<1>1. ~IsE164(digits) /\ rules # {} /\ ~(Cardinality(rules) > 1)
  BY DEF Normalise, Normalised
<1>2. IsFiniteSet(rules)
  BY FS_Subset DEF Candidates
<1>3. Cardinality(rules) = 1
  BY <1>1, <1>2, FS_CardinalityType, FS_EmptySet
<1>4. PICK r : rules = {r}
  BY <1>2, <1>3, FS_Singleton
<1>5. rule = r /\ r \in plan
  BY <1>4 DEF Candidates
<1>. HIDE DEF rules
<1>6. n = IF rule.gives[digits] = None THEN Normalised("INVALID_RESULT", None)
          ELSE Normalised("NORMALISED", rule.gives[digits])
  BY <1>1 DEF Normalise, rules
<1>7. rule.gives[digits] # None /\ n.e164 = rule.gives[digits]
  BY <1>6 DEF Normalised
<1>. QED  BY <1>4, <1>5, <1>7 DEF rules

\* What _assign may set, and nothing else.
LEMMA AssignedIs ==
    ASSUME NEW e, IsEntity(e), NEW fields
    PROVE  LET New(f, old) == IF f \in DOMAIN fields /\ Takes(e.kind, f, fields[f])
                              THEN fields[f] ELSE old
           IN  Assigned(e, fields) =
                  [kind |-> e.kind, id |-> New("id", e.id),
                   value |-> New("value", e.value), site |-> New("site", e.site),
                   department |-> New("department", e.department),
                   owner |-> New("owner", e.owner), number |-> New("number", e.number),
                   refs |-> New("refs", e.refs), level |-> e.level]
<1>. DEFINE New(f, old) == IF f \in DOMAIN fields /\ Takes(e.kind, f, fields[f])
                           THEN fields[f] ELSE old
            id     == New("id", e.id)
            value  == New("value", e.value)
            site   == New("site", e.site)
            depart == New("department", e.department)
            owner  == New("owner", e.owner)
            number == New("number", e.number)
            refs   == New("refs", e.refs)
<1>1. Assigned(e, fields) =
        [e EXCEPT !.id = id, !.value = value, !.site = site, !.department = depart,
                  !.owner = owner, !.number = number, !.refs = refs]
  BY DEF Assigned
<1>. HIDE DEF id, value, site, depart, owner, number, refs
<1>2. Assigned(e, fields) =
        [kind |-> e.kind, id |-> id, value |-> value, site |-> site,
         department |-> depart, owner |-> owner, number |-> number, refs |-> refs,
         level |-> e.level]
  BY <1>1 DEF IsEntity
<1>. QED  BY <1>2 DEF id, value, site, depart, owner, number, refs

\* The kind of an entity stays what it is, and so does what nobody sets.
LEMMA AssignedKeeps ==
    ASSUME NEW e, IsEntity(e), NEW fields
    PROVE  LET a == Assigned(e, fields)
           IN  /\ IsEntity(a) /\ a.kind = e.kind
               /\ "id" \notin DOMAIN fields => a.id = e.id
               /\ "value" \notin DOMAIN fields => a.value = e.value
               /\ "number" \notin DOMAIN fields => a.number = e.number
<1>. DEFINE New(f, old) == IF f \in DOMAIN fields /\ Takes(e.kind, f, fields[f])
                           THEN fields[f] ELSE old
<1>1. /\ "id" \notin DOMAIN fields => New("id", e.id) = e.id
      /\ "value" \notin DOMAIN fields => New("value", e.value) = e.value
      /\ "number" \notin DOMAIN fields => New("number", e.number) = e.number
  OBVIOUS
<1>2. Assigned(e, fields) =
        [kind |-> e.kind, id |-> New("id", e.id), value |-> New("value", e.value),
         site |-> New("site", e.site), department |-> New("department", e.department),
         owner |-> New("owner", e.owner), number |-> New("number", e.number),
         refs |-> New("refs", e.refs), level |-> e.level]
  BY AssignedIs
<1>. HIDE DEF New
<1>. QED  BY <1>1, <1>2 DEF IsEntity

\* The rules leave the kind alone.
LEMMA AfterRulesKeeps ==
    ASSUME NEW profile, NEW entities, NEW i \in DOMAIN entities, IsEntity(entities[i])
    PROVE  LET a == AfterRules(profile, entities)[i]
           IN  IsEntity(a) /\ a.kind = entities[i].kind
BY AssignedKeeps DEF AfterRules

\* So does numbering, which sets the number of those that get one.
LEMMA NumberedIs ==
    ASSUME NEW profile, NEW entities, NEW i \in DOMAIN entities, IsEntity(entities[i])
    PROVE  LET a == Numbered(profile, entities)[i]
           IN  /\ IsEntity(a)
               /\ a.kind = entities[i].kind /\ a.id = entities[i].id
               /\ a.value = entities[i].value
               /\ GetsNumber(profile, entities[i]) =>
                     a.number = <<"E164Number",
                                  DerivedKey(Outcome(profile, entities[i]).e164)>>
<1>1. CASE GetsNumber(profile, entities[i])
  <2>1. Numbered(profile, entities)[i] =
            [entities[i] EXCEPT !.number =
                <<"E164Number", DerivedKey(Outcome(profile, entities[i]).e164)>>]
    BY <1>1 DEF Numbered
  <2>. QED  BY <2>1 DEF IsEntity
<1>2. CASE ~GetsNumber(profile, entities[i])
  BY <1>2 DEF Numbered
<1>. QED  BY <1>1, <1>2

\* The overrides of an entity set a field only where one of them names it.
LEMMA ChosenIsNamed ==
    ASSUME NEW overrides, NEW kind, NEW id, NEW f,
           \A o \in ToSet(overrides) : o.id = id => o.field # f
    PROVE  f \notin DOMAIN Chosen(overrides, kind, id)
<1>1. ASSUME NEW k \in DOMAIN overrides, overrides[k].id = id
      PROVE  overrides[k].field # f
  BY <1>1 DEF ToSet
<1>. QED  BY <1>1 DEF Chosen

\* What the transform keeps of an entity that was read: its kind, and the number
\* it was given where no override sets another.
LEMMA TransformedIs ==
    ASSUME NEW profile, NEW found, \A e \in ToSet(found) : IsEntity(e),
           NEW i \in DOMAIN found
    PROVE  LET t     == Transformed(profile, found)
               ruled == AfterRules(profile, found)
               Free(f) == \A o \in ToSet(profile.overrides) :
                              o.id = found[i].id => o.field # f
           IN  /\ DOMAIN t.entities = DOMAIN found /\ DOMAIN ruled = DOMAIN found
               /\ t.entities[i].kind = found[i].kind
               /\ Free("id") => t.entities[i].id = ruled[i].id
               /\ Free("value") => t.entities[i].value = ruled[i].value
               /\ Free("number") /\ GetsNumber(profile, ruled[i]) =>
                     t.entities[i].number =
                        <<"E164Number", DerivedKey(Outcome(profile, ruled[i]).e164)>>
<1>. DEFINE t        == Transformed(profile, found)
            ruled    == AfterRules(profile, found)
            numbered == Numbered(profile, ruled)
            Free(f)  == \A o \in ToSet(profile.overrides) :
                            o.id = found[i].id => o.field # f
<1>1. DOMAIN ruled = DOMAIN found /\ DOMAIN numbered = DOMAIN found
  BY DEF AfterRules, Numbered
<1>2. t.entities = Overridden(profile, found, numbered)
  BY DEF Transformed
<1>3. IsEntity(found[i])
  BY DEF ToSet
<1>4. IsEntity(ruled[i]) /\ ruled[i].kind = found[i].kind
  BY <1>3, AfterRulesKeeps
<1>. HIDE DEF ruled
<1>5. /\ IsEntity(numbered[i])
      /\ numbered[i].kind = ruled[i].kind /\ numbered[i].id = ruled[i].id
      /\ numbered[i].value = ruled[i].value
      /\ GetsNumber(profile, ruled[i]) =>
            numbered[i].number =
               <<"E164Number", DerivedKey(Outcome(profile, ruled[i]).e164)>>
  BY <1>1, <1>4, NumberedIs
<1>. HIDE DEF numbered
<1>6. DOMAIN t.entities = DOMAIN found
  BY <1>1, <1>2 DEF Overridden
<1>7. /\ t.entities[i].kind = numbered[i].kind
      /\ Free("id") => t.entities[i].id = numbered[i].id
      /\ Free("value") => t.entities[i].value = numbered[i].value
      /\ Free("number") => t.entities[i].number = numbered[i].number
  <2>1. CASE i = LastOf(found, found[i].id)
    <3>. DEFINE fields == Chosen(profile.overrides, numbered[i].kind, found[i].id)
    <3>1. t.entities[i] = Assigned(numbered[i], fields)
      BY <1>1, <1>2, <2>1 DEF Overridden
    <3>2. /\ Free("id") => "id" \notin DOMAIN fields
          /\ Free("value") => "value" \notin DOMAIN fields
          /\ Free("number") => "number" \notin DOMAIN fields
      BY ChosenIsNamed
    <3>. HIDE DEF fields, t, Free
    <3>. QED  BY <1>5, <3>1, <3>2, AssignedKeeps
  <2>2. CASE i # LastOf(found, found[i].id)
    <3>1. t.entities[i] = numbered[i]
      BY <1>1, <1>2, <2>2 DEF Overridden
    <3>. QED  BY <3>1
  <2>. QED  BY <2>1, <2>2
<1>. HIDE DEF t, Free
<1>8. /\ t.entities[i].kind = found[i].kind
      /\ Free("id") => t.entities[i].id = ruled[i].id
      /\ Free("value") => t.entities[i].value = ruled[i].value
      /\ Free("number") /\ GetsNumber(profile, ruled[i]) =>
            t.entities[i].number =
               <<"E164Number", DerivedKey(Outcome(profile, ruled[i]).e164)>>
  BY <1>4, <1>5, <1>7
<1>. QED  BY <1>1, <1>6, <1>8 DEF ruled, t, Free

\* A number is the key derived of it.
LEMMA OneNumberOneKey ==
    ASSUME NEW a, NEW b,
           <<"E164Number", DerivedKey(a)>> = <<"E164Number", DerivedKey(b)>>
    PROVE  a = b
<1>1. DerivedKey(a) = DerivedKey(b)
  OBVIOUS
<1>. QED  BY <1>1 DEF DerivedKey

\* Extensions that differ in digits or site and were given one number are reported
\* as collisions, whatever the rules made of them, and whatever a person set
\* afterwards but the number itself (detect_collisions, the order of the stages of
\* apply_profile).  A number a person set is compared with nothing:
\* CleanMappingsShareNoNumber.
THEOREM SharedNumbersTheorem == Spec => []SharedNumbersAreReported
<1>1. MappingOfItsSnapshot => SharedNumbersAreReported
  <2>. DEFINE profile == scenario.profile
              ruled   == AfterRules(profile, snapshot)
              num(i)  == Outcome(profile, ruled[i]).e164
  <2>. SUFFICES ASSUME MappingOfItsSnapshot, transform # None,
                       NEW i \in DOMAIN ruled, NEW j \in DOMAIN ruled,
                       IsGivenNumber(i), IsGivenNumber(j),
                       <<ruled[i].value, ruled[i].site>>
                           # <<ruled[j].value, ruled[j].site>>,
                       transform.entities[i].number = transform.entities[j].number
                PROVE  \E c \in transform.collisions :
                          transform.entities[i].number = <<"E164Number", DerivedKey(c)>>
    BY DEF SharedNumbersAreReported
  <2>1. /\ snapshot \in Snapshots /\ transform = Transformed(profile, snapshot)
        /\ IsFiniteSet(profile.plan)
        /\ \A e \in ToSet(snapshot) : IsEntity(e)
    BY PlanningAssumption DEF MappingOfItsSnapshot
  <2>2. i \in DOMAIN snapshot /\ j \in DOMAIN snapshot
    BY DEF AfterRules
  <2>10. /\ GetsNumber(profile, ruled[i]) /\ GetsNumber(profile, ruled[j])
        /\ \A o \in ToSet(profile.overrides) :
              o.id \in {snapshot[i].id, snapshot[j].id} => o.field # "number"
    BY DEF IsGivenNumber
  <2>. HIDE DEF profile, ruled
  <2>3. /\ transform.entities[i].number = <<"E164Number", DerivedKey(num(i))>>
        /\ transform.entities[j].number = <<"E164Number", DerivedKey(num(j))>>
    BY <2>1, <2>2, <2>10, TransformedIs DEF ruled
  <2>4. num(i) = num(j)
    <3>. HIDE DEF num
    <3>1. <<"E164Number", DerivedKey(num(i))>> = <<"E164Number", DerivedKey(num(j))>>
      BY <2>3
    <3>. QED  BY <3>1, OneNumberOneKey
  <2>5. num(i) # None
    <3>1. Normalise(profile.plan, ruled[i].value, ruled[i].site).outcome = "NORMALISED"
      BY <2>10 DEF GetsNumber, Outcome
    <3>. QED  BY <2>1, <3>1, OneRuleApplies DEF Outcome
  <2>. DEFINE pair(k) == <<ruled[k].value, ruled[k].site>>
  <2>6. /\ pair(i) \in ExtensionPairs(ruled) /\ pair(j) \in ExtensionPairs(ruled)
        /\ pair(j) # pair(i)
    BY <2>10 DEF GetsNumber, IsUnnumbered, ExtensionPairs, ToSet
  <2>7. num(i) \in Collisions(profile.plan, ExtensionPairs(ruled))
    <3>1. /\ Normalise(profile.plan, pair(i)[1], pair(i)[2]).e164 = num(i)
          /\ Normalise(profile.plan, pair(j)[1], pair(j)[2]).e164 = num(j)
      BY DEF Outcome
    <3>. HIDE DEF num, pair
    <3>. QED  BY <2>4, <2>5, <2>6, <3>1 DEF Collisions
  <2>8. transform.collisions = Collisions(profile.plan, ExtensionPairs(ruled))
    BY <2>1 DEF Transformed, ruled
  <2>. QED  BY <2>3, <2>7, <2>8
<1>. QED  BY <1>1, MappingOfItsSnapshotHolds, PTL

\* Objects of the snapshot have ids of their own, as the rules leave them.
IdsNameOneEntity ==
    transform # None =>
        LET ruled == AfterRules(scenario.profile, snapshot)
        IN  \A x, y \in ToSet(ruled) : x.id = y.id => x = y

\* A number that was derived is what one rule of the site gives, and no other
\* rule of the site claims the extension, as long as an id names one entity
\* (NumberPlan.normalise, _mint_number).
THEOREM OneRuleTheorem == Spec => [](IdsNameOneEntity => NumbersRestOnOneRule)
<1>1. MappingOfItsSnapshot => (IdsNameOneEntity => NumbersRestOnOneRule)
  <2>. DEFINE profile == scenario.profile
              ruled   == AfterRules(profile, snapshot)
  <2>. SUFFICES ASSUME MappingOfItsSnapshot, IdsNameOneEntity, transform # None,
                       NEW n \in transform.new_numbers,
                       NEW e \in ToSet(ruled), e.id \in n.refs
                PROVE  /\ Cardinality(DerivedBy(n, e)) = 1
                       /\ Candidates(profile.plan, e.value, e.site) = DerivedBy(n, e)
    BY DEF NumbersRestOnOneRule
  <2>1. /\ snapshot \in Snapshots /\ transform = Transformed(profile, snapshot)
        /\ IsFiniteSet(profile.plan)
    BY PlanningAssumption DEF MappingOfItsSnapshot
  <2>4. n \in NewNumbers(profile, ruled)
    BY <2>1 DEF Transformed
  <2>5. PICK x \in ToSet(ruled) : /\ GetsNumber(profile, x)
                                  /\ n = Minted(x, Outcome(profile, x).e164)
    BY <2>4 DEF NewNumbers
  <2>6. n.refs = {x.id} /\ n.value = Outcome(profile, x).e164
    BY <2>5 DEF Minted, Entity
  <2>7. e = x
    BY <2>5, <2>6 DEF IdsNameOneEntity
  <2>8. PICK r \in profile.plan :
            /\ Candidates(profile.plan, e.value, e.site) = {r}
            /\ n.value = r.gives[e.value]
    BY <2>1, <2>5, <2>6, <2>7, OneRuleApplies DEF GetsNumber, Outcome
  <2>9. DerivedBy(n, e) = {r}
    <3>1. \A q \in DerivedBy(n, e) : q \in Candidates(profile.plan, e.value, e.site)
      <4>1. r \in Candidates(profile.plan, e.value, e.site)
        BY <2>8
      <4>2. e.site # None
        BY <4>1 DEF Candidates
      <4>. QED  BY <4>2 DEF DerivedBy, Candidates
    <3>2. r \in DerivedBy(n, e)
      <4>1. r \in Candidates(profile.plan, e.value, e.site)
        BY <2>8
      <4>. QED  BY <2>8, <4>1 DEF DerivedBy, Candidates
    <3>. QED  BY <2>8, <3>1, <3>2
  <2>. QED  BY <2>8, <2>9, FS_Singleton
<1>. QED  BY <1>1, MappingOfItsSnapshotHolds, PTL

-----------------------------------------------------------------------------
(***************************************************************************)
(* Induction on the naturals, over sets, and what is defined by repeating a*)
(* step.                                                                   *)
(***************************************************************************)
\* One number is below another.
Less == OpToRel(<, Nat)

\* A set of naturals has a least member.
LEMMA NatMin ==
    ASSUME NEW T, T \subseteq Nat, T # {}
    PROVE  \E m \in T : \A k \in T : m <= k
<1>1. IsWellFoundedOn(Less, Nat)
  BY NatLessThanWellFounded DEF Less
<1>2. PICK m \in T : \A k \in T : ~(<<k, m>> \in Less)
  BY <1>1, WFMin
<1>3. \A i, j \in Nat : i < j => <<i, j>> \in Less
  BY DEF Less, OpToRel
<1>4. \A k \in T : ~(k < m)
  BY <1>2, <1>3
<1>. QED  BY <1>4

\* A set with 0 and the successors of its members has every natural.
LEMMA NatAll ==
    ASSUME NEW T, 0 \in T, \A n \in Nat : n \in T => n + 1 \in T
    PROVE  \A n \in Nat : n \in T
<1>. SUFFICES ASSUME Nat \ T # {} PROVE FALSE
  OBVIOUS
<1>1. PICK m \in Nat \ T : \A k \in Nat \ T : m <= k
  BY NatMin
<1>2. m - 1 \in Nat /\ m - 1 \in T
  BY <1>1
<1>. QED  BY <1>1, <1>2

\* Repeating a step a number of times is a function of that number.
IsIteration(f, D, d, step) ==
    /\ f \in [Nat -> D] /\ f[0] = d
    /\ \A n \in Nat : f[n + 1] = step[<<n + 1, f[n]>>]

\* A step of D into itself can be repeated as often as one likes.
LEMMA Iteration ==
    ASSUME NEW D, NEW d \in D, NEW step \in [Nat \X D -> D]
    PROVE  \E f : IsIteration(f, D, d, step)
<1>. DEFINE IsRun(g, n) ==
              /\ g \in [0..n -> D] /\ g[0] = d
              /\ \A m \in Nat : m < n => g[m + 1] = step[<<m + 1, g[m]>>]
            Lengths == {n \in Nat : \E g : IsRun(g, n)}
<1>1. \A n \in Nat : n \in Lengths
  <2>1. 0 \in Lengths
    <3>1. IsRun([m \in 0..0 |-> d], 0)
      OBVIOUS
    <3>. QED  BY <3>1
  <2>2. ASSUME NEW n \in Nat, n \in Lengths PROVE n + 1 \in Lengths
    <3>1. PICK g : IsRun(g, n)
      BY <2>2
    <3>. DEFINE h == [m \in 0..n + 1 |->
                        IF m = n + 1 THEN step[<<n + 1, g[n]>>] ELSE g[m]]
    <3>2. g[n] \in D /\ <<n + 1, g[n]>> \in Nat \X D
      BY <3>1
    <3>3. step[<<n + 1, g[n]>>] \in D
      BY <3>2
    <3>4. h \in [0..n + 1 -> D] /\ h[0] = d
      BY <3>1, <3>3
    <3>5. ASSUME NEW m \in Nat, m < n + 1
          PROVE  h[m + 1] = step[<<m + 1, h[m]>>]
      <4>1. CASE m = n
        <5>1. h[n] = g[n] /\ h[n + 1] = step[<<n + 1, g[n]>>]
          OBVIOUS
        <5>. QED  BY <4>1, <5>1
      <4>2. CASE m < n
        <5>1. h[m] = g[m] /\ h[m + 1] = g[m + 1]
          BY <4>2
        <5>. QED  BY <3>1, <4>2, <5>1
      <4>. QED  BY <3>5, <4>1, <4>2
    <3>6. IsRun(h, n + 1)
      BY <3>4, <3>5
    <3>. HIDE DEF IsRun, h
    <3>. QED  BY <3>6
  <2>. HIDE DEF Lengths
  <2>. QED  BY <2>1, <2>2, NatAll
<1>2. ASSUME NEW g, NEW h, NEW k \in Nat, NEW l \in Nat, IsRun(g, k), IsRun(h, l)
      PROVE  \A m \in Nat : m <= k /\ m <= l => g[m] = h[m]
  <2>. DEFINE Agree == {m \in Nat : m <= k /\ m <= l => g[m] = h[m]}
  <2>1. 0 \in Agree
    BY <1>2
  <2>2. ASSUME NEW n \in Nat, n \in Agree PROVE n + 1 \in Agree
    <3>. SUFFICES ASSUME n + 1 <= k, n + 1 <= l PROVE g[n + 1] = h[n + 1]
      OBVIOUS
    <3>1. n < k /\ n < l /\ g[n] = h[n]
      BY <2>2
    <3>2. g[n + 1] = step[<<n + 1, g[n]>>] /\ h[n + 1] = step[<<n + 1, h[n]>>]
      BY <1>2, <3>1
    <3>. QED  BY <3>1, <3>2
  <2>. HIDE DEF Agree, IsRun
  <2>3. \A m \in Nat : m \in Agree
    BY <2>1, <2>2, NatAll
  <2>. QED  BY <2>3 DEF Agree
<1>. DEFINE run(n) == CHOOSE g : IsRun(g, n)
            f == [n \in Nat |-> run(n)[n]]
<1>3. ASSUME NEW n \in Nat PROVE IsRun(run(n), n)
  <2>1. \E g : IsRun(g, n)
    BY <1>1
  <2>. HIDE DEF IsRun
  <2>. QED  BY <2>1
<1>4. ASSUME NEW n \in Nat PROVE run(n)[n] \in D
  <2>. HIDE DEF run
  <2>. QED  BY <1>3
<1>5. f \in [Nat -> D]
  BY <1>4
<1>6. f[0] = d
  <2>1. IsRun(run(0), 0)
    BY <1>3
  <2>. HIDE DEF run
  <2>. QED  BY <2>1
<1>7. ASSUME NEW n \in Nat PROVE f[n + 1] = step[<<n + 1, f[n]>>]
  <2>1. IsRun(run(n + 1), n + 1) /\ IsRun(run(n), n)
    <3>1. n + 1 \in Nat
      OBVIOUS
    <3>. HIDE DEF IsRun, run
    <3>. QED  BY <1>3, <3>1
  <2>2. run(n + 1)[n] = run(n)[n]
    <3>. HIDE DEF IsRun, run
    <3>. QED  BY <1>2, <2>1
  <2>3. run(n + 1)[n + 1] = step[<<n + 1, run(n + 1)[n]>>]
    <3>. HIDE DEF run
    <3>. QED  BY <2>1
  <2>4. f[n + 1] = run(n + 1)[n + 1] /\ f[n] = run(n)[n]
    OBVIOUS
  <2>. QED  BY <2>2, <2>3, <2>4
<1>8. IsIteration(f, D, d, step)
  <2>. HIDE DEF f
  <2>. QED  BY <1>5, <1>6, <1>7 DEF IsIteration
<1>. QED  BY <1>8

-----------------------------------------------------------------------------
(***************************************************************************)
(* Clusters: merge_clusters.                                               *)
(***************************************************************************)
\* Growing is joining as often as there are clusters.
IsGrowth(f, users, clusters) ==
    /\ f[0] = users
    /\ \A n \in Nat : f[n + 1] = Joined(f[n], clusters)
    /\ Grown(users, clusters) = f[Len(clusters)]

\* The recursive function of Grown is the one its equations describe.
LEMMA GrowthRuns ==
    ASSUME NEW users, NEW clusters
    PROVE  \E f : IsGrowth(f, users, clusters)
<1>. DEFINE everyone == users \cup UNION {clusters[i].users : i \in DOMAIN clusters}
            D == SUBSET everyone
            step == [p \in Nat \X D |-> Joined(p[2], clusters)]
<1>1. users \in D
  OBVIOUS
<1>2. step \in [Nat \X D -> D]
  <2>. SUFFICES ASSUME NEW p \in Nat \X D PROVE Joined(p[2], clusters) \in D
    OBVIOUS
  <2>1. p[2] \subseteq everyone
    OBVIOUS
  <2>2. UNION {clusters[i].users : i \in Overlapping(p[2], clusters)} \subseteq everyone
    BY DEF Overlapping
  <2>. QED  BY <2>1, <2>2 DEF Joined
<1>. HIDE DEF step, D
<1>0. PICK f : IsIteration(f, D, users, step)
  BY <1>1, <1>2, Iteration
<1>3. /\ f \in [Nat -> D] /\ f[0] = users
      /\ \A n \in Nat : f[n + 1] = step[<<n + 1, f[n]>>]
  BY <1>0 DEF IsIteration
<1>4. ASSUME NEW n \in Nat PROVE f[n + 1] = Joined(f[n], clusters)
  <2>1. <<n + 1, f[n]>> \in Nat \X D
    <3>1. n + 1 \in Nat /\ f[n] \in D
      BY <1>3
    <3>. QED  BY <3>1
  <2>2. step[<<n + 1, f[n]>>] = Joined(f[n], clusters)
    BY <2>1 DEF step
  <2>. QED  BY <1>3, <2>2
<1>. DEFINE Body(g) == [n \in Nat |-> IF n = 0 THEN users ELSE Joined(g[n - 1], clusters)]
            more == CHOOSE g : g = Body(g)
<1>5. f = Body(f)
  <2>1. ASSUME NEW n \in Nat PROVE f[n] = Body(f)[n]
    <3>1. CASE n = 0
      BY <1>3, <3>1
    <3>2. CASE n # 0
      <4>1. n - 1 \in Nat /\ (n - 1) + 1 = n
        BY <3>2
      <4>2. f[n] = Joined(f[n - 1], clusters)
        BY <1>4, <4>1
      <4>. QED  BY <3>2, <4>2
    <3>. QED  BY <3>1, <3>2
  <2>. QED  BY <1>3, <2>1
<1>6. more = Body(more)
  <2>. HIDE DEF Body
  <2>. QED  BY <1>5
<1>7. more[0] = users /\ \A n \in Nat : more[n + 1] = Joined(more[n], clusters)
  <2>1. ASSUME NEW n \in Nat PROVE more[n + 1] = Joined(more[n], clusters)
    <3>1. n + 1 \in Nat /\ n + 1 # 0 /\ (n + 1) - 1 = n
      OBVIOUS
    <3>. HIDE DEF more
    <3>. QED  BY <1>6, <3>1
  <2>2. more[0] = users
    <3>. HIDE DEF more
    <3>. QED  BY <1>6
  <2>. QED  BY <2>1, <2>2
<1>8. Grown(users, clusters) = more[Len(clusters)]
  BY DEF Grown
<1>. HIDE DEF more
<1>9. IsGrowth(more, users, clusters)
  BY <1>7, <1>8 DEF IsGrowth
<1>. QED  BY <1>9

\* A set of users that no cluster crosses.
Closed(S, clusters) ==
    \A i \in DOMAIN clusters :
        clusters[i].users \cap S # {} => clusters[i].users \subseteq S

\* A cluster grows into the smallest set of users that no cluster crosses.
LEMMA GrownIsClosed ==
    ASSUME NEW users, NEW clusters, Len(clusters) \in Nat,
           DOMAIN clusters = 1..Len(clusters)
    PROVE  /\ users \subseteq Grown(users, clusters)
           /\ Closed(Grown(users, clusters), clusters)
<1>0. PICK f : IsGrowth(f, users, clusters)
  BY GrowthRuns
<1>1. /\ f[0] = users
      /\ \A n \in Nat : f[n + 1] = Joined(f[n], clusters)
      /\ Grown(users, clusters) = f[Len(clusters)]
  BY <1>0 DEF IsGrowth
<1>. DEFINE met(n) == Overlapping(f[n], clusters)
            Done(n) == users \subseteq f[n]
                       /\ (Closed(f[n], clusters) \/ Cardinality(met(n)) > n)
            Fine == {n \in Nat : Done(n)}
<1>2. \A n \in Nat : IsFiniteSet(met(n)) /\ Cardinality(met(n)) \in Nat
  <2>1. IsFiniteSet(1..Len(clusters))
    BY FS_Interval
  <2>. SUFFICES ASSUME NEW n \in Nat
                PROVE  IsFiniteSet(met(n)) /\ Cardinality(met(n)) \in Nat
    OBVIOUS
  <2>2. met(n) \in SUBSET (1..Len(clusters))
    BY DEF Overlapping
  <2>3. IsFiniteSet(met(n))
    BY <2>1, <2>2, FS_Subset
  <2>. QED  BY <2>3, FS_CardinalityType
<1>3. 0 \in Fine
  <2>1. CASE met(0) = {}
    <3>1. Closed(f[0], clusters)
      BY <2>1 DEF Overlapping, Closed
    <3>. QED  BY <1>1, <3>1
  <2>2. CASE met(0) # {}
    <3>1. Cardinality(met(0)) # 0
      BY <1>2, <2>2, FS_EmptySet
    <3>2. Cardinality(met(0)) > 0
      BY <1>2, <3>1
    <3>. QED  BY <1>1, <3>2
  <2>. QED  BY <2>1, <2>2
<1>4. ASSUME NEW n \in Nat, n \in Fine PROVE n + 1 \in Fine
  <2>1. f[n + 1] = f[n] \cup UNION {clusters[i].users : i \in met(n)}
    BY <1>1 DEF Joined
  <2>2. users \subseteq f[n] /\ (Closed(f[n], clusters) \/ Cardinality(met(n)) > n)
    BY <1>4
  <2>3. users \subseteq f[n + 1]
    BY <2>1, <2>2
  <2>4. CASE Closed(f[n], clusters)
    <3>1. \A i \in met(n) : clusters[i].users \subseteq f[n]
      BY <2>4 DEF Closed, Overlapping
    <3>2. f[n + 1] = f[n]
      BY <2>1, <3>1
    <3>. QED  BY <2>3, <2>4, <3>2
  <2>5. CASE Cardinality(met(n)) > n /\ met(n + 1) = met(n)
    <3>1. \A i \in met(n) : clusters[i].users \subseteq f[n + 1]
      BY <2>1
    <3>2. Closed(f[n + 1], clusters)
      BY <2>5, <3>1 DEF Closed, Overlapping
    <3>. QED  BY <2>3, <3>2
  <2>6. CASE Cardinality(met(n)) > n /\ met(n + 1) # met(n)
    <3>1. met(n) \in SUBSET met(n + 1)
      BY <2>1 DEF Overlapping
    <3>2. /\ Cardinality(met(n)) <= Cardinality(met(n + 1))
          /\ Cardinality(met(n)) # Cardinality(met(n + 1))
      <4>. HIDE DEF met
      <4>1. n + 1 \in Nat /\ IsFiniteSet(met(n + 1))
        BY <1>2
      <4>. QED  BY <2>6, <3>1, <4>1, FS_Subset
    <3>3. Cardinality(met(n)) \in Nat /\ Cardinality(met(n + 1)) \in Nat
      <4>1. n + 1 \in Nat
        OBVIOUS
      <4>. HIDE DEF met
      <4>. QED  BY <1>2, <4>1
    <3>4. Cardinality(met(n + 1)) > n + 1
      <4>. HIDE DEF met
      <4>. QED  BY <2>6, <3>2, <3>3
    <3>. QED  BY <2>3, <3>4
  <2>. QED  BY <2>2, <2>4, <2>5, <2>6
<1>5. Len(clusters) \in Fine
  <2>. HIDE DEF Fine
  <2>. QED  BY <1>3, <1>4, NatAll
<1>6. ~(Cardinality(met(Len(clusters))) > Len(clusters))
  <2>1. met(Len(clusters)) \in SUBSET (1..Len(clusters))
    <3>1. met(Len(clusters)) \subseteq DOMAIN clusters
      BY DEF Overlapping
    <3>. HIDE DEF met
    <3>. QED  BY <3>1
  <2>2. IsFiniteSet(1..Len(clusters)) /\ Cardinality(1..Len(clusters)) = Len(clusters)
    <3>1. PICK n \in Nat : n = Len(clusters)
      OBVIOUS
    <3>2. IsFiniteSet(1..n) /\ Cardinality(1..n) = n
      BY FS_Interval
    <3>. QED  BY <3>1, <3>2
  <2>3. Cardinality(met(Len(clusters))) <= Cardinality(1..Len(clusters))
    <3>. HIDE DEF met
    <3>. QED  BY <2>1, <2>2, FS_Subset
  <2>4. Cardinality(met(Len(clusters))) \in Nat
    BY <1>2
  <2>. HIDE DEF met
  <2>. QED  BY <2>2, <2>3, <2>4
<1>. QED  BY <1>1, <1>5, <1>6

\* It is within every other such set.
LEMMA GrownIsLeast ==
    ASSUME NEW users, NEW clusters, Len(clusters) \in Nat,
           NEW S, users \subseteq S, Closed(S, clusters)
    PROVE  Grown(users, clusters) \subseteq S
<1>0. PICK f : IsGrowth(f, users, clusters)
  BY GrowthRuns
<1>1. /\ f[0] = users
      /\ \A n \in Nat : f[n + 1] = Joined(f[n], clusters)
      /\ Grown(users, clusters) = f[Len(clusters)]
  BY <1>0 DEF IsGrowth
<1>. DEFINE Fine == {n \in Nat : f[n] \subseteq S}
<1>2. 0 \in Fine
  BY <1>1
<1>3. ASSUME NEW n \in Nat, n \in Fine PROVE n + 1 \in Fine
  <2>1. f[n + 1] = f[n] \cup UNION {clusters[i].users : i \in Overlapping(f[n], clusters)}
    BY <1>1 DEF Joined
  <2>2. f[n] \subseteq S
    BY <1>3
  <2>3. \A i \in Overlapping(f[n], clusters) : clusters[i].users \subseteq S
    BY <2>2 DEF Overlapping, Closed
  <2>4. f[n + 1] \subseteq S
    BY <2>1, <2>2, <2>3
  <2>. QED  BY <2>4
<1>4. Len(clusters) \in Fine
  <2>. HIDE DEF Fine
  <2>. QED  BY <1>2, <1>3, NatAll
<1>. QED  BY <1>1, <1>4

\* Clusters in a list, in some order.
IsList(clusters) == Len(clusters) \in Nat /\ DOMAIN clusters = 1..Len(clusters)

\* Two clusters that keep their places share nobody once they have grown: the
\* later would have been swallowed.
LEMMA LaterIsApart ==
    ASSUME NEW clusters, IsList(clusters),
           NEW i \in Firsts(clusters), NEW j \in Firsts(clusters), j < i
    PROVE  Grown(clusters[i].users, clusters)
              \cap Grown(clusters[j].users, clusters) = {}
<1>. DEFINE here  == Grown(clusters[i].users, clusters)
            there == Grown(clusters[j].users, clusters)
<1>1. /\ clusters[i].users \subseteq here
      /\ Closed(here, clusters) /\ Closed(there, clusters)
  BY GrownIsClosed DEF IsList
<1>2. i \in DOMAIN clusters /\ j \in 1..i - 1
  BY DEF Firsts, IsList
<1>3. ~(clusters[i].users \subseteq there)
  BY <1>2 DEF Firsts
<1>. HIDE DEF here, there
<1>4. clusters[i].users \cap there = {}
  BY <1>1, <1>2, <1>3 DEF Closed
<1>5. Closed(here \ there, clusters)
  BY <1>1 DEF Closed
<1>6. clusters[i].users \subseteq here \ there
  BY <1>1, <1>4
<1>7. here \subseteq here \ there
  BY <1>5, <1>6, GrownIsLeast DEF here, IsList
<1>8. here \cap there = {}
  BY <1>7
<1>. QED  BY <1>8 DEF here, there

\* Nothing is lost: by its first holder every cluster is in one that stays.
LEMMA EveryClusterIsInAFirst ==
    ASSUME NEW clusters, IsList(clusters), NEW i \in DOMAIN clusters
    PROVE  \E k \in Firsts(clusters) :
              clusters[i].users \subseteq Grown(clusters[k].users, clusters)
<1>. DEFINE holders == {j \in DOMAIN clusters :
                clusters[i].users \subseteq Grown(clusters[j].users, clusters)}
<1>1. i \in holders
  BY GrownIsClosed DEF IsList
<1>2. holders \subseteq Nat
  BY DEF IsList
<1>3. PICK k \in holders : \A j \in holders : k <= j
  <2>. HIDE DEF holders
  <2>. QED  BY <1>1, <1>2, NatMin
<1>4. ASSUME NEW j \in 1..k - 1,
             clusters[k].users \subseteq Grown(clusters[j].users, clusters)
      PROVE  FALSE
  <2>1. j \in DOMAIN clusters /\ j < k
    BY <1>3 DEF IsList
  <2>2. Closed(Grown(clusters[j].users, clusters), clusters)
    BY GrownIsClosed DEF IsList
  <2>3. Grown(clusters[k].users, clusters) \subseteq Grown(clusters[j].users, clusters)
    BY <1>4, <2>2, GrownIsLeast DEF IsList
  <2>4. j \in holders
    BY <1>3, <2>1, <2>3
  <2>5. k <= j
    BY <1>3, <2>4
  <2>. QED  BY <1>2, <1>3, <2>1, <2>4, <2>5
<1>5. k \in Firsts(clusters)
  BY <1>3, <1>4 DEF Firsts
<1>. QED  BY <1>3, <1>5

\* Merged clusters share nobody, and each cluster lies within one of them.
LEMMA MergedIs ==
    ASSUME NEW clusters, IsList(clusters)
    PROVE  LET merged == Merged(clusters)
           IN  /\ DOMAIN merged \subseteq 1..Len(clusters)
               /\ \A i, k \in DOMAIN merged :
                     i # k => merged[i].users \cap merged[k].users = {}
               /\ \A i \in DOMAIN clusters : \E k \in DOMAIN merged :
                     clusters[i].users \subseteq merged[k].users
<1>1. /\ DOMAIN Merged(clusters) = Firsts(clusters)
      /\ \A i \in Firsts(clusters) :
            Merged(clusters)[i].users = Grown(clusters[i].users, clusters)
  BY DEF Merged
<1>2. Firsts(clusters) \subseteq 1..Len(clusters)
  BY DEF Firsts, IsList
<1>3. ASSUME NEW i \in Firsts(clusters), NEW k \in Firsts(clusters), i # k
      PROVE  Grown(clusters[i].users, clusters)
                \cap Grown(clusters[k].users, clusters) = {}
  <2>1. i < k \/ k < i
    BY <1>2, <1>3 DEF IsList
  <2>. QED  BY <2>1, LaterIsApart
<1>4. ASSUME NEW i \in DOMAIN clusters
      PROVE  \E k \in Firsts(clusters) :
                clusters[i].users \subseteq Merged(clusters)[k].users
  BY <1>1, EveryClusterIsInAFirst
<1>. QED  BY <1>1, <1>2, <1>3, <1>4

\* Every group of several users is among the clusters.
LEMMA ClustersFound ==
    ASSUME NEW entities, IsFiniteSet(entities)
    PROVE  LET found == FindDependencyClusters(entities)
           IN  /\ IsList(found)
               /\ \A e \in entities : \A u, v \in ClusterKeys(entities, e) :
                     u # v => \E i \in DOMAIN found :
                                 found[i].users = ClusterKeys(entities, e)
               /\ \A i \in DOMAIN found : \E e \in entities :
                     found[i].users = ClusterKeys(entities, e)
<1>. DEFINE groups == {x \in entities : \E u, v \in ClusterKeys(entities, x) : u # v}
            record == [e \in groups |-> [id |-> e.id, users |-> ClusterKeys(entities, e)]]
            S == {[id |-> e.id, users |-> ClusterKeys(entities, e)] : e \in groups}
            found == SetToSeq(S)
<1>1. found = FindDependencyClusters(entities)
  BY DEF FindDependencyClusters
<1>2. IsFiniteSet(S)
  <2>1. IsFiniteSet(groups)
    BY FS_Subset
  <2>2. record \in Surjection(groups, S)
    BY DEF Surjection
  <2>. HIDE DEF record, S, groups
  <2>. QED  BY <2>1, <2>2, FS_Surjection
<1>3. ASSUME NEW e \in groups
      PROVE  [id |-> e.id, users |-> ClusterKeys(entities, e)] \in S
  OBVIOUS
<1>0. ASSUME NEW x \in S
      PROVE  \E e \in entities : x.users = ClusterKeys(entities, e)
  OBVIOUS
<1>. HIDE DEF S, found
<1>4. PICK n \in Nat : n = Cardinality(S)
  BY <1>2, FS_CardinalityType
<1>5. found \in [1..n -> S] /\ IsInjective(found)
  <2>1. PICK f : f \in Bijection(1..n, S)
    BY <1>2, <1>4, FS_CardinalityType DEF ExistsBijection
  <2>2. f \in [1..n -> S] /\ IsInjective(f)
    BY <2>1 DEF Bijection, Injection, IsInjective
  <2>. QED  BY <1>4, <2>2 DEF found, SetToSeq
<1>6. IsList(found)
  <2>1. found \in Seq(S) /\ Len(found) = n
    BY <1>5
  <2>. QED  BY <1>5, <2>1 DEF IsList
<1>7. found \in Surjection(1..n, S)
  <2>1. found \in Injection(1..n, S)
    BY <1>5 DEF Injection, IsInjective
  <2>2. Cardinality(1..n) = n
    BY FS_Interval
  <2>. QED  BY <1>2, <1>4, <2>1, <2>2, FS_Injection
<1>8. ASSUME NEW x \in S PROVE \E i \in DOMAIN found : found[i] = x
  BY <1>5, <1>7 DEF Surjection
<1>9. ASSUME NEW e \in entities, NEW u \in ClusterKeys(entities, e),
             NEW v \in ClusterKeys(entities, e), u # v
      PROVE  \E i \in DOMAIN found : found[i].users = ClusterKeys(entities, e)
  <2>1. e \in groups
    BY <1>9
  <2>2. PICK i \in DOMAIN found :
            found[i] = [id |-> e.id, users |-> ClusterKeys(entities, e)]
    BY <1>3, <1>8, <2>1
  <2>. QED  BY <2>2
<1>10. ASSUME NEW i \in DOMAIN found
       PROVE  \E e \in entities : found[i].users = ClusterKeys(entities, e)
  BY <1>0, <1>5
<1>. QED  BY <1>1, <1>6, <1>9, <1>10

\* Only users of the estate are in clusters.
LEMMA ClustersAreUsers ==
    ASSUME NEW entities, NEW e
    PROVE  ClusterKeys(entities, e) \subseteq UserKeys(entities)
<1>1. \A id : UserKey(entities, id) \subseteq UserKeys(entities)
  BY DEF UserKey, UserKeys
<1>2. \A id : OwnerOfLine(entities, id) \subseteq UserKeys(entities)
  BY <1>1 DEF OwnerOfLine
<1>3. UNION {UserKey(entities, r) : r \in e.refs} \subseteq UserKeys(entities)
  BY <1>1
<1>4. UNION {OwnerOfLine(entities, r) : r \in e.refs} \subseteq UserKeys(entities)
  BY <1>2
<1>. QED  BY <1>3, <1>4 DEF ClusterKeys

-----------------------------------------------------------------------------
(***************************************************************************)
(* Waves: plan_waves, _repair, validate_waves, move_user.                  *)
(***************************************************************************)
\* Nobody is in two waves; all who are in one; users who are all in one.
Disjoint(waves) ==
    \A v, w \in DOMAIN waves : v # w => waves[v] \cap waves[w] = {}
Everyone(waves) == UNION {waves[w] : w \in DOMAIN waves}
InOneWave(waves, users) == \A v, w \in Homes(waves, users) : v = w

\* Some wave is the earliest of those with a member of the cluster.
LEMMA EarliestExists ==
    ASSUME NEW S, S \subseteq Nat \X Nat, S # {}
    PROVE  \E w \in S : \A v \in S : ~Sooner(v, w)
<1>. DEFINE groups == {w[1] : w \in S}
<1>1. groups \subseteq Nat /\ groups # {}
  OBVIOUS
<1>2. PICK g \in groups : \A h \in groups : g <= h
  <2>. HIDE DEF groups
  <2>. QED  BY <1>1, NatMin
<1>. DEFINE places == {w[2] : w \in {x \in S : x[1] = g}}
<1>3. places \subseteq Nat /\ places # {}
  BY <1>2
<1>4. PICK p \in places : \A q \in places : p <= q
  <2>. HIDE DEF places
  <2>. QED  BY <1>3, NatMin
<1>5. PICK w \in S : w[1] = g /\ w[2] = p
  BY <1>4
<1>6. ASSUME NEW v \in S PROVE ~Sooner(v, w)
  <2>1. v[1] \in Nat /\ v[2] \in Nat /\ g \in Nat /\ p \in Nat
    BY <1>1, <1>2, <1>3, <1>4
  <2>2. g <= v[1]
    BY <1>2
  <2>3. v[1] = g => p <= v[2]
    BY <1>4
  <2>. QED  BY <1>5, <2>1, <2>2, <2>3 DEF Sooner
<1>. QED  BY <1>6

\* A user in a wave is placed in that wave.
LEMMA PlacementIs ==
    ASSUME NEW waves, DOMAIN waves \subseteq Nat \X Nat, Disjoint(waves),
           NEW w \in DOMAIN waves, NEW u \in waves[w]
    PROVE  Placement(waves, u) = w
<1>1. Homes(waves, {u}) = {w}
  BY DEF Homes, Disjoint
<1>2. ~Sooner(w, w)
  BY DEF Sooner
<1>. QED  BY <1>1, <1>2 DEF Placement

\* One step of the repair brings a cluster into one wave, and leaves everybody
\* else where they are.
LEMMA PulledIs ==
    ASSUME NEW waves, DOMAIN waves \subseteq Nat \X Nat, Disjoint(waves), NEW users,
           waves = [w \in DOMAIN waves |-> waves[w]]
    PROVE  LET pulled == PulledTogether(waves, users)
           IN  /\ pulled = [w \in DOMAIN waves |-> pulled[w]]
               /\ Disjoint(pulled)
               /\ Everyone(pulled) = Everyone(waves)
               /\ InOneWave(pulled, users)
               /\ \A w \in DOMAIN waves : pulled[w] \ users = waves[w] \ users
<1>. DEFINE homes    == Homes(waves, users)
            earliest == CHOOSE w \in homes : \A v \in homes : ~Sooner(v, w)
            here     == users \cap UNION {waves[w] : w \in homes}
            pulled   == PulledTogether(waves, users)
<1>1. CASE InOneWave(waves, users)
  <2>1. pulled = waves
    BY <1>1 DEF PulledTogether, InOneWave
  <2>. QED  BY <1>1, <2>1
<1>2. CASE ~InOneWave(waves, users)
  <2>1. pulled = [w \in DOMAIN waves |->
                    IF w = earliest THEN waves[w] \cup here ELSE waves[w] \ here]
    BY <1>2 DEF PulledTogether, InOneWave
  <2>2. homes # {} /\ homes \subseteq DOMAIN waves
    BY <1>2 DEF InOneWave, Homes
  <2>3. earliest \in homes
    BY <2>2, EarliestExists
  <2>4. here = users \cap Everyone(waves)
    BY DEF Homes, Everyone
  <2>. HIDE DEF earliest, here, pulled, homes
  <2>5. DOMAIN pulled = DOMAIN waves /\ earliest \in DOMAIN waves
    BY <2>1, <2>2, <2>3
  <2>6. \A w \in DOMAIN waves :
            pulled[w] = IF w = earliest THEN waves[w] \cup here ELSE waves[w] \ here
    BY <2>1
  <2>7. Disjoint(pulled)
    BY <2>5, <2>6 DEF Disjoint
  <2>8. Everyone(pulled) = Everyone(waves)
    <3>1. Everyone(pulled) \subseteq Everyone(waves)
      BY <2>4, <2>5, <2>6 DEF Everyone
    <3>2. ASSUME NEW w \in DOMAIN waves, NEW u \in waves[w]
          PROVE  \E v \in DOMAIN waves : u \in pulled[v]
      <4>1. CASE u \in here
        BY <2>5, <2>6, <4>1
      <4>2. CASE u \notin here
        BY <2>6, <4>2
      <4>. QED  BY <4>1, <4>2
    <3>. QED  BY <3>1, <3>2, <2>5 DEF Everyone
  <2>9. InOneWave(pulled, users)
    <3>. SUFFICES ASSUME NEW w \in DOMAIN waves, NEW u \in users, u \in pulled[w]
                  PROVE  w = earliest
      BY <2>5 DEF InOneWave, Homes
    <3>1. u \in here
      BY <2>4, <2>5, <2>8 DEF Everyone
    <3>. QED  BY <2>6, <3>1
  <2>10. \A w \in DOMAIN waves : pulled[w] \ users = waves[w] \ users
    BY <2>4, <2>6
  <2>11. pulled = [w \in DOMAIN waves |-> pulled[w]]
    BY <2>1
  <2>. QED  BY <2>7, <2>8, <2>9, <2>10, <2>11 DEF pulled
<1>. QED  BY <1>1, <1>2

\* One round of the repair, and the repair as its repetition.
RepairStep(waves, clusters, n) ==
    IF n \in DOMAIN clusters THEN PulledTogether(waves, clusters[n].users) ELSE waves
IsRepair(f, waves, clusters, last) ==
    /\ f[0] = waves
    /\ \A n \in Nat : f[n + 1] = RepairStep(f[n], clusters, n + 1)
    /\ Repaired(waves, clusters, last)
         = [w \in {v \in DOMAIN waves : f[last][v] # {}} |-> f[last][w]]

\* The recursive function of Repaired is the one its equations describe.
LEMMA RepairRuns ==
    ASSUME NEW waves, waves = [w \in DOMAIN waves |-> waves[w]],
           NEW clusters, NEW last
    PROVE  \E f : IsRepair(f, waves, clusters, last)
<1>. DEFINE D == [DOMAIN waves -> SUBSET Everyone(waves)]
            step == [p \in Nat \X D |-> RepairStep(p[2], clusters, p[1])]
<1>1. waves \in D
  BY DEF Everyone
<1>2. ASSUME NEW g \in D, NEW users PROVE PulledTogether(g, users) \in D
  <2>. DEFINE homes    == Homes(g, users)
              earliest == CHOOSE w \in homes : \A v \in homes : ~Sooner(v, w)
              here     == users \cap UNION {g[w] : w \in homes}
              next     == [w \in DOMAIN g |->
                             IF w = earliest THEN g[w] \cup here ELSE g[w] \ here]
  <2>1. PulledTogether(g, users) = g \/ PulledTogether(g, users) = next
    BY DEF PulledTogether
  <2>2. here \subseteq Everyone(waves)
    BY DEF Homes
  <2>. HIDE DEF here, earliest
  <2>3. next \in D
    BY <2>2
  <2>. QED  BY <2>1, <2>3
<1>3. step \in [Nat \X D -> D]
  <2>. SUFFICES ASSUME NEW p \in Nat \X D PROVE RepairStep(p[2], clusters, p[1]) \in D
    OBVIOUS
  <2>1. p[2] \in D
    OBVIOUS
  <2>. HIDE DEF D
  <2>. QED  BY <1>2, <2>1 DEF RepairStep
<1>. HIDE DEF step, D
<1>4. PICK f : IsIteration(f, D, waves, step)
  BY <1>1, <1>3, Iteration
<1>5. /\ f \in [Nat -> D] /\ f[0] = waves
      /\ \A n \in Nat : f[n + 1] = step[<<n + 1, f[n]>>]
  BY <1>4 DEF IsIteration
<1>6. ASSUME NEW n \in Nat PROVE f[n + 1] = RepairStep(f[n], clusters, n + 1)
  <2>1. <<n + 1, f[n]>> \in Nat \X D
    <3>1. n + 1 \in Nat /\ f[n] \in D
      BY <1>5
    <3>. QED  BY <3>1
  <2>2. step[<<n + 1, f[n]>>] = RepairStep(f[n], clusters, n + 1)
    BY <2>1 DEF step
  <2>. QED  BY <1>5, <2>2
<1>. DEFINE Body(g) == [n \in Nat |->
                IF n = 0 THEN waves
                ELSE IF n \in DOMAIN clusters
                     THEN PulledTogether(g[n - 1], clusters[n].users)
                ELSE g[n - 1]]
            after == CHOOSE g : g = Body(g)
<1>7. ASSUME NEW g, NEW n \in Nat
      PROVE  Body(g)[n] = IF n = 0 THEN waves ELSE RepairStep(g[n - 1], clusters, n)
  BY DEF RepairStep
<1>8. f = Body(f)
  <2>1. ASSUME NEW n \in Nat PROVE f[n] = Body(f)[n]
    <3>. HIDE DEF Body
    <3>1. CASE n = 0
      BY <1>5, <1>7, <3>1
    <3>2. CASE n # 0
      <4>1. n - 1 \in Nat /\ (n - 1) + 1 = n
        BY <3>2
      <4>2. f[n] = RepairStep(f[n - 1], clusters, n)
        BY <1>6, <4>1
      <4>. QED  BY <1>7, <3>2, <4>2
    <3>. QED  BY <3>1, <3>2
  <2>. QED  BY <1>5, <2>1
<1>9. after = Body(after)
  <2>. HIDE DEF Body
  <2>. QED  BY <1>8
<1>10. Repaired(waves, clusters, last)
         = [w \in {v \in DOMAIN waves : after[last][v] # {}} |-> after[last][w]]
  BY DEF Repaired
<1>. HIDE DEF after, Body
<1>11. after[0] = waves
  BY <1>7, <1>9
<1>12. ASSUME NEW n \in Nat PROVE after[n + 1] = RepairStep(after[n], clusters, n + 1)
  <2>1. n + 1 \in Nat /\ n + 1 # 0 /\ (n + 1) - 1 = n
    OBVIOUS
  <2>2. Body(after)[n + 1] = RepairStep(after[n], clusters, n + 1)
    BY <1>7, <2>1
  <2>. QED  BY <1>9, <2>2
<1>13. IsRepair(after, waves, clusters, last)
  BY <1>10, <1>11, <1>12 DEF IsRepair
<1>. QED  BY <1>13

\* The repair keeps everybody, in one wave each, and brings clusters that share
\* nobody into one wave each.
LEMMA RepairedIs ==
    ASSUME NEW waves, DOMAIN waves \subseteq Nat \X Nat, Disjoint(waves),
           waves = [w \in DOMAIN waves |-> waves[w]],
           NEW clusters, NEW last \in Nat,
           \A i, k \in DOMAIN clusters :
              i # k => clusters[i].users \cap clusters[k].users = {}
    PROVE  LET repaired == Repaired(waves, clusters, last)
           IN  /\ DOMAIN repaired \subseteq DOMAIN waves
               /\ Disjoint(repaired)
               /\ Everyone(repaired) = Everyone(waves)
               /\ \A i \in DOMAIN clusters :
                     i \in 1..last => InOneWave(repaired, clusters[i].users)
<1>1. PICK f : IsRepair(f, waves, clusters, last)
  BY RepairRuns
<1>. DEFINE Done(n) ==
              /\ f[n] = [w \in DOMAIN waves |-> f[n][w]]
              /\ Disjoint(f[n])
              /\ Everyone(f[n]) = Everyone(waves)
              /\ \A i \in DOMAIN clusters :
                    i \in 1..n => InOneWave(f[n], clusters[i].users)
            Fine == {n \in Nat : Done(n)}
<1>2. 0 \in Fine
  BY <1>1 DEF IsRepair
<1>3. ASSUME NEW n \in Nat, n \in Fine PROVE n + 1 \in Fine
  <2>1. Done(n)
    BY <1>3
  <2>2. DOMAIN f[n] = DOMAIN waves
    <3>1. f[n] = [w \in DOMAIN waves |-> f[n][w]]
      BY <2>1
    <3>. QED  BY <3>1
  <2>3. f[n + 1] = RepairStep(f[n], clusters, n + 1)
    BY <1>1 DEF IsRepair
  <2>4. CASE n + 1 \in DOMAIN clusters
    <3>. DEFINE users == clusters[n + 1].users
    <3>1. f[n + 1] = PulledTogether(f[n], users)
      BY <2>3, <2>4 DEF RepairStep
    <3>2. /\ f[n + 1] = [w \in DOMAIN waves |-> f[n + 1][w]]
          /\ Disjoint(f[n + 1])
          /\ Everyone(f[n + 1]) = Everyone(waves)
          /\ InOneWave(f[n + 1], users)
          /\ \A w \in DOMAIN waves : f[n + 1][w] \ users = f[n][w] \ users
      <4>1. f[n] = [w \in DOMAIN f[n] |-> f[n][w]]
        BY <2>1, <2>2
      <4>. HIDE DEF users
      <4>. QED  BY <2>1, <2>2, <3>1, <4>1, PulledIs
    <3>3. DOMAIN f[n + 1] = DOMAIN waves
      <4>1. f[n + 1] = [w \in DOMAIN waves |-> f[n + 1][w]]
        BY <3>2
      <4>. QED  BY <4>1
    <3>4. ASSUME NEW i \in DOMAIN clusters, i \in 1..n + 1
          PROVE  InOneWave(f[n + 1], clusters[i].users)
      <4>1. CASE i = n + 1
        BY <3>2, <4>1
      <4>2. CASE i # n + 1
        <5>1. i \in 1..n /\ clusters[i].users \cap users = {}
          BY <2>4, <3>4, <4>2
        <5>2. InOneWave(f[n], clusters[i].users)
          BY <2>1, <5>1
        <5>3. Homes(f[n + 1], clusters[i].users) = Homes(f[n], clusters[i].users)
          <6>. HIDE DEF users
          <6>. QED  BY <2>2, <3>2, <3>3, <5>1 DEF Homes
        <5>. QED  BY <5>2, <5>3 DEF InOneWave
      <4>. QED  BY <4>1, <4>2
    <3>5. Done(n + 1)
      BY <3>2, <3>4
    <3>. QED  BY <3>5
  <2>5. CASE n + 1 \notin DOMAIN clusters
    <3>1. f[n + 1] = f[n]
      BY <2>3, <2>5 DEF RepairStep
    <3>2. \A i \in DOMAIN clusters : i \in 1..n + 1 => i \in 1..n
      BY <2>5
    <3>3. Done(n + 1)
      BY <2>1, <3>1, <3>2
    <3>. QED  BY <3>3
  <2>. QED  BY <2>4, <2>5
<1>4. Done(last)
  <2>1. \A n \in Nat : n \in Fine
    <3>. HIDE DEF Fine
    <3>. QED  BY <1>2, <1>3, NatAll
  <2>. QED  BY <2>1
<1>. DEFINE repaired == Repaired(waves, clusters, last)
<1>5. repaired = [w \in {v \in DOMAIN waves : f[last][v] # {}} |-> f[last][w]]
  BY <1>1 DEF IsRepair
<1>6. DOMAIN f[last] = DOMAIN waves
  <2>1. f[last] = [w \in DOMAIN waves |-> f[last][w]]
    BY <1>4
  <2>. QED  BY <2>1
<1>. HIDE DEF repaired
<1>7. /\ DOMAIN repaired \subseteq DOMAIN waves
      /\ \A w \in DOMAIN repaired : repaired[w] = f[last][w]
      /\ \A w \in DOMAIN waves : f[last][w] # {} => w \in DOMAIN repaired
  BY <1>5
<1>8. Disjoint(repaired)
  BY <1>4, <1>6, <1>7 DEF Disjoint
<1>9. Everyone(repaired) = Everyone(waves)
  <2>1. Everyone(repaired) = Everyone(f[last])
    BY <1>6, <1>7 DEF Everyone
  <2>. QED  BY <1>4, <2>1
<1>10. ASSUME NEW i \in DOMAIN clusters, i \in 1..last
       PROVE  InOneWave(repaired, clusters[i].users)
  <2>1. Homes(repaired, clusters[i].users) \subseteq Homes(f[last], clusters[i].users)
    BY <1>6, <1>7 DEF Homes
  <2>. QED  BY <1>4, <1>10, <2>1 DEF InOneWave
<1>. QED  BY <1>7, <1>8, <1>9, <1>10 DEF repaired

\* No two users of an estate have one name; sites and departments have an order.
NamesDiffer(entities) ==
    \A x, y \in UsersIn(entities) : x.value = y.value => x = y
Sortable(e) == {e.site, e.department} \subseteq Nat \cup {None}
IsOrdered(entities) ==
    IsFiniteSet(entities) /\ \A u \in UsersIn(entities) : Sortable(u)

\* A user is grouped into a wave that can be named.
LEMMA WaveOfIs ==
    ASSUME NEW entities, IsOrdered(entities), NEW strategy, NEW size \in Nat,
           NEW u \in UsersIn(entities)
    PROVE  WaveOf(u, entities, strategy, size) \in Nat \X Nat
<1>. DEFINE group  == GroupingKey(u, strategy)
            some   == {y \in UsersIn(entities) :
                         GroupingKey(y, strategy) = group /\ y.value < u.value}
            before == {x.value : x \in some}
            name   == [x \in some |-> x.value]
<1>1. group \in Nat
  BY DEF GroupingKey, IsOrdered, Sortable
<1>2. IsFiniteSet(some)
  <2>1. some \in SUBSET entities
    BY DEF UsersIn
  <2>. HIDE DEF some
  <2>. QED  BY <2>1, FS_Subset DEF IsOrdered
<1>3. name \in Surjection(some, before)
  BY DEF Surjection
<1>4. Cardinality(before) \in Nat
  <2>. HIDE DEF some, before, name
  <2>1. IsFiniteSet(before)
    BY <1>2, <1>3, FS_Surjection
  <2>. QED  BY <2>1, FS_CardinalityType
<1>5. WaveOf(u, entities, strategy, size)
        = <<group, IF size = 0 THEN 0 ELSE Cardinality(before) \div size>>
  BY DEF WaveOf
<1>6. (IF size = 0 THEN 0 ELSE Cardinality(before) \div size) \in Nat
  <2>1. PICK c \in Nat : c = Cardinality(before)
    BY <1>4
  <2>2. size # 0 => c \div size \in Nat
    OBVIOUS
  <2>. HIDE DEF before
  <2>. QED  BY <2>1, <2>2
<1>. HIDE DEF group, before
<1>. QED  BY <1>1, <1>5, <1>6

\* The users come into waves as a whole, each into one.
LEMMA GroupedIs ==
    ASSUME NEW entities, IsOrdered(entities), NamesDiffer(entities),
           NEW strategy, NEW size \in Nat
    PROVE  LET waves == Grouped(entities, strategy, size)
           IN  /\ DOMAIN waves \subseteq Nat \X Nat
               /\ waves = [w \in DOMAIN waves |-> waves[w]]
               /\ Disjoint(waves)
               /\ Everyone(waves) = UserKeys(entities)
<1>. DEFINE waves == Grouped(entities, strategy, size)
            of(u) == WaveOf(u, entities, strategy, size)
            ids   == {of(u) : u \in UsersIn(entities)}
            in(w) == {u.value : u \in {x \in UsersIn(entities) : of(x) = w}}
<1>1. waves = [w \in ids |-> in(w)]
  BY DEF Grouped
<1>2. ids \subseteq Nat \X Nat
  BY WaveOfIs
<1>3. ASSUME NEW v \in ids, NEW w \in ids, NEW x \in in(v) \cap in(w)
      PROVE  v = w
  <2>1. PICK u \in UsersIn(entities) : of(u) = v /\ u.value = x
    OBVIOUS
  <2>2. PICK t \in UsersIn(entities) : of(t) = w /\ t.value = x
    OBVIOUS
  <2>3. u = t
    BY <2>1, <2>2 DEF NamesDiffer
  <2>. QED  BY <2>1, <2>2, <2>3
<1>4. UNION {in(w) : w \in ids} = UserKeys(entities)
  <2>1. ASSUME NEW u \in UsersIn(entities) PROVE of(u) \in ids /\ u.value \in in(of(u))
    OBVIOUS
  <2>2. \A w \in ids : in(w) \subseteq UserKeys(entities)
    BY DEF UserKeys
  <2>. HIDE DEF ids, in, of
  <2>. QED  BY <2>1, <2>2 DEF UserKeys
<1>. HIDE DEF waves, ids, in
<1>5. DOMAIN waves = ids /\ \A w \in ids : waves[w] = in(w)
  BY <1>1
<1>6. Disjoint(waves)
  BY <1>3, <1>5 DEF Disjoint
<1>7. Everyone(waves) = UserKeys(entities)
  BY <1>4, <1>5 DEF Everyone
<1>8. waves = [w \in DOMAIN waves |-> waves[w]]
  BY <1>1
<1>. QED  BY <1>2, <1>5, <1>6, <1>7, <1>8 DEF waves

\* What plan_waves returns: everybody in one wave each, no cluster split.
LEMMA WavePlanIs ==
    ASSUME NEW entities, IsOrdered(entities), NamesDiffer(entities),
           NEW strategy, NEW size \in Nat
    PROVE  LET plan == WavePlan(entities, strategy, size)
           IN  /\ DOMAIN plan.waves \subseteq Nat \X Nat
               /\ Disjoint(plan.waves)
               /\ Everyone(plan.waves) = UserKeys(entities)
               /\ plan.violations = {}
<1>. DEFINE found    == FindDependencyClusters(entities)
            clusters == Merged(found)
            grouped  == Grouped(entities, strategy, size)
            waves    == Repaired(grouped, clusters, Len(found))
            plan     == WavePlan(entities, strategy, size)
<1>1. plan.waves = waves /\ plan.violations = Violations(waves, clusters)
  BY DEF WavePlan
<1>2. /\ IsList(found)
      /\ \A i \in DOMAIN found : \E e \in entities :
            found[i].users = ClusterKeys(entities, e)
  BY ClustersFound DEF IsOrdered
<1>. HIDE DEF found
<1>3. /\ DOMAIN clusters \subseteq 1..Len(found)
      /\ \A i, k \in DOMAIN clusters :
            i # k => clusters[i].users \cap clusters[k].users = {}
  BY <1>2, MergedIs
<1>4. \A i \in DOMAIN clusters : clusters[i].users \subseteq UserKeys(entities)
  <2>1. \A i \in DOMAIN found : found[i].users \subseteq UserKeys(entities)
    BY <1>2, ClustersAreUsers
  <2>2. Closed(UserKeys(entities), found)
    BY <2>1 DEF Closed
  <2>3. ASSUME NEW i \in DOMAIN found
        PROVE  Grown(found[i].users, found) \subseteq UserKeys(entities)
    BY <1>2, <2>1, <2>2, GrownIsLeast DEF IsList
  <2>. QED  BY <2>3 DEF Merged, Firsts
<1>. HIDE DEF clusters, grouped, waves, plan
<1>5. /\ DOMAIN grouped \subseteq Nat \X Nat
      /\ grouped = [w \in DOMAIN grouped |-> grouped[w]]
      /\ Disjoint(grouped)
      /\ Everyone(grouped) = UserKeys(entities)
  BY GroupedIs DEF grouped
<1>6. /\ DOMAIN waves \subseteq DOMAIN grouped
      /\ Disjoint(waves)
      /\ Everyone(waves) = Everyone(grouped)
      /\ \A i \in DOMAIN clusters :
            i \in 1..Len(found) => InOneWave(waves, clusters[i].users)
  <2>1. Len(found) \in Nat
    BY <1>2 DEF IsList
  <2>. QED  BY <1>3, <1>5, <2>1, RepairedIs DEF waves
<1>7. ASSUME NEW i \in DOMAIN clusters, NEW u \in clusters[i].users,
             NEW v \in clusters[i].users
      PROVE  Placement(waves, u) = Placement(waves, v)
  <2>1. u \in Everyone(waves) /\ v \in Everyone(waves)
    BY <1>4, <1>5, <1>6
  <2>2. PICK w \in DOMAIN waves : u \in waves[w]
    BY <2>1 DEF Everyone
  <2>3. PICK x \in DOMAIN waves : v \in waves[x]
    BY <2>1 DEF Everyone
  <2>4. w = x
    BY <1>3, <1>6, <2>2, <2>3 DEF InOneWave, Homes
  <2>5. Placement(waves, u) = w /\ Placement(waves, v) = x
    BY <1>5, <1>6, <2>2, <2>3, PlacementIs
  <2>. QED  BY <2>4, <2>5
<1>8. Violations(waves, clusters) = {}
  BY <1>7 DEF Violations
<1>. QED  BY <1>1, <1>5, <1>6, <1>8 DEF plan

\* Where no cluster is split, no group of the estate is.
LEMMA ValidMeansTogether ==
    ASSUME NEW entities, IsOrdered(entities), NEW waves, Disjoint(waves),
           DOMAIN waves \subseteq Nat \X Nat,
           Violations(waves, Merged(FindDependencyClusters(entities))) = {},
           NEW e \in entities, NEW u \in ClusterKeys(entities, e),
           NEW v \in ClusterKeys(entities, e),
           NEW w \in DOMAIN waves, u \in waves[w]
    PROVE  v \in waves[w]
<1>. DEFINE found == FindDependencyClusters(entities)
            clusters == Merged(found)
<1>. SUFFICES ASSUME u # v PROVE v \in waves[w]
  OBVIOUS
<1>1. PICK i \in DOMAIN found : found[i].users = ClusterKeys(entities, e)
  BY ClustersFound DEF IsOrdered
<1>2. IsList(found)
  BY ClustersFound DEF IsOrdered
<1>. HIDE DEF found
<1>3. PICK k \in DOMAIN clusters : found[i].users \subseteq clusters[k].users
  BY <1>2, MergedIs
<1>. HIDE DEF clusters
<1>4. Placement(waves, u) = Placement(waves, v)
  <2>1. u \in clusters[k].users /\ v \in clusters[k].users
    BY <1>1, <1>3
  <2>2. Violations(waves, clusters) = {}
    BY DEF clusters, found
  <2>. QED  BY <2>1, <2>2 DEF Violations
<1>5. Placement(waves, u) = w
  BY PlacementIs
<1>6. Homes(waves, {v}) # {}
  <2>1. w # None
    BY PlanningAssumption
  <2>. QED  BY <1>4, <1>5, <2>1 DEF Placement
<1>7. PICK x \in DOMAIN waves : v \in waves[x]
  BY <1>6 DEF Homes
<1>8. Placement(waves, v) = x
  BY <1>7, PlacementIs
<1>. QED  BY <1>4, <1>5, <1>7, <1>8

-----------------------------------------------------------------------------
(***************************************************************************)
(* What mapping leaves in order: sites and departments stay numbers.       *)
(***************************************************************************)
\* A set of places in a list has a last one.
LEMMA NatMax ==
    ASSUME NEW n \in Nat, NEW T, T \subseteq 1..n, T # {}
    PROVE  \E m \in T : \A k \in T : k <= m
<1>. DEFINE short == {n - k : k \in T}
<1>1. short \subseteq Nat /\ short # {}
  <2>1. ASSUME NEW k \in T PROVE n - k \in Nat
    <3>1. k \in 1..n
      OBVIOUS
    <3>. QED  BY <3>1
  <2>. QED  BY <2>1
<1>2. PICK s \in short : \A r \in short : s <= r
  <2>. HIDE DEF short
  <2>. QED  BY <1>1, NatMin
<1>3. PICK m \in T : s = n - m
  BY <1>2
<1>4. ASSUME NEW k \in T PROVE k <= m
  <2>1. n - m <= n - k
    BY <1>2, <1>3
  <2>. QED  BY <2>1
<1>. QED  BY <1>4

\* Rules and overrides that set numbers leave entities that can be sorted.
LEMMA AssignedSortable ==
    ASSUME NEW e, IsEntity(e), Sortable(e), NEW fields, SetsNumbers(fields)
    PROVE  Sortable(Assigned(e, fields))
<1>. DEFINE New(f, old) == IF f \in DOMAIN fields /\ Takes(e.kind, f, fields[f])
                           THEN fields[f] ELSE old
<1>1. /\ New("site", e.site) \in Nat \cup {None}
      /\ New("department", e.department) \in Nat \cup {None}
  BY DEF SetsNumbers, Sortable
<1>2. Assigned(e, fields) =
        [kind |-> e.kind, id |-> New("id", e.id), value |-> New("value", e.value),
         site |-> New("site", e.site), department |-> New("department", e.department),
         owner |-> New("owner", e.owner), number |-> New("number", e.number),
         refs |-> New("refs", e.refs), level |-> e.level]
  BY AssignedIs
<1>. HIDE DEF New
<1>3. /\ Assigned(e, fields).site = New("site", e.site)
      /\ Assigned(e, fields).department = New("department", e.department)
  BY <1>2
<1>. QED  BY <1>1, <1>3 DEF Sortable

\* The first writer of a field is a rule that fired (evaluate).
LEMMA AssignmentsAreRules ==
    ASSUME NEW rules, rules \in Seq(ToSet(rules)), NEW e,
           NEW f \in DOMAIN Assignments(rules, e)
    PROVE  \E r \in ToSet(rules) : /\ r.kind = e.kind /\ f \in DOMAIN r.then
                                   /\ Assignments(rules, e)[f] = r.then[f]
<1>. DEFINE fired  == Fired(rules, e)
            fields == UNION {DOMAIN rules[i].then : i \in fired}
            some   == {i \in fired : f \in DOMAIN rules[i].then}
<1>1. Assignments(rules, e) =
        [g \in fields |-> rules[Min({i \in fired : g \in DOMAIN rules[i].then})].then[g]]
  BY DEF Assignments
<1>2. /\ fired \subseteq DOMAIN rules /\ DOMAIN rules \subseteq Nat
      /\ \A i \in fired : rules[i].kind = e.kind
  BY DEF Fired, Matches
<1>. HIDE DEF fired
<1>3. f \in fields
  BY <1>1
<1>4. Assignments(rules, e)[f] = rules[Min(some)].then[f]
  BY <1>1, <1>3
<1>5. some # {} /\ some \subseteq Nat
  BY <1>2, <1>3
<1>6. Min(some) \in some
  <2>1. \E m \in some : \A k \in some : m <= k
    <3>. HIDE DEF some
    <3>. QED  BY <1>5, NatMin
  <2>. HIDE DEF some
  <2>. QED  BY <2>1 DEF Min
<1>7. /\ rules[Min(some)] \in ToSet(rules) /\ rules[Min(some)].kind = e.kind
      /\ f \in DOMAIN rules[Min(some)].then
  BY <1>2, <1>6 DEF ToSet
<1>. QED  BY <1>4, <1>7

\* The last value of a field is one of the overrides' (apply_profile).
LEMMA ChosenAreOverrides ==
    ASSUME NEW overrides, overrides \in Seq(ToSet(overrides)), NEW kind, NEW id,
           NEW f \in DOMAIN Chosen(overrides, kind, id)
    PROVE  \E o \in ToSet(overrides) :
              o.id = id /\ o.field = f /\ Chosen(overrides, kind, id)[f] = o.value
<1>. DEFINE mine == {k \in DOMAIN overrides :
                        /\ overrides[k].id = id
                        /\ Takes(kind, overrides[k].field, overrides[k].value)}
            some == {k \in mine : overrides[k].field = f}
<1>1. Chosen(overrides, kind, id) =
        [g \in {overrides[k].field : k \in mine} |->
            overrides[Max({k \in mine : overrides[k].field = g})].value]
  BY DEF Chosen
<1>2. f \in {overrides[k].field : k \in mine}
  BY <1>1
<1>3. Chosen(overrides, kind, id)[f] = overrides[Max(some)].value
  BY <1>1, <1>2
<1>4. some # {} /\ some \subseteq 1..Len(overrides) /\ Len(overrides) \in Nat
  BY <1>2
<1>5. Max(some) \in some
  <2>1. \E m \in some : \A k \in some : k <= m
    <3>. HIDE DEF some
    <3>. QED  BY <1>4, NatMax
  <2>2. \E m \in some : \A k \in some : m >= k
    <3>1. PICK m \in some : \A k \in some : k <= m
      BY <2>1
    <3>2. \A k \in some : m >= k
      <4>. HIDE DEF some
      <4>. QED  BY <1>4, <3>1
    <3>. QED  BY <3>2
  <2>. HIDE DEF some
  <2>. QED  BY <2>2 DEF Max
<1>6. /\ overrides[Max(some)] \in ToSet(overrides)
      /\ overrides[Max(some)].field = f /\ overrides[Max(some)].id = id
  BY <1>5 DEF ToSet
<1>. QED  BY <1>3, <1>6

\* Both set numbers where they set a site or a department.
LEMMA RulesSetNumbers ==
    ASSUME NEW rules, rules \in Seq(ToSet(rules)),
           \A r \in ToSet(rules) : SetsNumbers(r.then), NEW e
    PROVE  SetsNumbers(Assignments(rules, e))
<1>. SUFFICES ASSUME NEW f \in {"site", "department"}, f \in DOMAIN Assignments(rules, e)
              PROVE  Assignments(rules, e)[f] \in Nat
  BY DEF SetsNumbers
<1>1. PICK r \in ToSet(rules) :
          f \in DOMAIN r.then /\ Assignments(rules, e)[f] = r.then[f]
  BY AssignmentsAreRules
<1>2. SetsNumbers(r.then)
  OBVIOUS
<1>. QED  BY <1>1, <1>2 DEF SetsNumbers

LEMMA OverridesSetNumbers ==
    ASSUME NEW overrides, overrides \in Seq(ToSet(overrides)),
           \A o \in ToSet(overrides) :
              o.field \in {"site", "department"} => o.value \in Nat,
           NEW kind, NEW id
    PROVE  SetsNumbers(Chosen(overrides, kind, id))
BY ChosenAreOverrides DEF SetsNumbers

\* What mapping makes of a snapshot can be grouped as the snapshot can.
LEMMA TransformedIsOrdered ==
    ASSUME NEW found \in Snapshots, NEW s \in Scenarios, s.profile # None
    PROVE  IsOrdered(Mapped(Transformed(s.profile, found)))
<1>. DEFINE profile  == s.profile
            ruled    == AfterRules(profile, found)
            numbered == Numbered(profile, ruled)
            ready    == Overridden(profile, found, numbered)
            minted   == NewNumbers(profile, ruled)
            Good(x)  == IsEntity(x) /\ Sortable(x)
<1>1. /\ found \in Seq(ToSet(found))
      /\ \A e \in ToSet(found) : Good(e)
      /\ profile.rules \in Seq(ToSet(profile.rules))
      /\ \A r \in ToSet(profile.rules) : SetsNumbers(r.then)
      /\ profile.overrides \in Seq(ToSet(profile.overrides))
      /\ \A o \in ToSet(profile.overrides) :
            o.field \in {"site", "department"} => o.value \in Nat
  BY PlanningAssumption DEF Sortable
<1>. HIDE DEF profile
<1>2. /\ DOMAIN ruled = DOMAIN found /\ DOMAIN numbered = DOMAIN found
      /\ DOMAIN ready = DOMAIN found
  BY DEF AfterRules, Numbered, Overridden
<1>3. ASSUME NEW i \in DOMAIN found PROVE Good(ruled[i])
  <2>1. Good(found[i])
    BY <1>1 DEF ToSet
  <2>2. ruled[i] = Assigned(found[i], Assignments(profile.rules, found[i]))
    BY DEF AfterRules
  <2>3. SetsNumbers(Assignments(profile.rules, found[i]))
    BY <1>1, RulesSetNumbers
  <2>. QED  BY <2>1, <2>2, <2>3, AssignedKeeps, AssignedSortable
<1>. HIDE DEF ruled
<1>4. ASSUME NEW i \in DOMAIN found PROVE Good(numbered[i])
  <2>1. IsEntity(ruled[i]) /\ Sortable(ruled[i])
    BY <1>3
  <2>2. IsEntity(numbered[i])
    BY <1>2, <2>1, NumberedIs
  <2>3. CASE GetsNumber(profile, ruled[i])
    <3>1. numbered[i] = [ruled[i] EXCEPT !.number =
              <<"E164Number", DerivedKey(Outcome(profile, ruled[i]).e164)>>]
      BY <1>2, <2>3 DEF Numbered
    <3>2. /\ numbered[i].site = ruled[i].site
          /\ numbered[i].department = ruled[i].department
      BY <2>1, <3>1 DEF IsEntity
    <3>. QED  BY <2>1, <2>2, <3>2 DEF Sortable
  <2>4. CASE ~GetsNumber(profile, ruled[i])
    <3>1. numbered[i] = ruled[i]
      BY <1>2, <2>4 DEF Numbered
    <3>. QED  BY <2>1, <3>1
  <2>. QED  BY <2>3, <2>4
<1>. HIDE DEF numbered
<1>5. ASSUME NEW i \in DOMAIN found PROVE Sortable(ready[i])
  <2>1. IsEntity(numbered[i]) /\ Sortable(numbered[i])
    BY <1>4
  <2>. DEFINE fields == Chosen(profile.overrides, numbered[i].kind, found[i].id)
  <2>2. ready[i] = Assigned(numbered[i], fields) \/ ready[i] = numbered[i]
    BY <1>2 DEF Overridden
  <2>3. SetsNumbers(fields)
    BY <1>1, OverridesSetNumbers
  <2>. HIDE DEF fields, ready
  <2>. QED  BY <2>1, <2>2, <2>3, AssignedSortable
<1>. HIDE DEF ready
<1>6. PICK n \in Nat : DOMAIN found = 1..n
  BY <1>1
<1>7. IsFiniteSet(1..n)
  BY FS_Interval
<1>8. IsFiniteSet(ToSet(ready))
  <2>1. [i \in 1..n |-> ready[i]] \in Surjection(1..n, ToSet(ready))
    BY <1>2, <1>6 DEF Surjection, ToSet
  <2>. QED  BY <1>7, <2>1, FS_Surjection
<1>9. IsFiniteSet(ToSet(ruled))
  <2>1. [i \in 1..n |-> ruled[i]] \in Surjection(1..n, ToSet(ruled))
    BY <1>2, <1>6 DEF Surjection, ToSet
  <2>. QED  BY <1>7, <2>1, FS_Surjection
<1>10. IsFiniteSet(minted)
  <2>. DEFINE some == {x \in ToSet(ruled) : GetsNumber(profile, x)}
              mint == [x \in some |-> Minted(x, Outcome(profile, x).e164)]
  <2>1. IsFiniteSet(some)
    BY <1>9, FS_Subset
  <2>2. mint \in Surjection(some, minted)
    BY DEF Surjection, NewNumbers
  <2>. HIDE DEF some, mint, minted
  <2>. QED  BY <2>1, <2>2, FS_Surjection
<1>11. ASSUME NEW x \in minted PROVE x.kind # "User"
  <2>1. PICK e : x = Minted(e, Outcome(profile, e).e164)
    BY DEF NewNumbers
  <2>2. x.kind = "E164Number"
    BY <2>1 DEF Minted, Entity
  <2>. QED  BY <2>2
<1>12. Mapped(Transformed(profile, found)) = ToSet(ready) \cup minted
  BY DEF Mapped, Transformed, ready, numbered, ruled
<1>. HIDE DEF minted
<1>13. IsFiniteSet(ToSet(ready) \cup minted)
  BY <1>8, <1>10, FS_Union
<1>14. ASSUME NEW u \in UsersIn(ToSet(ready) \cup minted) PROVE Sortable(u)
  <2>1. u \in ToSet(ready)
    BY <1>11 DEF UsersIn
  <2>. QED  BY <1>2, <1>5, <2>1 DEF ToSet
<1>. QED  BY <1>12, <1>13, <1>14 DEF IsOrdered, profile

\* The estate that waves are planned from is finite and in order.
LEMMA EffectiveIsOrdered ==
    ASSUME MappingOfItsSnapshot, snapshot # None
    PROVE  IsOrdered(Effective)
<1>1. CASE transform # None
  BY <1>1, TransformedIsOrdered DEF MappingOfItsSnapshot, Effective
<1>2. CASE transform = None
  <2>1. snapshot \in Snapshots /\ Effective = ToSet(snapshot)
    BY <1>2 DEF MappingOfItsSnapshot, Effective
  <2>2. snapshot \in Seq(ToSet(snapshot)) /\ \A e \in ToSet(snapshot) : Sortable(e)
    BY <2>1, PlanningAssumption DEF Sortable
  <2>3. PICK n \in Nat : DOMAIN snapshot = 1..n
    BY <2>2
  <2>4. [i \in 1..n |-> snapshot[i]] \in Surjection(1..n, ToSet(snapshot))
    BY <2>3 DEF Surjection, ToSet
  <2>5. IsFiniteSet(ToSet(snapshot))
    <3>1. IsFiniteSet(1..n)
      BY FS_Interval
    <3>. QED  BY <2>4, <3>1, FS_Surjection
  <2>. QED  BY <2>1, <2>2, <2>5 DEF IsOrdered, UsersIn
<1>. QED  BY <1>1, <1>2

-----------------------------------------------------------------------------
(***************************************************************************)
(* The waves of a session, through planning and moves.                     *)
(***************************************************************************)
\* The waves of a plan are those of the estate they were planned from, with its
\* users and those that were named since, each in one of them.
WavesOfTheirEstate ==
    wave_plan # None =>
        LET waves == wave_plan.waves IN
        /\ wave_plan = [waves |-> waves, clusters |-> wave_plan.clusters,
                        violations |-> wave_plan.violations]
        /\ IsOrdered(waves_of)
        /\ wave_plan.clusters = Merged(FindDependencyClusters(waves_of))
        /\ wave_plan.violations = Violations(waves, wave_plan.clusters)
        /\ NamesDiffer(waves_of) =>
              /\ DOMAIN waves \subseteq Nat \X Nat
              /\ Disjoint(waves)
              /\ Everyone(waves) \subseteq UserKeys(waves_of) \cup Keys
              /\ moves = 0 => /\ wave_plan.violations = {}
                              /\ Everyone(waves) = UserKeys(waves_of)

\* What the stages before left is there, and a plan is of what it was planned
\* from (discover, map and build_plan drop the rest).
Stages ==
    /\ moves \in 0..MaxMoves
    /\ snapshot = None => transform = None /\ wave_plan = None /\ plan_result = None
    /\ plan_result # None =>
          planned_of.planned \cup planned_of.context \subseteq Effective

\* A move keeps the waves, and everyone in one of them (move_user).
LEMMA ShiftedIs ==
    ASSUME NEW waves, Disjoint(waves), NEW user, NEW to
    PROVE  LET shifted == Shifted(waves, user, to)
           IN  /\ DOMAIN shifted = DOMAIN waves
               /\ Disjoint(shifted)
               /\ Everyone(shifted) \subseteq Everyone(waves) \cup {user}
<1>. DEFINE shifted == Shifted(waves, user, to)
<1>1. /\ DOMAIN shifted = DOMAIN waves
      /\ \A w \in DOMAIN waves : shifted[w]
            = (waves[w] \ {user}) \cup (IF w = to THEN {user} ELSE {})
  BY DEF Shifted
<1>. HIDE DEF shifted
<1>2. Disjoint(shifted)
  BY <1>1 DEF Disjoint
<1>3. Everyone(shifted) \subseteq Everyone(waves) \cup {user}
  BY <1>1 DEF Everyone
<1>. QED  BY <1>1, <1>2, <1>3 DEF shifted

\* Planning waves establishes the invariant (plan_waves).
LEMMA PlannedWavesAreOfTheirEstate ==
    ASSUME MappingOfItsSnapshot, NEW strategy, NEW size \in Nat,
           BuildWaves(strategy, size)
    PROVE  WavesOfTheirEstate'
<1>. DEFINE plan == WavePlan(Effective, strategy, size)
<1>1. /\ snapshot # None /\ wave_plan' = plan /\ waves_of' = Effective
  BY DEF BuildWaves
<1>2. IsOrdered(Effective)
  BY <1>1, EffectiveIsOrdered
<1>3. /\ plan.clusters = Merged(FindDependencyClusters(Effective))
      /\ plan.violations = Violations(plan.waves, plan.clusters)
      /\ plan = [waves |-> plan.waves, clusters |-> plan.clusters,
                 violations |-> plan.violations]
  BY DEF WavePlan
<1>4. NamesDiffer(Effective) =>
        /\ DOMAIN plan.waves \subseteq Nat \X Nat
        /\ Disjoint(plan.waves)
        /\ Everyone(plan.waves) = UserKeys(Effective)
        /\ plan.violations = {}
  BY <1>2, WavePlanIs
<1>. HIDE DEF plan
<1>. QED  BY <1>1, <1>2, <1>3, <1>4 DEF WavesOfTheirEstate

\* A move preserves it (move_user).
LEMMA MovedWavesAreOfTheirEstate ==
    ASSUME WavesOfTheirEstate, moves \in Nat,
           NEW user \in Keys, NEW to, Move(user, to)
    PROVE  WavesOfTheirEstate'
<1>. DEFINE waves   == wave_plan.waves
            shifted == Shifted(waves, user, to)
            moved   == Moved(wave_plan, user, to)
<1>1. /\ wave_plan # None /\ wave_plan' = moved /\ moves' = moves + 1
      /\ waves_of' = waves_of
  BY DEF Move
<1>2. /\ wave_plan = [waves |-> waves, clusters |-> wave_plan.clusters,
                      violations |-> wave_plan.violations]
      /\ IsOrdered(waves_of)
      /\ wave_plan.clusters = Merged(FindDependencyClusters(waves_of))
      /\ NamesDiffer(waves_of) =>
            /\ DOMAIN waves \subseteq Nat \X Nat
            /\ Disjoint(waves)
            /\ Everyone(waves) \subseteq UserKeys(waves_of) \cup Keys
  BY <1>1 DEF WavesOfTheirEstate
<1>3. moved = [waves |-> shifted, clusters |-> wave_plan.clusters,
               violations |-> Violations(shifted, wave_plan.clusters)]
  <2>1. moved = [wave_plan EXCEPT !.waves = shifted,
                   !.violations = Violations(shifted, wave_plan.clusters)]
    BY DEF Moved
  <2>. HIDE DEF shifted, moved
  <2>. QED  BY <1>2, <2>1
<1>. HIDE DEF moved, shifted, waves
<1>4. NamesDiffer(waves_of) =>
        /\ DOMAIN shifted \subseteq Nat \X Nat
        /\ Disjoint(shifted)
        /\ Everyone(shifted) \subseteq UserKeys(waves_of) \cup Keys
  <2>. SUFFICES ASSUME NamesDiffer(waves_of)
                PROVE  /\ DOMAIN shifted \subseteq Nat \X Nat
                       /\ Disjoint(shifted)
                       /\ Everyone(shifted) \subseteq UserKeys(waves_of) \cup Keys
    OBVIOUS
  <2>1. /\ DOMAIN shifted = DOMAIN waves
        /\ Disjoint(shifted)
        /\ Everyone(shifted) \subseteq Everyone(waves) \cup {user}
    BY <1>2, ShiftedIs DEF shifted
  <2>. QED  BY <1>2, <2>1
<1>5. moves' # 0
  BY <1>1
<1>. QED  BY <1>1, <1>2, <1>3, <1>4, <1>5 DEF WavesOfTheirEstate

\* Every stage does.
LEMMA StagesHold == Spec => [](Stages /\ WavesOfTheirEstate)
<1>1. Init => Stages /\ WavesOfTheirEstate
  BY PlanningAssumption DEF Init, Stages, WavesOfTheirEstate
<1>2. /\ MappingOfItsSnapshot /\ Stages /\ WavesOfTheirEstate /\ [Next]_vars
      => (Stages /\ WavesOfTheirEstate)'
  <2>. SUFFICES ASSUME MappingOfItsSnapshot, Stages, WavesOfTheirEstate, [Next]_vars
                PROVE  Stages' /\ WavesOfTheirEstate'
    OBVIOUS
  <2>1. ASSUME NEW found \in Snapshots, Discover(found)
        PROVE  Stages' /\ WavesOfTheirEstate'
    BY <2>1, PlanningAssumption DEF Discover, Stages, WavesOfTheirEstate
  <2>2. CASE Map
    <3>1. Stages'
      BY <2>2 DEF Map, Stages
    <3>2. UNCHANGED <<wave_plan, waves_of, moves>>
      BY <2>2 DEF Map
    <3>. QED  BY <3>1, <3>2 DEF WavesOfTheirEstate
  <2>3. ASSUME NEW strategy, NEW size \in 0..2, BuildWaves(strategy, size)
        PROVE  Stages' /\ WavesOfTheirEstate'
    <3>1. Stages'
      BY <2>3, PlanningAssumption DEF BuildWaves, Stages, Effective
    <3>2. WavesOfTheirEstate'
      <4>1. size \in Nat
        OBVIOUS
      <4>. QED  BY <2>3, <4>1, PlannedWavesAreOfTheirEstate
    <3>. QED  BY <3>1, <3>2
  <2>4. ASSUME NEW user \in Keys, NEW to, Move(user, to)
        PROVE  Stages' /\ WavesOfTheirEstate'
    <3>1. moves \in Nat
      BY PlanningAssumption DEF Stages
    <3>2. WavesOfTheirEstate'
      BY <2>4, <3>1, MovedWavesAreOfTheirEstate
    <3>3. Stages'
      <4>1. moves' \in 0..MaxMoves
        BY <2>4, <3>1, PlanningAssumption DEF Move, Stages
      <4>2. snapshot' # None
        BY <2>4 DEF Move, Stages
      <4>3. UNCHANGED <<scenario, snapshot, transform, plan_result, planned_of>>
        BY <2>4 DEF Move
      <4>4. Effective' = Effective
        BY <4>3 DEF Effective, Mapped
      <4>. QED  BY <4>1, <4>2, <4>3, <4>4 DEF Stages
    <3>. QED  BY <3>2, <3>3
  <2>5. CASE BuildPlan
    <3>1. /\ snapshot # None
          /\ planned_of' = Appliable(Inputs(Effective))
          /\ UNCHANGED <<scenario, snapshot, transform, wave_plan, waves_of, moves>>
      BY <2>5 DEF BuildPlan
    <3>2. LET inputs == Inputs(Effective)
          IN  inputs.planned \subseteq Effective /\ inputs.context \subseteq Effective
      BY DEF Inputs, Assignable
    <3>3. planned_of'.planned \cup planned_of'.context \subseteq Effective
      BY <3>1, <3>2 DEF Appliable
    <3>4. Effective' = Effective
      BY <3>1 DEF Effective, Mapped
    <3>5. WavesOfTheirEstate'
      BY <3>1 DEF WavesOfTheirEstate
    <3>. QED  BY <3>1, <3>3, <3>4, <3>5 DEF Stages
  <2>6. CASE UNCHANGED vars
    <3>1. UNCHANGED <<scenario, snapshot, transform, wave_plan, plan_result, waves_of,
                      moves, planned_of>>
      BY <2>6 DEF vars
    <3>2. Effective' = Effective
      BY <3>1 DEF Effective, Mapped
    <3>. QED  BY <3>1, <3>2 DEF Stages, WavesOfTheirEstate
  <2>. QED  BY <2>1, <2>2, <2>3, <2>4, <2>5, <2>6 DEF Next
<1>. QED  BY <1>1, <1>2, MappingOfItsSnapshotHolds, PTL DEF Spec

\* Users of the estate the waves are of have names of their own.
UsersAreNamed == wave_plan # None => NamesDiffer(waves_of)

\* Waves shown as valid split no group of the estate they were planned from,
\* whoever was moved since; nobody is in two waves; and what the planner made,
\* nobody having been moved, is valid and has everyone, as long as users have
\* names of their own (merge_clusters, plan_waves, _repair, move_user).
THEOREM WavesTheorem == Spec => [](UsersAreNamed => WavesKeepGroupsTogether)
<1>1. WavesOfTheirEstate => (UsersAreNamed => WavesKeepGroupsTogether)
  <2>. DEFINE waves == wave_plan.waves
  <2>. SUFFICES ASSUME WavesOfTheirEstate, UsersAreNamed, wave_plan # None
                PROVE  /\ wave_plan.violations = {} =>
                            \A e \in waves_of : \A u, v \in ClusterKeys(waves_of, e) :
                               \A w \in DOMAIN waves : u \in waves[w] <=> v \in waves[w]
                       /\ \A v, w \in DOMAIN waves : v # w => waves[v] \cap waves[w] = {}
                       /\ moves = 0 =>
                            /\ wave_plan.violations = {}
                            /\ UserKeys(waves_of) = UNION {waves[w] : w \in DOMAIN waves}
    BY DEF WavesKeepGroupsTogether
  <2>1. /\ IsOrdered(waves_of)
        /\ wave_plan.violations
              = Violations(waves, Merged(FindDependencyClusters(waves_of)))
        /\ DOMAIN waves \subseteq Nat \X Nat
        /\ Disjoint(waves)
        /\ moves = 0 => /\ wave_plan.violations = {}
                        /\ Everyone(waves) = UserKeys(waves_of)
    BY DEF WavesOfTheirEstate, UsersAreNamed
  <2>. HIDE DEF waves
  <2>2. ASSUME wave_plan.violations = {}, NEW e \in waves_of,
               NEW u \in ClusterKeys(waves_of, e), NEW v \in ClusterKeys(waves_of, e),
               NEW w \in DOMAIN waves
        PROVE  u \in waves[w] <=> v \in waves[w]
    <3>1. Violations(waves, Merged(FindDependencyClusters(waves_of))) = {}
      BY <2>1, <2>2
    <3>. QED  BY <2>1, <3>1, ValidMeansTogether
  <2>3. \A v, w \in DOMAIN waves : v # w => waves[v] \cap waves[w] = {}
    BY <2>1 DEF Disjoint
  <2>4. moves = 0 => UserKeys(waves_of) = UNION {waves[w] : w \in DOMAIN waves}
    BY <2>1 DEF Everyone
  <2>. QED  BY <2>1, <2>2, <2>3, <2>4
<1>. QED  BY <1>1, StagesHold, PTL

-----------------------------------------------------------------------------
(***************************************************************************)
(* Estates whose entities have ids and whose users have names of their own.*)
(***************************************************************************)

\* Discovery found no id twice, no two users of one name, and no id that
\* mapping mints; the target calls a number by its digits.
KeyedSnapshots ==
    /\ \A found \in Snapshots : \A i, j \in DOMAIN found :
          /\ found[i].id = found[j].id => i = j
          /\ found[i].kind = "User" /\ found[j].kind = "User"
               /\ found[i].value = found[j].value => i = j
          /\ \A n : found[i].id # <<"E164Number", DerivedKey(n)>>
    /\ \A x, y : x.kind = "E164Number" /\ y.kind = "E164Number" /\ x.value = y.value
                   => KeyFor(x) = KeyFor(y)

\* No rule and no override sets canonical_id, or the name of a user.
ProfilesKeepNames ==
    \A s \in Scenarios : s.profile # None =>
        /\ \A r \in ToSet(s.profile.rules) :
              /\ "id" \notin DOMAIN r.then
              /\ r.kind = "User" => "value" \notin DOMAIN r.then
        /\ \A o \in ToSet(s.profile.overrides) :
              /\ o.field # "id"
              /\ \A found \in Snapshots : \A i \in DOMAIN found :
                    found[i].id = o.id /\ found[i].kind = "User" => o.field # "value"

\* A minted number has the id its digits give.
LEMMA MintedIs ==
    ASSUME NEW profile, NEW entities, NEW x \in NewNumbers(profile, entities)
    PROVE  x.kind = "E164Number" /\ x.id = <<"E164Number", DerivedKey(x.value)>>
<1>1. PICK e : x = Minted(e, Outcome(profile, e).e164)
  BY DEF NewNumbers
<1>. QED  BY <1>1 DEF Minted, Entity

\* Such a profile keeps ids and users' names where it found them.
LEMMA RuledKeepsNames ==
    ASSUME ProfilesKeepNames, NEW found \in Snapshots, NEW s \in Scenarios,
           s.profile # None, NEW i \in DOMAIN found
    PROVE  LET a == AfterRules(s.profile, found)[i]
           IN  /\ a.kind = found[i].kind /\ a.id = found[i].id
               /\ a.kind = "User" => a.value = found[i].value
<1>. DEFINE rules  == s.profile.rules
            fields == Assignments(rules, found[i])
<1>1. IsEntity(found[i]) /\ rules \in Seq(ToSet(rules))
  BY PlanningAssumption DEF ToSet
<1>2. \A r \in ToSet(rules) : /\ "id" \notin DOMAIN r.then
                              /\ r.kind = "User" => "value" \notin DOMAIN r.then
  BY DEF ProfilesKeepNames
<1>3. "id" \notin DOMAIN fields /\ (found[i].kind = "User" => "value" \notin DOMAIN fields)
  <2>. HIDE DEF rules
  <2>. QED  BY <1>1, <1>2, AssignmentsAreRules
<1>4. AfterRules(s.profile, found)[i] = Assigned(found[i], fields)
  BY DEF AfterRules
<1>. HIDE DEF fields
<1>. QED  BY <1>1, <1>3, <1>4, AssignedKeeps

LEMMA TransformedKeepsNames ==
    ASSUME ProfilesKeepNames, NEW found \in Snapshots, NEW s \in Scenarios,
           s.profile # None, NEW i \in DOMAIN found
    PROVE  LET a == Transformed(s.profile, found).entities[i]
           IN  /\ a.kind = found[i].kind /\ a.id = found[i].id
               /\ a.kind = "User" => a.value = found[i].value
<1>1. \A o \in ToSet(s.profile.overrides) : o.id = found[i].id =>
          o.field # "id" /\ (found[i].kind = "User" => o.field # "value")
  BY DEF ProfilesKeepNames
<1>2. \A e \in ToSet(found) : IsEntity(e)
  BY PlanningAssumption
<1>. DEFINE a     == Transformed(s.profile, found).entities[i]
            ruled == AfterRules(s.profile, found)[i]
<1>3. /\ a.kind = found[i].kind /\ a.id = ruled.id
      /\ found[i].kind = "User" => a.value = ruled.value
  BY <1>1, <1>2, TransformedIs
<1>4. /\ ruled.kind = found[i].kind /\ ruled.id = found[i].id
      /\ ruled.kind = "User" => ruled.value = found[i].value
  BY RuledKeepsNames
<1>. HIDE DEF a, ruled
<1>5. /\ a.kind = found[i].kind /\ a.id = found[i].id
      /\ a.kind = "User" => a.value = found[i].value
  BY <1>3, <1>4
<1>. QED  BY <1>5 DEF a

\* Mapping keeps names and ids apart.
LEMMA MappedIsKeyed ==
    ASSUME KeyedSnapshots, ProfilesKeepNames, NEW found \in Snapshots,
           NEW s \in Scenarios, s.profile # None
    PROVE  LET mapped == Mapped(Transformed(s.profile, found))
           IN  OneName(mapped) /\ NamesDiffer(mapped)
<1>. DEFINE profile == s.profile
            t       == Transformed(profile, found)
            read    == ToSet(t.entities)
            minted  == t.new_numbers
<1>2. ASSUME NEW x \in read
      PROVE  \E i \in DOMAIN found :
                /\ x = t.entities[i] /\ x.kind = found[i].kind
                /\ x.id = found[i].id
                /\ x.kind = "User" => x.value = found[i].value
  <2>1. PICK i \in DOMAIN t.entities : x = t.entities[i]
    BY DEF ToSet
  <2>2. i \in DOMAIN found
    <3>1. DOMAIN t.entities = DOMAIN found
      BY DEF Transformed, AfterRules, Numbered, Overridden
    <3>. QED  BY <2>1, <3>1
  <2>. QED  BY <2>1, <2>2, TransformedKeepsNames
<1>3. \A x \in minted : /\ x.kind = "E164Number"
                         /\ x.id = <<"E164Number", DerivedKey(x.value)>>
  <2>1. minted = NewNumbers(profile, AfterRules(profile, found))
    BY DEF Transformed
  <2>. HIDE DEF minted
  <2>. QED  BY <2>1, MintedIs
<1>4. Mapped(t) = read \cup minted
  BY DEF Mapped
<1>. HIDE DEF t, read, minted
<1>5. ASSUME NEW x \in read, NEW y \in read,
             x.id = y.id \/ (x.kind = "User" /\ y.kind = "User" /\ x.value = y.value)
      PROVE  x = y
  BY <1>2, <1>5 DEF KeyedSnapshots
<1>6. ASSUME NEW x \in minted, NEW y \in minted, x.id = y.id
      PROVE  x.kind = y.kind /\ KeyFor(x) = KeyFor(y)
  <2>1. x.value = y.value
    BY <1>3, <1>6, OneNumberOneKey
  <2>. QED  BY <1>3, <2>1 DEF KeyedSnapshots
<1>7. ASSUME NEW x \in read, NEW y \in minted PROVE x.id # y.id
  <2>1. x.id # <<"E164Number", DerivedKey(y.value)>>
    BY <1>2 DEF KeyedSnapshots
  <2>. QED  BY <1>3, <2>1
<1>8. OneName(read \cup minted)
  BY <1>5, <1>6, <1>7 DEF OneName
<1>9. NamesDiffer(read \cup minted)
  BY <1>3, <1>5 DEF NamesDiffer, UsersIn
<1>. QED  BY <1>4, <1>8, <1>9 DEF t

\* The estate that waves and plans are made of keeps them apart, mapped or not.
LEMMA EffectiveIsKeyed ==
    ASSUME KeyedSnapshots, ProfilesKeepNames, MappingOfItsSnapshot, snapshot # None
    PROVE  OneName(Effective) /\ NamesDiffer(Effective)
<1>1. CASE transform # None
  BY <1>1, MappedIsKeyed DEF MappingOfItsSnapshot, Effective
<1>2. CASE transform = None
  <2>1. snapshot \in Snapshots /\ Effective = ToSet(snapshot)
    BY <1>2 DEF MappingOfItsSnapshot, Effective
  <2>2. \A x \in ToSet(snapshot) : \E i \in DOMAIN snapshot : x = snapshot[i]
    BY DEF ToSet
  <2>3. ASSUME NEW x \in ToSet(snapshot), NEW y \in ToSet(snapshot),
               x.id = y.id \/ (x.kind = "User" /\ y.kind = "User" /\ x.value = y.value)
        PROVE  x = y
    BY <2>1, <2>2, <2>3 DEF KeyedSnapshots
  <2>4. OneName(ToSet(snapshot))
    BY <2>3 DEF OneName
  <2>5. NamesDiffer(ToSet(snapshot))
    BY <2>3 DEF NamesDiffer, UsersIn
  <2>. QED  BY <2>1, <2>4, <2>5
<1>. QED  BY <1>1, <1>2

\* What the theorems above ask of the session's data holds on such estates, when
\* the profiles applied between discovery and planning set no canonical_id and no
\* user's name (IdsAreForever: they may): users of waves have names of their own,
\* an id names one entity, and entities of a plan that share an id share kind and
\* key (apply_profile, _assign, _mint_number).
THEOREM NamesTheorem ==
    KeyedSnapshots /\ ProfilesKeepNames
        => (Spec => [](UsersAreNamed /\ IdsAreNames /\ IdsNameOneEntity))
<1>. SUFFICES ASSUME KeyedSnapshots, ProfilesKeepNames
              PROVE  Spec => [](UsersAreNamed /\ IdsAreNames /\ IdsNameOneEntity)
  OBVIOUS
<1>1. Init => UsersAreNamed
  BY DEF Init, UsersAreNamed
<1>2. MappingOfItsSnapshot /\ UsersAreNamed /\ [Next]_vars => UsersAreNamed'
  <2>. SUFFICES ASSUME MappingOfItsSnapshot, UsersAreNamed, [Next]_vars
                PROVE  UsersAreNamed'
    OBVIOUS
  <2>1. ASSUME NEW found \in Snapshots, Discover(found) PROVE UsersAreNamed'
    BY <2>1 DEF Discover, UsersAreNamed
  <2>2. CASE Map
    BY <2>2 DEF Map, UsersAreNamed
  <2>3. ASSUME NEW strategy, NEW size, BuildWaves(strategy, size)
        PROVE  UsersAreNamed'
    <3>1. snapshot # None /\ waves_of' = Effective
      BY <2>3 DEF BuildWaves
    <3>. QED  BY <3>1, EffectiveIsKeyed DEF UsersAreNamed
  <2>4. ASSUME NEW user, NEW to, Move(user, to) PROVE UsersAreNamed'
    BY <2>4 DEF Move, UsersAreNamed
  <2>5. CASE BuildPlan
    BY <2>5 DEF BuildPlan, UsersAreNamed
  <2>6. CASE UNCHANGED vars
    BY <2>6 DEF vars, UsersAreNamed
  <2>. QED  BY <2>1, <2>2, <2>3, <2>4, <2>5, <2>6 DEF Next
<1>3. MappingOfItsSnapshot /\ Stages => IdsAreNames
  <2>1. ASSUME MappingOfItsSnapshot, Stages, plan_result # None PROVE IdsAreNames
    <3>1. /\ snapshot # None
          /\ planned_of.planned \cup planned_of.context \subseteq Effective
      BY <2>1 DEF Stages
    <3>2. OneName(Effective)
      BY <2>1, <3>1, EffectiveIsKeyed
    <3>. QED  BY <3>1, <3>2 DEF OneName, IdsAreNames
  <2>. QED  BY <2>1 DEF IdsAreNames
<1>4. MappingOfItsSnapshot => IdsNameOneEntity
  <2>. DEFINE ruled == AfterRules(scenario.profile, snapshot)
  <2>. SUFFICES ASSUME MappingOfItsSnapshot, transform # None,
                       NEW x \in ToSet(ruled), NEW y \in ToSet(ruled), x.id = y.id
                PROVE  x = y
    BY DEF IdsNameOneEntity
  <2>1. snapshot \in Snapshots /\ scenario \in Scenarios /\ scenario.profile # None
    BY DEF MappingOfItsSnapshot
  <2>2. DOMAIN ruled = DOMAIN snapshot
    BY DEF AfterRules
  <2>3. PICK i, j : /\ i \in DOMAIN snapshot /\ j \in DOMAIN snapshot
                    /\ x = ruled[i] /\ y = ruled[j]
    BY <2>2 DEF ToSet
  <2>4. x.id = snapshot[i].id /\ y.id = snapshot[j].id
    BY <2>1, <2>3, RuledKeepsNames
  <2>5. i = j
    BY <2>1, <2>3, <2>4 DEF KeyedSnapshots
  <2>. QED  BY <2>3, <2>5
<1>. QED  BY <1>1, <1>2, <1>3, <1>4, MappingOfItsSnapshotHolds, StagesHold, PTL
          DEF Spec

\* What the stages leave in the session (discover, map, plan_waves, build_plan:
\* what is dropped when).
THEOREM PlanningTypes ==
    KeyedSnapshots /\ ProfilesKeepNames => (Spec => []TypeOK)
<1>1. MappingOfItsSnapshot /\ Stages /\ WavesOfTheirEstate
        => (UsersAreNamed => TypeOK)
  <2>. SUFFICES ASSUME MappingOfItsSnapshot, Stages, WavesOfTheirEstate, UsersAreNamed
                PROVE  TypeOK
    OBVIOUS
  <2>1. scenario \in Scenarios /\ snapshot \in Snapshots \cup {None}
    BY DEF MappingOfItsSnapshot
  <2>2. ASSUME transform # None
        PROVE  /\ DOMAIN transform.entities = DOMAIN snapshot
               /\ \A i \in DOMAIN snapshot :
                     transform.entities[i].kind = snapshot[i].kind
    <3>1. snapshot \in Snapshots /\ transform = Transformed(scenario.profile, snapshot)
      BY <2>2 DEF MappingOfItsSnapshot
    <3>2. \A e \in ToSet(snapshot) : IsEntity(e)
      BY <3>1, PlanningAssumption
    <3>3. DOMAIN transform.entities = DOMAIN snapshot
      BY <3>1 DEF Transformed, AfterRules, Numbered, Overridden
    <3>. QED  BY <3>1, <3>2, <3>3, TransformedIs
  <2>3. ASSUME wave_plan # None
        PROVE  /\ \A w \in DOMAIN wave_plan.waves :
                      /\ w \in Nat \X Nat
                      /\ wave_plan.waves[w] \subseteq UserKeys(waves_of) \cup Keys
               /\ wave_plan.violations
                      \subseteq {wave_plan.clusters[i].id : i \in DOMAIN wave_plan.clusters}
    <3>1. /\ DOMAIN wave_plan.waves \subseteq Nat \X Nat
          /\ Everyone(wave_plan.waves) \subseteq UserKeys(waves_of) \cup Keys
          /\ wave_plan.violations = Violations(wave_plan.waves, wave_plan.clusters)
      BY <2>3 DEF WavesOfTheirEstate, UsersAreNamed
    <3>2. \A w \in DOMAIN wave_plan.waves :
              wave_plan.waves[w] \subseteq UserKeys(waves_of) \cup Keys
      BY <3>1 DEF Everyone
    <3>3. wave_plan.violations
             \subseteq {wave_plan.clusters[i].id : i \in DOMAIN wave_plan.clusters}
      BY <3>1 DEF Violations
    <3>. QED  BY <3>1, <3>2, <3>3
  <2>. QED  BY <2>1, <2>2, <2>3 DEF Stages, TypeOK
<1>. QED  BY <1>1, MappingOfItsSnapshotHolds, StagesHold, NamesTheorem, PTL
=============================================================================
