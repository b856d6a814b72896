------------------------------ MODULE Mapping ------------------------------
(***************************************************************************)
(* The mapping engine: rules, number normalisation and human overrides     *)
(* turn a discovered snapshot into the one planning works from             *)
(* (mapping/rules.py, mapping/normalisation.py, mapping/profile.py).       *)
(*                                                                         *)
(* An entity is what mapping, wave planning and plan building tell apart.  *)
(* "value" is what identifies it to people: a user's name, the digits of   *)
(* an extension, an E.164 number.  "owner" is owner_ref or assigned_to_ref,*)
(* "number" e164_ref or primary_number_ref, "refs" what the other reference*)
(* fields name together.                                                   *)
(***************************************************************************)
EXTENDS Naturals, Sequences, FiniteSets, SequencesExt

CONSTANTS None,       \* Python's None
          IsE164(_),  \* whether a value has the form of an E.164 number
          Probed      \* the digit strings _find_common_match tries

Entity(kind, key, value, site) ==
    [kind |-> kind, id |-> <<kind, key>>, value |-> value, site |-> site,
     department |-> None, owner |-> None, number |-> None, refs |-> {},
     level |-> "LOSSLESS"]

IsEntity(e) ==
    e = [kind |-> e.kind, id |-> e.id, value |-> e.value, site |-> e.site,
         department |-> e.department, owner |-> e.owner, number |-> e.number,
         refs |-> e.refs, level |-> e.level]

References(e) == e.refs \cup ({e.owner, e.number} \ {None})

IdsIn(entities) == {e.id : e \in ToSet(entities)}

\* {e.canonical_id: e for e in entities}: the last one of an id.
LastOf(entities, id) ==
    Max({i \in DOMAIN entities : entities[i].id = id})
-----------------------------------------------------------------------------
(***************************************************************************)
(* Rules: [kind, site or None, values, then, stop], in their order.  "then"*)
(* maps fields to values, already rendered.                                *)
(***************************************************************************)

\* _match_context()
Matches(rule, e) ==
    /\ rule.kind = e.kind
    /\ rule.site \in {None, e.site}
    /\ e.value \in rule.values

\* The rules evaluate() gets to before one that matches says stop.
Fired(rules, e) ==
    {i \in DOMAIN rules :
        /\ Matches(rules[i], e)
        /\ \A j \in 1..i - 1 : ~(rules[j].stop /\ Matches(rules[j], e))}

\* evaluate(): all outcomes are computed before any is applied; the first
\* writer of a field wins.
Assignments(rules, e) ==
    LET fired  == Fired(rules, e)
        fields == UNION {DOMAIN rules[i].then : i \in fired}
    IN  [f \in fields |->
            rules[Min({i \in fired : f \in DOMAIN rules[i].then})].then[f]]

\* model_fields, of those an entity has here.
HasField(kind, field) ==
    \/ field \in {"id", "value"}
    \/ field = "site" /\ kind \in {"User", "Extension", "Line", "E164Number",
                                  "EmergencyLocation", "HuntGroup", "CallQueue"}
    \/ field = "department" /\ kind = "User"
    \/ field = "owner" /\ kind \in {"Extension", "Line", "E164Number"}
    \/ field = "number" /\ kind \in {"Extension", "Line", "User", "HuntGroup", "CallQueue"}
    \/ field = "refs" /\ kind # "LineGroup"

\* ... and whether the field's validator takes the value: a number is E.164, and
\* the digits of an extension are not.
Takes(kind, field, value) ==
    /\ HasField(kind, field)
    /\ field = "value" /\ kind = "E164Number" => IsE164(value)
    /\ field = "value" /\ kind = "Extension" => ~IsE164(value)

\* _assign(): any field, one after the other; nothing where the kind does not
\* have it or its validator refuses.  "refs" stands for one reference field: its
\* value here is what all of them name once it is set.
Assigned(e, fields) ==
    LET New(f, old) == IF f \in DOMAIN fields /\ Takes(e.kind, f, fields[f])
                       THEN fields[f] ELSE old
    IN  [e EXCEPT !.id = New("id", @), !.value = New("value", @),
                  !.site = New("site", @), !.department = New("department", @),
                  !.owner = New("owner", @), !.number = New("number", @),
                  !.refs = New("refs", @)]

Unassignable(e, fields) == {f \in DOMAIN fields : ~Takes(e.kind, f, fields[f])}
-----------------------------------------------------------------------------
(***************************************************************************)
(* The number plan: site rules [site, gives], where "gives" maps the       *)
(* extensions the pattern accepts to the number they become, or to None    *)
(* when stripping leaves no digit or the result is no E.164 number.        *)
(***************************************************************************)
Candidates(plan, digits, site) ==
    {r \in plan : site # None /\ r.site = site /\ digits \in DOMAIN r.gives}

Normalised(outcome, number) == [outcome |-> outcome, e164 |-> number]

\* mutant: the first of several rules decides
NormaliseByFirstRule(plan, digits, site) ==
    LET rules == Candidates(plan, digits, site)
        rule  == CHOOSE r \in rules : TRUE
    IN  CASE IsE164(digits) -> Normalised("ALREADY_E164", digits)
          [] ~IsE164(digits) /\ rules = {} -> Normalised("NO_RULE", None)
          [] OTHER -> IF rule.gives[digits] = None
                      THEN Normalised("INVALID_RESULT", None)
                      ELSE Normalised("NORMALISED", rule.gives[digits])

\* NumberPlan.normalise()
Normalise(plan, digits, site) ==
    LET rules == Candidates(plan, digits, site)
        rule  == CHOOSE r \in rules : TRUE
    IN  CASE IsE164(digits) -> Normalised("ALREADY_E164", digits)
          [] ~IsE164(digits) /\ rules = {} -> Normalised("NO_RULE", None)
          [] ~IsE164(digits) /\ Cardinality(rules) > 1 ->
                Normalised("AMBIGUOUS", None)
          [] OTHER -> IF rule.gives[digits] = None
                      THEN Normalised("INVALID_RESULT", None)
                      ELSE Normalised("NORMALISED", rule.gives[digits])

\* detect_overlaps(): by probing, so some overlaps are not found.
Overlaps(plan) ==
    {d \in Probed : \E r, s \in plan :
        r # s /\ r.site = s.site /\ d \in DOMAIN r.gives \cap DOMAIN s.gives}

\* detect_collisions(): of the pairs of digits and site.
Collisions(plan, pairs) ==
    LET Becomes(p) == Normalise(plan, p[1], p[2]).e164
    IN  {Becomes(p) : p \in {q \in pairs :
            Becomes(q) # None /\ \E r \in pairs : r # q /\ Becomes(r) = Becomes(q)}}

\* _mint_number(): one id per number and profile, never read from the source.
DerivedKey(number) == <<"derived", number>>
Minted(extension, number) ==
    [Entity("E164Number", DerivedKey(number), number, extension.site)
        EXCEPT !.owner = extension.owner, !.refs = {extension.id},
               !.level = "DEGRADED"]
-----------------------------------------------------------------------------
(***************************************************************************)
(* apply_profile().  A profile: [rules, plan, overrides], an override      *)
(* [id, field, value].                                                     *)
(***************************************************************************)

\* 1. The rules, every entity on its own.  (An issue is told apart here by the id
\* the object was read under.)
AfterRules(profile, entities) ==
    [i \in DOMAIN entities |->
        Assigned(entities[i], Assignments(profile.rules, entities[i]))]

RuleIssues(profile, entities) ==
    UNION {{<<e.id, "UNKNOWN_ATTRIBUTE">> :
                f \in Unassignable(e, Assignments(profile.rules, e))}
           : e \in ToSet(entities)}

\* 2. The extensions without a number, with the sites the rules gave them.
IsUnnumbered(e) == e.kind = "Extension" /\ e.number = None
Outcome(profile, e) == Normalise(profile.plan, e.value, e.site)
GetsNumber(profile, e) ==
    IsUnnumbered(e) /\ Outcome(profile, e).outcome = "NORMALISED"

Numbered(profile, entities) ==
    [i \in DOMAIN entities |->
        IF GetsNumber(profile, entities[i])
        THEN [entities[i] EXCEPT !.number =
                <<"E164Number", DerivedKey(Outcome(profile, entities[i]).e164)>>]
        ELSE entities[i]]

NewNumbers(profile, entities) ==
    {Minted(e, Outcome(profile, e).e164) :
        e \in {x \in ToSet(entities) : GetsNumber(profile, x)}}

NumberIssues(profile, entities) ==
    {<<e.id, Outcome(profile, e).outcome>> : e \in {x \in ToSet(entities) :
        /\ IsUnnumbered(x)
        /\ Outcome(profile, x).outcome \notin {"NORMALISED", "ALREADY_E164"}}}

ExtensionPairs(entities) ==
    {<<e.value, e.site>> : e \in {x \in ToSet(entities) : x.kind = "Extension"}}

\* 3. The overrides, in their order: the last value a field takes stands.  They
\* find an entity by the id it was read under, and no minted number.
Chosen(overrides, kind, id) ==
    LET mine == {k \in DOMAIN overrides :
                    /\ overrides[k].id = id
                    /\ Takes(kind, overrides[k].field, overrides[k].value)}
    IN  [f \in {overrides[k].field : k \in mine} |->
            overrides[Max({k \in mine : overrides[k].field = f})].value]

Overridden(profile, read, entities) ==
    [i \in DOMAIN entities |->
        IF i = LastOf(read, read[i].id)
        THEN Assigned(entities[i],
                      Chosen(profile.overrides, entities[i].kind, read[i].id))
        ELSE entities[i]]

OverrideIssue(read, o) ==
    IF o.id \notin IdsIn(read) THEN {<<o.id, "ORPHAN_OVERRIDE">>}
    ELSE IF Takes(read[LastOf(read, o.id)].kind, o.field, o.value) THEN {}
    ELSE {<<o.id, "UNKNOWN_ATTRIBUTE">>}

\* mutant: collisions are looked for in the snapshot as it was discovered
TransformedTooEarly(profile, entities) ==
    LET ruled == AfterRules(profile, entities)
    IN  [entities |-> Overridden(profile, entities, Numbered(profile, ruled)),
         new_numbers |-> NewNumbers(profile, ruled),
         issues |-> RuleIssues(profile, entities) \cup NumberIssues(profile, ruled)
            \cup UNION {OverrideIssue(entities, o) : o \in ToSet(profile.overrides)},
         overlaps |-> Overlaps(profile.plan),
         collisions |-> Collisions(profile.plan, ExtensionPairs(entities))]

Transformed(profile, entities) ==
    LET ruled == AfterRules(profile, entities)
    IN  [entities |-> Overridden(profile, entities, Numbered(profile, ruled)),
         new_numbers |-> NewNumbers(profile, ruled),
         issues |-> RuleIssues(profile, entities) \cup NumberIssues(profile, ruled)
            \cup UNION {OverrideIssue(entities, o) : o \in ToSet(profile.overrides)},
         overlaps |-> Overlaps(profile.plan),
         collisions |-> Collisions(profile.plan, ExtensionPairs(ruled))]

\* TransformResult.is_clean
IsClean(t) == t.issues = {} /\ t.overlaps = {} /\ t.collisions = {}
=============================================================================
