----------------------------- MODULE MCPlanning -----------------------------
EXTENDS Planning

E164 == {"+1", "+2", "+3"}
MCIsE164(v) == v \in E164
MCProbed == {"4000"}

\* natural_key_for of the Teams and the reference connector
MCKeyFor(e) ==
    IF e.kind \in {"User", "E164Number", "EmergencyLocation"} THEN e.value
    ELSE IF e.kind = "Line" THEN <<e.site, e.value>> ELSE None

UserId(u) == <<"User", u>>
Person(u, site, department) ==
    [Entity("User", u, u, site) EXCEPT !.department = department]
LineOf(l, u) == [Entity("Line", l, l, 1) EXCEPT !.owner = UserId(u)]
Group(kind, n, refs) == [Entity(kind, n, n, None) EXCEPT !.refs = refs]
Extension(x, partition, site, u) ==
    [Entity("Extension", <<x, partition>>, x, site) EXCEPT
        !.owner = IF u = None THEN None ELSE UserId(u)]
NumberRead(n, u, location) ==
    [Entity("E164Number", <<"read", n>>, n, 1) EXCEPT
        !.owner = IF u = None THEN None ELSE UserId(u), !.refs = location]

\* Four users at four sites in a chain of groups: a queue, a delegation and a
\* shared line.  The earliest wave by site is that of the last user.
Chain ==
    << [Person(1, 2, 1) EXCEPT !.number = <<"E164Number", <<"read", "+1">>>>],
       Person(2, 3, 1), Person(3, 4, 2),
       [Person(4, 1, 2) EXCEPT !.number = <<"E164Number", <<"read", "+2">>>>],
       NumberRead("+1", 1, {}), NumberRead("+2", 4, {}),
       LineOf(1, 3), LineOf(2, 4),
       Group("CallQueue", 1, {UserId(1), UserId(2)}),
       Group("Delegation", 1, {UserId(2), UserId(3)}),
       Group("SharedLineAppearance", 1, {<<"Line", 1>>, <<"Line", 2>>}),
       Group("LineGroup", 1, {<<"Line", 2>>}),
       Group("HuntGroup", 1, {<<"LineGroup", 1>>}) >>

\* Extensions: one the discovery left without a site, one two rules may claim,
\* one in two partitions, one stripping leaves nothing of.
Dialling ==
    << Person(1, 1, None), Person(2, None, None),
       Extension("4000", 1, None, 1), Extension("4001", 1, 2, 2),
       Extension("4002", 1, 1, 1), Extension("4002", 2, 1, 2),
       Extension("9", 1, 1, None) >>

\* A reference estate: users and numbers name one another, numbers and
\* locations too, a line no target can take, and a user who is not there.
Campus ==
    << [Person(1, 1, 1) EXCEPT !.number = <<"E164Number", <<"read", "+1">>>>,
                               !.refs = {<<"Line", 1>>}],
       NumberRead("+1", 1, {<<"EmergencyLocation", 1>>}),
       NumberRead("+2", 9, {}),
       [Entity("EmergencyLocation", 1, 1, 1) EXCEPT
            !.refs = {<<"E164Number", <<"read", "+1">>>>}],
       [LineOf(1, 1) EXCEPT !.level = "UNMAPPABLE"],
       LineOf(2, 1) >>

\* The extension in two partitions alone: a mapping of it may be clean.
Partitions ==
    << Person(1, 1, 1), Person(2, 1, 2),
       Extension("4002", 1, 1, 1), Extension("4002", 2, 1, 2) >>

\* An extension without a rule whose number was read, next to one with a rule.
ReadAndDerived ==
    << Person(1, 1, 1), Extension("4002", 1, 1, 1),
       [Extension("4005", 1, 1, 1) EXCEPT !.number = <<"E164Number", <<"read", "+2">>>>],
       NumberRead("+2", 1, {}) >>

MCSnapshots == {Chain, Dialling, Campus, Partitions, ReadAndDerived}

Sites(site, gives) == [site |-> site, gives |-> gives]
NumberPlanA == {Sites(1, ("4000" :> "+1") @@ ("4001" :> "+2") @@ ("9" :> None)),
                Sites(2, ("4000" :> "+2") @@ ("4001" :> "+2"))}
NumberPlanB == NumberPlanA \cup {Sites(2, ("4001" :> "+3")), Sites(1, ("4002" :> "+1"))}

\* CUCM derives the site from the partition: a rule's work.
ToSite(site) == [kind |-> "Extension", site |-> None, values |-> {"4000"},
                 then |-> ("site" :> site), stop |-> FALSE]
Policy == [kind |-> "Extension", site |-> 1, values |-> {"4002"},
           then |-> ("policy" :> "intern") @@ ("site" :> 2), stop |-> TRUE]
Derived(n) == <<"E164Number", DerivedKey(n)>>
Renumber == [kind |-> "Extension", site |-> None, values |-> {"4001", "9"},
             then |-> ("value" :> "4000") @@ ("site" :> 1), stop |-> FALSE]
OverrideOf(id, field, value) == [id |-> id, field |-> field, value |-> value]

\* An override's value is a reference, a site or what an object is called: the
\* overrides of a profile here are of one of these.
MCProfiles ==
    {[rules |-> <<>>, plan |-> {Sites(1, ("4002" :> "+1"))}, overrides |-> <<>>],
     [rules |-> <<ToSite(2), ToSite(1)>>, plan |-> NumberPlanA, overrides |-> <<>>],
     [rules |-> <<ToSite(1)>>, plan |-> NumberPlanB,
      overrides |-> <<OverrideOf(<<"Extension", <<"4000", 1>>>>, "owner", UserId(2)),
                      OverrideOf(<<"E164Number", DerivedKey("+1")>>, "owner", UserId(2)),
                      OverrideOf(<<"Line", 2>>, "owner", UserId(1)),
                      OverrideOf(<<"Line", 2>>, "id", <<"Line", 8>>),
                      OverrideOf(<<"Extension", <<"4000", 1>>>>, "number", Derived("+3"))>>],
     [rules |-> <<Policy, ToSite(2)>>, plan |-> NumberPlanB,
      overrides |-> <<OverrideOf(<<"User", 1>>, "site", 4),
                      OverrideOf(<<"User", 2>>, "owner", 4),
                      OverrideOf(<<"User", 4>>, "value", 7),
                      OverrideOf(<<"User", 3>>, "department", 1)>>],
     \* a mapping that is clean on ReadAndDerived and gives one number twice
     [rules |-> <<>>, plan |-> {Sites(1, ("4002" :> "+1"))},
      overrides |-> <<OverrideOf(<<"Extension", <<"4005", 1>>>>, "number", Derived("+1"))>>],
     \* rules and overrides of what objects are called
     [rules |-> <<Renumber>>, plan |-> NumberPlanB,
      overrides |-> <<OverrideOf(<<"Extension", <<"4002", 2>>>>, "value", "4001"),
                      OverrideOf(<<"Extension", <<"4002", 1>>>>, "value", "+1"),
                      OverrideOf(<<"E164Number", <<"read", "+2">>>>, "value", "+3")>>],
     [rules |-> <<Renumber>>, plan |-> NumberPlanB,
      overrides |-> <<OverrideOf(<<"Delegation", 1>>, "refs", {UserId(3), UserId(1)})>>]}

\* Those of the first two groups, one of each of the others, one no plan has.
MCWaveIds == ({0, 1} \X {0, 1}) \cup {<<2, 0>>, <<4, 0>>, <<9, 9>>}

Teams == {"E164Number", "LicenseAssignment", "VoiceRoutingPolicy"}
Reference == {"EmergencyLocation", "E164Number", "User", "Line"}
MCScenarios ==
    [profile : MCProfiles, numbers_only : {TRUE}, appliable : {Teams}]
    \cup {[profile |-> None, numbers_only |-> FALSE, appliable |-> Reference],
          [profile |-> None, numbers_only |-> FALSE, appliable |-> Teams]}
=============================================================================
