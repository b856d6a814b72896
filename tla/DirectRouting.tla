--------------------------- MODULE DirectRouting ---------------------------
(***************************************************************************)
(* Repatriating the dial plan (repatriation/direct_routing.py): the voice  *)
(* routing of a Teams tenant, policies with ordered usages, usages with    *)
(* ordered routes, routes with ordered gateways, becomes calling           *)
(* permissions, route patterns, route lists, route groups and SIP trunks.  *)
(*                                                                         *)
(* A number is the sequence of its digits, the plus sign left out.  A      *)
(* number pattern of Teams is the digits it begins with, the "tail" behind *)
(* them and whether it ends with "$".  The tail is nothing, one digit "d", *)
(* digits "d*" or "d+", or a bare "*" or "+", which says how often the     *)
(* last of the digits stands there.                                        *)
(* What is called a name here is what _slug() leaves of one, so that two   *)
(* names may be one.                                                       *)
(*                                                                         *)
(* How Teams and CUCM choose among matching patterns is external, known    *)
(* from the module's docstring: the first match in the order of usages     *)
(* and routes there, the longest match here.                               *)
(***************************************************************************)
EXTENDS Naturals, Sequences, FiniteSets, SequencesExt

CONSTANTS None,
          Numbers,        \* the numbers people dial
          Configurations  \* what was extracted from the tenant

VARIABLES configuration, result
routingVars == <<configuration, result>>

Digit == 0..9
Tails == {"", "d", "d*", "d+", "*", "+"}
Pattern(digits, tail, ended) ==
    [form |-> "PREFIX", digits |-> digits, tail |-> tail, ended |-> ended]
AnyNumber  == [form |-> "ANY"]      \* .*
Expression == [form |-> "OTHER"]    \* alternation, lookaround, bounded repetition
NumberPattern ==
    [form : {"PREFIX"}, digits : Seq(Digit) \ {<<>>}, tail : Tails, ended : BOOLEAN]
    \cup {AnyNumber, Expression}

\* What the canonical model lets a configuration be: usages, routes and gateways
\* are found by name, what refers to them is a list of names, known or not.
IsList(s) == s \in Seq(ToSet(s))
WellFormed(c) ==
    /\ IsList(c.policies)
    /\ \A p \in DOMAIN c.policies : IsList(c.policies[p].usages)
    /\ \A u \in DOMAIN c.usages : IsList(c.usages[u])
    /\ \A r \in DOMAIN c.routes : c.routes[r].pattern \in NumberPattern

ASSUME RoutingAssumption ==
    /\ Numbers \subseteq Seq(Digit)
    /\ \A c \in Configurations : WellFormed(c)
-----------------------------------------------------------------------------
(***************************************************************************)
(* The transformation.                                                     *)
(***************************************************************************)

\* mutant: the wildcard is lost
TranslateExactly(pattern) ==
    CASE pattern.form = "PREFIX" -> [digits |-> pattern.digits, open |-> FALSE]
      [] pattern.form = "ANY"    -> [digits |-> <<>>, open |-> TRUE]
      [] OTHER -> None

\* translate_number_pattern(): any tail becomes "!", whatever its quantifier
\* and whether the pattern ends.
Translate(pattern) ==
    CASE pattern.form = "PREFIX" -> [digits |-> pattern.digits,
                                     open |-> pattern.tail # ""]
      [] pattern.form = "ANY"    -> [digits |-> <<>>, open |-> TRUE]
      [] OTHER -> None

\* The places a configuration is walked through, policy by policy, usage by
\* usage and route by route; a usage that is not in the snapshot is skipped.
RoutesOf(c, p, u) == c.usages[c.policies[p].usages[u]]
Walk(c, p) ==
    UNION {{<<p, u, k>> : k \in DOMAIN RoutesOf(c, p, u)} :
               u \in {i \in DOMAIN c.policies[p].usages :
                          c.policies[p].usages[i] \in DOMAIN c.usages}}
RouteAt(c, v) == RoutesOf(c, v[1], v[2])[v[3]]
Places(c) == UNION {Walk(c, p) : p \in DOMAIN c.policies}

\* Those whose route is in the snapshot.
Visits(c) == {v \in Places(c) : RouteAt(c, v) \in DOMAIN c.routes}

Earlier(v, w) ==
    \/ v[1] < w[1]
    \/ v[1] = w[1] /\ v[2] < w[2]
    \/ v[1] = w[1] /\ v[2] = w[2] /\ v[3] < w[3]

\* The usages and routes that are warned about.
Missing(c) ==
    (UNION {ToSet(c.policies[p].usages) : p \in DOMAIN c.policies} \ DOMAIN c.usages)
    \cup ({RouteAt(c, v) : v \in Places(c)} \ DOMAIN c.routes)

\* The gateways of a route that are in the snapshot, each at its rank.
Known(c, r) ==
    {i \in DOMAIN c.routes[r].gateways : c.routes[r].gateways[i] \in DOMAIN c.gateways}

\* A route group with its one trunk, for each gateway.
TrunkOf(c) == [name \in {c.gateways[g] : g \in DOMAIN c.gateways} |->
                  {g \in DOMAIN c.gateways : c.gateways[g] = name}]
GroupsOf(c, r) == [i \in Known(c, r) |-> c.gateways[c.routes[r].gateways[i]]]

RouteList(c, r) == [name |-> c.routes[r].name, groups |-> GroupsOf(c, r)]
RoutePattern(c, r) ==
    [pattern |-> Translate(c.routes[r].pattern), list |-> c.routes[r].name]

\* transform_direct_routing_to_on_prem(): one partition holds every pattern and
\* every policy's permission covers it.  Lists and patterns are known by the
\* place they were made at; a name that occurs twice is the canonical id of two
\* entities.
Transformed(c) ==
    LET translated == {v \in Visits(c) :
                          Translate(c.routes[RouteAt(c, v)].pattern) # None}
    IN  [permissions |-> {c.policies[p].name : p \in DOMAIN c.policies},
         trunks |-> TrunkOf(c),
         lists |-> [v \in translated |-> RouteList(c, RouteAt(c, v))],
         patterns |-> [v \in translated |-> RoutePattern(c, RouteAt(c, v))],
         untranslatable |-> {c.routes[RouteAt(c, v)].pattern :
                                v \in Visits(c) \ translated},
         warnings |-> Missing(c) \cup {r \in {RouteAt(c, v) : v \in translated} :
                                          Known(c, r) = {}}]

\* is_clean, and no warning either.
NothingReported(res) == res.untranslatable = {} /\ res.warnings = {}

RoutingInit == configuration \in Configurations /\ result = None

Repatriate ==
    /\ result' = Transformed(configuration)
    /\ UNCHANGED configuration

RoutingNext == Repatriate
RoutingSpec == RoutingInit /\ [][RoutingNext]_routingVars
-----------------------------------------------------------------------------
(***************************************************************************)
(* Where a call goes.                                                      *)
(***************************************************************************)

\* Whether a regular expression of Teams finds the number: what may follow the
\* digits, when so many do.
TailMatches(pattern, more) ==
    \/ pattern.tail = "" /\ (pattern.ended => more = 0)
    \/ pattern.tail = "d" /\ (more = 1 \/ (more > 1 /\ ~pattern.ended))
    \/ pattern.tail = "d+" /\ more > 0
    \/ pattern.tail = "d*"

\* From the place of the last digit on there is nothing else.
OnlyRepeats(digits, number) ==
    \A i \in Len(digits)..Len(number) : number[i] = Last(digits)
RepeatMatches(pattern, number) ==
    /\ \/ pattern.tail = "+" /\ IsPrefix(pattern.digits, number)
       \/ pattern.tail = "*" /\ IsPrefix(Front(pattern.digits), number)
    /\ pattern.ended => OnlyRepeats(pattern.digits, number)
RegexMatches(pattern, number) ==
    \/ pattern.form = "ANY"
    \/ /\ pattern.form = "PREFIX"
       /\ \/ /\ IsPrefix(pattern.digits, number)
             /\ TailMatches(pattern, Len(number) - Len(pattern.digits))
          \/ RepeatMatches(pattern, number)

\* The route the users of a policy are given for a number: the first that
\* matches.
TeamsMatching(c, p, number) ==
    {v \in Walk(c, p) :
        /\ RouteAt(c, v) \in DOMAIN c.routes
        /\ RegexMatches(c.routes[RouteAt(c, v)].pattern, number)}
TeamsRoute(c, p, number) ==
    LET matching == TeamsMatching(c, p, number)
    IN  IF matching = {} THEN None
        ELSE RouteAt(c, CHOOSE v \in matching :
                            \A w \in matching : w = v \/ Earlier(v, w))

\* The route pattern CUCM picks: the longest, and of entities of one id the last.
PatternMatches(pattern, number) ==
    IF pattern.open THEN IsStrictPrefix(pattern.digits, number)
    ELSE number = pattern.digits
CucmMatching(res, number) ==
    {v \in DOMAIN res.patterns : PatternMatches(res.patterns[v].pattern, number)}
CucmPattern(res, number) ==
    LET matching  == CucmMatching(res, number)
        Length(v) == Len(res.patterns[v].pattern.digits)
    IN  CHOOSE v \in matching : \A w \in matching :
            \/ Length(w) < Length(v)
            \/ Length(w) = Length(v) /\ (w = v \/ Earlier(w, v))

\* The gateways it tries, by rank: those of the last list of that name.
ListNamed(res, name) ==
    LET lists == {v \in DOMAIN res.lists : res.lists[v].name = name}
    IN  CHOOSE v \in lists : \A w \in lists : w = v \/ Earlier(w, v)
CucmGateways(res, number) ==
    IF CucmMatching(res, number) = {} THEN <<>>
    ELSE LET v == CucmPattern(res, number)
         IN  res.lists[ListNamed(res, res.patterns[v].list)].groups
Leaves(by) == DOMAIN by # {}
-----------------------------------------------------------------------------
\* Different routes and different gateways keep different names.
NamesDiffer(c) ==
    /\ \A r, s \in DOMAIN c.routes : c.routes[r].name = c.routes[s].name => r = s
    /\ \A g, h \in DOMAIN c.gateways : c.gateways[g] = c.gateways[h] => g = h

\* A number that is the digits of its pattern, when they have no tail, or begins
\* with them and goes on, when they have one.
Within(pattern, number) ==
    IF pattern.form = "ANY" THEN number # <<>>
    ELSE IF pattern.tail = "" THEN number = pattern.digits
    ELSE IsStrictPrefix(pattern.digits, number)

\* The gateways, in their order, of a route for numbers that begin so.
MeantFor(c, number, by) ==
    \E v \in Visits(c) :
        LET r == RouteAt(c, v)
        IN  /\ by = GroupsOf(c, r)
            /\ c.routes[r].pattern.form = "PREFIX" =>
                  IsPrefix(c.routes[r].pattern.digits, number)

\* When the transformation reports nothing, a call Teams would have sent out
\* still leaves, if its number is the digits of the pattern Teams found or, where
\* they have a tail, begins with them and goes on: CUCM finds a pattern and a
\* gateway for it (PrefixesStayOpen and RepeatedDigitsLeave tell of the others).
\* And reported or not, a call leaves by the gateways, in their order, of a route
\* for numbers that begin as this one does (translate_number_pattern, transform_
\* direct_routing_to_on_prem: routes that share a pattern, gateways that are
\* missing, a usage in several policies).
CallsStillLeave ==
    result # None /\ NamesDiffer(configuration) =>
        \A number \in Numbers, p \in DOMAIN configuration.policies :
            LET c     == configuration
                route == TeamsRoute(c, p, number)
                by    == CucmGateways(result, number)
            IN  /\ NothingReported(result) /\ route # None
                      /\ Within(c.routes[route].pattern, number)
                   => Leaves(by)
                /\ Leaves(by) => MeantFor(c, number, by)
-----------------------------------------------------------------------------
(***************************************************************************)
(* Not kept.                                                               *)
(***************************************************************************)

\* A VoiceRoutingPolicy is a "per-user outbound calling entitlement", and what
\* does not correspond "is declared rather than glossed": with one partition for
\* all, who could not call a number can.
EntitlementsAreKept ==
    result # None /\ NothingReported(result) =>
        \A number \in Numbers, p \in DOMAIN configuration.policies :
            Leaves(CucmGateways(result, number)) =>
                TeamsRoute(configuration, p, number) # None

\* "A regex that cannot be translated with certainty is reported
\* untranslatable": digits without a tail and without "$" match every number
\* that begins with them, and become a pattern for the one number.
PrefixesStayOpen ==
    result # None /\ NothingReported(result) /\ NamesDiffer(configuration) =>
        \A number \in Numbers, p \in DOMAIN configuration.policies :
            LET route == TeamsRoute(configuration, p, number)
            IN  /\ route # None
                /\ configuration.routes[route].pattern.form = "PREFIX"
                /\ configuration.routes[route].pattern.tail = ""
                => Leaves(CucmGateways(result, number))

\* The same of a quantifier right behind the digits: "^\+12*" also matches the
\* numbers that begin with 1 and go on without a 2, and becomes "\+12!".
RepeatedDigitsLeave ==
    result # None /\ NothingReported(result) /\ NamesDiffer(configuration) =>
        \A number \in Numbers, p \in DOMAIN configuration.policies :
            LET route == TeamsRoute(configuration, p, number)
            IN  /\ route # None
                /\ configuration.routes[route].pattern.form = "PREFIX"
                /\ configuration.routes[route].pattern.tail = "*"
                => Leaves(CucmGateways(result, number))

\* Names that differ only in punctuation, or behind the fortieth character, are
\* one after _slug().
CallsStillLeaveWhateverTheNames ==
    result # None =>
        \A number \in Numbers :
            LET by == CucmGateways(result, number)
            IN  Leaves(by) => MeantFor(configuration, number, by)
=============================================================================
