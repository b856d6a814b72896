---------------------------- MODULE MCRoundTrip ----------------------------
EXTENDS RoundTrip

CONSTANTS s1, s2, n1, n2, n3, u1, u2, l1, l2, x1, w1, w2, c1

MCIsE164(v) == v \in {n1, n2, n3}
MCProbed == {}

Site(s, says, elin) ==
    [kind |-> "EmergencyLocation", key |-> s, site |-> s, says |-> says,
     owner |-> None, number |-> elin]
Sound   == [name |-> w1, dispatchable |-> TRUE, validated |-> TRUE,
            on |-> <<"d1", Midnight>>, dynamic |-> TRUE]
Partial == [Sound EXCEPT !.dispatchable = FALSE, !.validated = FALSE, !.on = None]
Unusual == [Sound EXCEPT !.name = None, !.on = <<"d1", "09:30">>]
Number(n, s, elin, user) ==
    [kind |-> "E164Number", key |-> n, site |-> s, says |-> [elin |-> elin],
     owner |-> user, number |-> None]
Person(first, last) == [first |-> first, last |-> last, voice |-> TRUE, cor |-> c1]
Named(u, s, did, says) ==
    [kind |-> "User", key |-> u, site |-> s, says |-> says,
     owner |-> None, number |-> did]
Subscriber(u, s, did) == Named(u, s, did, Person(w1, w2))
SharedLine(l, s, user, did, others) ==
    [kind |-> "Line", key |-> l, site |-> s,
     says |-> [extension |-> x1, shared |-> others],
     owner |-> user, number |-> did]
LineOf(l, s, user, did) == SharedLine(l, s, user, did, {})

\* A site with an ELIN, a number with its user, a line: everything refers to
\* everything.
Whole == {Site(s1, Sound, n2), Number(n1, s1, FALSE, u1), Number(n2, s1, TRUE, None),
          Subscriber(u1, s1, n1), LineOf(l1, s1, u1, n1)}
\* Without the line, after an edit: the ELIN is withdrawn for one nobody recorded.
Edited == {Site(s1, Sound, n3), Number(n1, s1, FALSE, u1), Subscriber(u1, s1, n1)}
\* Names that lead nowhere: a number of a site and of a user who are not there.
Dangling == {Number(n1, s2, FALSE, u2), Subscriber(u1, None, n1)}
\* Two lines on one extension of a site that is no address to dispatch to.
Doubled == {Site(s1, Partial, None), LineOf(l1, s1, None, None),
            LineOf(l2, s1, u1, None), Subscriber(u1, s1, None)}
\* An assigned ELIN without a site.
Adrift == {Number(n2, None, TRUE, u1), Subscriber(u1, None, None)}
\* A line that appears at two users, one of them without a last name: null.
Shared == {Subscriber(u1, s1, None), Named(u2, s1, None, Person(w2, None)),
           SharedLine(l1, s1, u1, None, {u2})}
\* What is not read back as it was: a site without a name that was validated at
\* an hour, and a user without the field of the first name.
Bare == {Site(s1, Unusual, None), Named(u1, s1, None, Person(ABSENT, w2))}

MCSources == {Whole, Edited, Dangling, Doubled, Adrift, Shared, Bare}
\* A withdrawn ELIN, a second line on an extension, a shared line.
MCEditedTo == {Edited, Doubled, Shared}
\* The target knows the user already, and nothing else of him.
MCTargets == {{Subscriber(u1, None, None)}}
=============================================================================
