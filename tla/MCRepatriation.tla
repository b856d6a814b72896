--------------------------- MODULE MCRepatriation ---------------------------
EXTENDS Repatriation

CONSTANTS u1, u2, n1, n2, o1

Assign(u) == [kind |-> "E164Number", verb |-> "ASSIGN", principal |-> u,
              object |-> n1, needs |-> {}]
Seat(u) == [kind |-> "LicenseAssignment", verb |-> "ASSIGN", principal |-> u,
            object |-> "phone-sku", needs |-> {}]
Policy == [kind |-> "VoiceRoutingPolicy", verb |-> "CREATE",
           principal |-> Nobody, object |-> "policy", needs |-> {}]

\* As the planner orders kinds: numbers, licences, policies.  u2 is on the
\* second page of the tenant's users.
MCPlan == {<<Assign(u1), Seat(u1), Policy>>, <<Assign(u2), Seat(u2)>>}

\* The order refers to a number it does not list.
MCNumbersOf == [o \in PortOrder |-> {n1}]
MCNumberRefsOf == [o \in PortOrder |-> {n1, n2}]
=============================================================================
