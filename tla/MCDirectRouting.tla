-------------------------- MODULE MCDirectRouting --------------------------
(***************************************************************************)
(* Two policies, two usages, two routes, two gateways; each may be missing *)
(* from the snapshot, and names may coincide.                              *)
(***************************************************************************)
EXTENDS DirectRouting

MCNumbers == {<<4>>, <<4, 9>>, <<4, 9, 1>>, <<4, 9, 1, 1>>, <<3, 9>>}

MCPatterns == {Pattern(<<4, 9>>, "", TRUE), Pattern(<<4, 9>>, "", FALSE),
               Pattern(<<4, 9>>, "d", TRUE), Pattern(<<4>>, "d+", TRUE),
               Pattern(<<4, 9>>, "d*", FALSE), Pattern(<<4, 9>>, "*", FALSE),
               Pattern(<<4, 9, 1>>, "+", TRUE), AnyNumber, Expression}

\* Who may use what: both the same, each another, in either order, a usage
\* nobody has.
MCPolicies ==
    {<<[name |-> "P1", usages |-> a], [name |-> "P2", usages |-> b]>> :
        a \in {<<"national">>, <<"national", "world">>, <<"world", "national">>},
        b \in {<<>>, <<"world">>, <<"gone">>}}

MCRoutes ==
    {[r1 |-> [name |-> "R1", pattern |-> p, gateways |-> <<"g1", "g2">>],
      r2 |-> [name |-> n, pattern |-> q, gateways |-> <<"g2">>]] :
        p \in MCPatterns, q \in MCPatterns, n \in {"R1", "R2"}}

MCConfigurations ==
    {[policies |-> p,
      usages |-> [national |-> <<"r1">>, world |-> w], routes |-> r, gateways |-> g] :
        p \in MCPolicies, w \in {<<"r2">>, <<"r2", "r1">>, <<"lost">>}, r \in MCRoutes,
        g \in {[g1 |-> "G1", g2 |-> "G2"], [g1 |-> "G1"],
               [g1 |-> "G", g2 |-> "G"]}}
=============================================================================
