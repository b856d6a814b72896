------------------------------- MODULE Waves -------------------------------
(***************************************************************************)
(* Wave planning (waves/planner.py): which users must move together, the   *)
(* grouping into waves, the repair of split clusters and the move of one   *)
(* user.                                                                   *)
(*                                                                         *)
(* Users, sites and departments are the numbers of their names' sort       *)
(* order.  A wave is named by its group and its place in the group, and    *)
(* the waves of a plan are a function from their names to their users.     *)
(***************************************************************************)
EXTENDS Mapping

UsersIn(entities) == {e \in entities : e.kind = "User"}
UserKeys(entities) == {u.value : u \in UsersIn(entities)}

UserKey(entities, id) ==
    {u.value : u \in {x \in UsersIn(entities) : x.id = id}}

OwnerOfLine(entities, id) ==
    UNION {UserKey(entities, l.owner) :
        l \in {x \in entities : x.kind = "Line" /\ x.id = id}}

\* The users a group holds together.  A HuntGroup names line groups, no lines,
\* so nobody is found through it.
ClusterKeys(entities, e) ==
    LET users == UNION {UserKey(entities, r) : r \in e.refs}
        lines == UNION {OwnerOfLine(entities, r) : r \in e.refs}
    IN  CASE e.kind = "SharedLineAppearance" -> users \cup lines
          [] e.kind \in {"LineGroup", "HuntGroup"} -> lines
          [] e.kind \in {"CallQueue", "Delegation"} -> users
          [] OTHER -> {}

\* find_dependency_clusters(), in some order: it decides only under which id
\* clusters are merged.
FindDependencyClusters(entities) ==
    SetToSeq({[id |-> e.id, users |-> ClusterKeys(entities, e)] : e \in
        {x \in entities : \E u, v \in ClusterKeys(entities, x) : u # v}})

Overlapping(users, clusters) ==
    {i \in DOMAIN clusters : clusters[i].users \cap users # {}}
Joined(users, clusters) ==
    users \cup UNION {clusters[i].users : i \in Overlapping(users, clusters)}

\* mutant: the clusters are gone through once
GrownOnce(users, clusters) == Joined(users, clusters)

\* One cluster with what it overlaps, until nothing more does.
Grown(users, clusters) ==
    LET more[n \in Nat] == IF n = 0 THEN users ELSE Joined(more[n - 1], clusters)
    IN  more[Len(clusters)]

\* merge_clusters(): under the id of the first, which keeps its place.
Firsts(clusters) ==
    {i \in DOMAIN clusters : \A j \in 1..i - 1 :
        ~(clusters[i].users \subseteq Grown(clusters[j].users, clusters))}
Merged(clusters) ==
    [i \in Firsts(clusters) |-> [id |-> clusters[i].id,
                                 users |-> Grown(clusters[i].users, clusters)]]
-----------------------------------------------------------------------------
GroupingKey(u, strategy) ==
    CASE strategy = "SITE" -> IF u.site = None THEN 0 ELSE u.site
      [] strategy = "DEPARTMENT" -> IF u.department = None THEN 0 ELSE u.department
      [] OTHER -> 0

\* The users of a group in the order of their names, at most "size" to a wave;
\* 0: no limit.
WaveOf(u, entities, strategy, size) ==
    LET group  == GroupingKey(u, strategy)
        before == {x.value : x \in {y \in UsersIn(entities) :
                     GroupingKey(y, strategy) = group /\ y.value < u.value}}
    IN  <<group, IF size = 0 THEN 0 ELSE Cardinality(before) \div size>>

Grouped(entities, strategy, size) ==
    [w \in {WaveOf(u, entities, strategy, size) : u \in UsersIn(entities)} |->
        {u.value : u \in {x \in UsersIn(entities) :
                            WaveOf(x, entities, strategy, size) = w}}]

Sooner(v, w) == v[1] < w[1] \/ (v[1] = w[1] /\ v[2] < w[2])

\* _repair(): a split cluster goes to the earliest wave that holds one of it,
\* whatever the limit; emptied waves are dropped.
Homes(waves, users) == {w \in DOMAIN waves : waves[w] \cap users # {}}
PulledTogether(waves, users) ==
    LET homes    == Homes(waves, users)
        earliest == CHOOSE w \in homes : \A v \in homes : ~Sooner(v, w)
        here     == users \cap UNION {waves[w] : w \in homes}
    IN  IF \A v, w \in homes : v = w THEN waves
        ELSE [w \in DOMAIN waves |->
                IF w = earliest THEN waves[w] \cup here ELSE waves[w] \ here]

Repaired(waves, clusters, last) ==
    LET after[n \in Nat] ==
            IF n = 0 THEN waves
            ELSE IF n \in DOMAIN clusters
                 THEN PulledTogether(after[n - 1], clusters[n].users)
            ELSE after[n - 1]
    IN  [w \in {v \in DOMAIN waves : after[last][v] # {}} |-> after[last][w]]

\* wave_of of validate_waves(): the last wave that has the user; None for
\* "<unassigned>".
Placement(waves, user) ==
    LET homes == Homes(waves, {user})
    IN  IF homes = {} THEN None
        ELSE CHOOSE w \in homes : \A v \in homes : ~Sooner(w, v)

\* validate_waves(): the clusters that are split.
Violations(waves, clusters) ==
    {clusters[i].id : i \in {k \in DOMAIN clusters :
        \E u, v \in clusters[k].users : Placement(waves, u) # Placement(waves, v)}}

\* plan_waves()
WavePlan(entities, strategy, size) ==
    LET found    == FindDependencyClusters(entities)
        clusters == Merged(found)
        waves    == Repaired(Grouped(entities, strategy, size), clusters, Len(found))
    IN  [waves |-> waves, clusters |-> clusters,
         violations |-> Violations(waves, clusters)]

\* move_user(): a wave nobody knows takes the user out of the plan, and a user
\* nobody knows comes in.
Shifted(waves, user, to) ==
    [w \in DOMAIN waves |->
        (waves[w] \ {user}) \cup (IF w = to THEN {user} ELSE {})]

\* mutant: the move keeps the verdict on the old waves
MovedUnvalidated(plan, user, to) ==
    [plan EXCEPT !.waves = Shifted(plan.waves, user, to)]

Moved(plan, user, to) ==
    LET waves == Shifted(plan.waves, user, to)
    IN  [plan EXCEPT !.waves = waves, !.violations = Violations(waves, plan.clusters)]
=============================================================================
