---------------------------- MODULE Repatriation ----------------------------
(***************************************************************************)
(* Going back: users leave a Microsoft 365 tenant for an on-premises       *)
(* platform (repatriation/).  The port orders move, the Teams connector    *)
(* goes on applying plans of either direction to the tenant, and a reclaim *)
(* plan is built from what the tenant looks like and from the users the    *)
(* caller names as migrated.  Nothing in the code ties the three together: *)
(* any order of the calls is legal.                                        *)
(***************************************************************************)
EXTENDS TeamsWrites, Porting

VARIABLE migrated       \* users the caller reports as migrated

vars == <<teamsVars, portingVars, migrated>>
-----------------------------------------------------------------------------
Init == TeamsInit /\ PortingInit /\ migrated = {}

\* The caller counts one more user as confirmed migrated.
ConfirmMigrated(u) ==
    /\ migrated' = migrated \cup {u} /\ u \notin migrated
    /\ UNCHANGED <<teamsVars, portingVars>>

\* build_reclaim_plan, then reclaim_plan_to_apply_plan, as the plan to apply.
Reclaim ==
    /\ migrated # {}
    /\ SetPlan(ReclaimPlan(migrated))
    /\ UNCHANGED <<portingVars, migrated>>

Next ==
    \/ TeamsNext /\ UNCHANGED <<portingVars, migrated>>
    \/ PortingNext /\ UNCHANGED <<teamsVars, migrated>>
    \/ \E u \in User : ConfirmMigrated(u)
    \/ Reclaim

Spec == Init /\ [][Next]_vars
-----------------------------------------------------------------------------
TypeOK == TeamsTypeOK /\ PortingTypeOK /\ migrated \subseteq User

\* "Release ... once the port has completed. Releasing before the port
\* completes loses the number."  Not kept: build_reclaim_plan knows no orders.
ReleasedAfterPort ==
    \A i \in DOMAIN plan : plan[i].verb = "UNASSIGN" =>
        \A o \in PortOrder :
            plan[i].object \in NumbersOf[o] \cup NumberRefsOf[o]
                => orders[o].state = "COMPLETED"
=============================================================================
