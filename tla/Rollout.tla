------------------------------ MODULE Rollout ------------------------------
(***************************************************************************)
(* What one apply call promises, with no platform, retries, polling or     *)
(* records in it: operations are brought about in an order that respects   *)
(* their dependencies, those that are not are known, and the verdict says  *)
(* whether there are any.  Execution.tla implements it.                    *)
(***************************************************************************)
EXTENDS FiniteSets

CONSTANTS Op, DependsOn

VARIABLES
    phase,    \* is a call in progress?
    done,     \* operations brought about, or taken as done when resuming
    failed,   \* operations given up
    verdict   \* of the latest call

vars == <<phase, done, failed, verdict>>

Init == phase = "idle" /\ done = {} /\ failed = {} /\ verdict = "none"

\* A call starts, taking what an earlier attempt completed as done.
Start ==
    /\ phase = "idle"
    /\ phase' = "running"
    /\ done' \in SUBSET Op
    /\ failed' = {} /\ verdict' = "none"

\* One operation is brought about: everything it depends on is done.
Complete(o) ==
    /\ phase = "running" /\ o \notin done \cup failed
    /\ DependsOn[o] \subseteq done
    /\ done' = done \cup {o}
    /\ UNCHANGED <<phase, failed, verdict>>

\* One operation is given up, on its own account or because of a dependency.
GiveUp(o) ==
    /\ phase = "running" /\ o \notin done \cup failed
    /\ DependsOn[o] \subseteq done \/ DependsOn[o] \cap failed # {}
    /\ failed' = failed \cup {o}
    /\ UNCHANGED <<phase, done, verdict>>

\* The call returns once nothing is left, and owns up to what it gave up.
Conclude ==
    /\ phase = "running" /\ done \cup failed = Op
    /\ phase' = "idle"
    /\ verdict' = IF failed = {} THEN "complete" ELSE "partial"
    /\ UNCHANGED <<done, failed>>

\* The call is refused or cut short, or the record of it is lost.
Abandon ==
    /\ phase' = "idle" /\ verdict' = "none"
    /\ UNCHANGED <<done, failed>>

Next == Start \/ Conclude \/ Abandon \/ \E o \in Op : Complete(o) \/ GiveUp(o)

Spec == Init /\ [][Next]_vars
=============================================================================
