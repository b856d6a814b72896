--------------------------- MODULE ChangeControl ---------------------------
(***************************************************************************)
(* Who may change a target platform, and when: the execute, rollback,      *)
(* dry-run, plan and connection-test routes, the authorization they build, *)
(* the gate of Connector.apply and the roles of TenantContext, on a clock. *)
(*                                                                         *)
(* A workspace has one session per estate, each with its own target, plan, *)
(* receipt and lock, and one run store for all of them: a rollback takes   *)
(* any run of the store, whichever estate it ran on.                       *)
(*                                                                         *)
(* A plan is the set of its operations, which is also its digest.  What a  *)
(* handler read before it waited for the session's lock (plan, receipt,    *)
(* rollback bundle) and the authorization it built then stay in its        *)
(* request.  Retries, faults and checkpoints within a run are              *)
(* Execution.tla's, the stages around it Workspace.tla's.                  *)
(***************************************************************************)
EXTENDS Connections, Sequences

CONSTANTS
    Client,      \* callers of the API, each with one request at a time
    Estate,      \* estates of the workspace
    RolesOf,     \* RolesOf[c]: the roles c's headers claim
    Principal,   \* names an approval can carry
    Op,          \* operations that plans are made of
    Desc,        \* Desc[o]: the kind, verb, site, fidelity and depends_on of o
    PlanChoice,  \* plans the planner may build: sets of operations
    Site,        \* sites
    Window,      \* change windows, pairs of instants
    Target,      \* target connectors
    Targets,     \* what the scenarios may give: a target for every estate
    Profiles,    \* connection profiles of the registry
    Processes,   \* how the process may be started: mode and opt-in
    Env,         \* what the credential providers can reach
    MaxTime,     \* bound: the last instant
    MaxCalls,    \* bound: calls of the API
    MaxRuns      \* bound: runs among them

ASSUME ChangeControlAssumption ==
    /\ PlanChoice \subseteq SUBSET Op
    /\ RolesOf \in [Client -> SUBSET {"VIEWER", "PLANNER", "APPROVER", "OPERATOR", "ADMIN"}]
    /\ Window \subseteq Nat \X Nat
    /\ MaxTime \in Nat /\ MaxCalls \in Nat /\ MaxRuns \in Nat
    /\ None \notin Site /\ None \notin Window /\ None \notin PlanChoice
    /\ None \notin Client
    /\ Targets \subseteq [Estate -> Target]
    /\ Processes \subseteq [live : BOOLEAN, header_auth : BOOLEAN]
    /\ \A o \in Op : Desc[o].site \in Site \cup {None}
    /\ \A p \in Profiles : ValidProfile(p)

VARIABLES
    process,   \* live: LIVE mode; header_auth: header identity opted in to
    target,    \* each session's target connector
    clock,     \* now
    plan, receipt,   \* of each session: a plan, and the digest a dry run covered
    request,   \* what each client's handler remembers
    holder,    \* the request in each session's lock
    bundles,   \* rollback bundles in the run store, and the estate they are of
    calls,     \* calls so far, to bound them
    runs,      \* runs among them
    \* observers, read by no guard:
    previewed, \* digests dry-run, and on which estate
    written,   \* operations runs have written: where, by what authority, when
    undone,    \* operations rollbacks have undone: whose run's, and where
    opened     \* the last connection test and what came of it

vars == <<process, target, clock, plan, receipt, request, holder, bundles,
          calls, runs, previewed, written, undone, opened>>

-----------------------------------------------------------------------------
(***************************************************************************)
(* Roles.                                                                  *)
(***************************************************************************)

Role == {"VIEWER", "PLANNER", "APPROVER", "OPERATOR", "ADMIN"}

RolePermissions(r) ==
    {"READ_ESTATE", "READ_AUDIT"} \cup
    CASE r = "VIEWER"   -> {}
      [] r = "PLANNER"  -> {"RUN_DISCOVERY", "EDIT_MAPPING", "BUILD_PLAN", "RUN_DRY_RUN"}
      [] r = "APPROVER" -> {"APPROVE_PLAN"}
      [] r = "OPERATOR" -> {"RUN_DRY_RUN", "EXECUTE_PRODUCTION", "ROLLBACK"}
      [] r = "ADMIN"    -> {"MANAGE_CONNECTORS", "MANAGE_TENANTS"}

Permissions(roles) == UNION {RolePermissions(r) : r \in roles}

\* tenant_context: in LIVE mode the headers are refused unless opted in to.
AcceptsHeaders == process.live => process.header_auth

\* The caller of a route: the roles its headers name (PLANNER if they name
\* none), accepted, and with the permission the route requires.
CallerMay(c, permission) ==
    /\ AcceptsHeaders
    /\ permission \in Permissions(IF RolesOf[c] = {} THEN {"PLANNER"} ELSE RolesOf[c])

-----------------------------------------------------------------------------
(***************************************************************************)
(* Plans and authorizations.                                               *)
(***************************************************************************)

EmergencyKind == {"EmergencyLocation", "EmergencyNumber", "EmergencyCallingPolicy"}

SitesOfEmergencyOps(p) ==   \* mutant: an operation without a site not left out
    {Desc[o].site : o \in {q \in p : Desc[q].kind \in EmergencyKind}}
\* ApplyPlan.emergency_sites
EmergencySites(p) ==
    {Desc[o].site : o \in {q \in p : Desc[q].kind \in EmergencyKind}} \ {None}

\* operations_in_dependency_order raises neither on an unknown op nor on a
\* cycle: every non-empty part of the plan has an operation that depends on
\* nothing in that part.
Orderable(p) ==
    /\ \A o \in p : Desc[o].depends_on \subseteq p
    /\ \A part \in SUBSET p \ {{}} :
           \E o \in part : Desc[o].depends_on \cap part = {}

\* What production_authorization makes of the request's body.  "explicit" is
\* an observer: the sites the body itself named.
AuthorizationOf(e, body) ==
    [receipt   |-> receipt[e],
     approvers |-> body.approvers,
     window    |-> body.window,
     overridden |-> body.override_reason /\ body.override_by,
     confirmed |-> IF body.sites = None THEN EmergencySites(plan[e]) ELSE body.sites,
     explicit  |-> IF body.sites = None THEN {} ELSE body.sites,
     evaluated_at |-> clock]

Within(w, t) == w[1] <= t /\ t <= w[2]

\* ApplyAuthorization's validator (PRODUCTION mode, with a receipt).
AuthorizationValid(a) ==
    /\ Cardinality(a.approvers) >= 2
    /\ a.overridden \/ (a.window # None /\ Within(a.window, a.evaluated_at))

Body == [approvers : SUBSET Principal,
         window : {None} \cup {w \in Window : w[1] < w[2]},
         override_reason : BOOLEAN, override_by : BOOLEAN,
         sites : {None} \cup SUBSET Site]

CoversAnyDigest(a, p) == EmergencySites(p) \subseteq a.confirmed   \* mutant: no digest
CoversWithoutSites(a, p) == a.receipt = p   \* mutant: emergency sites not asked for
\* ApplyAuthorization.assert_covers
AssertCovers(a, p) ==
    /\ a.receipt = p
    /\ EmergencySites(p) \subseteq a.confirmed

\* The part of Connector.apply's gate that a dry run passes too.
PlanAcceptable(t, p) ==
    /\ \A o \in p :
           /\ Desc[o].kind \in Appliable(t.manifest)
           /\ Desc[o].verb \in t.manifest.verbs[Desc[o].kind]
           /\ Desc[o].fidelity # "UNMAPPABLE"
    /\ Orderable(p)

GateWithoutReadiness(t, a, p) ==   \* mutant: the readiness check is gone
    /\ AssertCovers(a, p) /\ t.scope = "READ_WRITE" /\ PlanAcceptable(t, p)
\* Connector.apply's gate in PRODUCTION mode, on the connector t.
Gate(t, a, p) ==
    /\ AssertCovers(a, p)
    /\ t.scope = "READ_WRITE"
    /\ MayWriteToProduction(t)
    /\ PlanAcceptable(t, p)

-----------------------------------------------------------------------------
(***************************************************************************)
(* What the handler of a call remembers until it is done.                  *)
(***************************************************************************)

Authorization ==
    [receipt : PlanChoice, approvers : SUBSET Principal, window : Window \cup {None},
     overridden : BOOLEAN, confirmed : SUBSET Site, explicit : SUBSET Site,
     evaluated_at : 0..MaxTime]

DryRunRequest == [kind : {"dry_run"}, estate : Estate, plan : PlanChoice]
ExecuteRequest == [kind : {"execute"}, estate : Estate, plan : PlanChoice,
                   authorization : Authorization,
                   todo : SUBSET Op, wrote : SUBSET Op]
RollbackRequest == [kind : {"rollback"}, estate : Estate, of : Estate,
                    todo : SUBSET Op]
Request == DryRunRequest \cup ExecuteRequest \cup RollbackRequest

ASSUME NoneIsNoRequest == None \notin Request

-----------------------------------------------------------------------------
Init ==
    /\ process \in Processes
    /\ target \in Targets
    /\ clock = 0
    /\ plan = [e \in Estate |-> None] /\ receipt = [e \in Estate |-> None]
    /\ request = [c \in Client |-> None]
    /\ holder = [e \in Estate |-> None]
    /\ bundles = {}
    /\ calls = 0 /\ runs = 0
    /\ previewed = {} /\ written = {} /\ undone = {} /\ opened = {}

(***************************************************************************)
(* Calls of the API, each on the session of the estate its URL names.      *)
(***************************************************************************)

Call(c) == request[c] = None /\ calls < MaxCalls /\ calls' = calls + 1

\* POST /plan: the receipt goes with the plan it covered.
BuildPlan(c, e) ==
    /\ Call(c)
    /\ CallerMay(c, "BUILD_PLAN")
    /\ \E p \in PlanChoice : plan' = [plan EXCEPT ![e] = p]
    /\ receipt' = [receipt EXCEPT ![e] = None]
    /\ UNCHANGED <<process, target, runs, clock, request, holder, bundles, previewed,
                   written, undone, opened>>

DryRun(c, e) ==
    /\ Call(c)
    /\ CallerMay(c, "RUN_DRY_RUN")
    /\ plan[e] # None
    /\ request' = [request EXCEPT ![c] =
                      [kind |-> "dry_run", estate |-> e, plan |-> plan[e]]]
    /\ UNCHANGED <<process, target, runs, clock, plan, receipt, holder, bundles,
                   previewed, written, undone, opened>>

\* POST /runs: the authorization is built, and its window evaluated, before
\* the handler waits for the lock.
Execute(c, e) ==
    /\ Call(c)
    /\ CallerMay(c, "EXECUTE_PRODUCTION")
    /\ plan[e] # None /\ receipt[e] # None
    /\ runs < MaxRuns /\ runs' = runs + 1
    /\ \E body \in Body :
           /\ AuthorizationValid(AuthorizationOf(e, body))
           /\ request' = [request EXCEPT ![c] =
                  [kind |-> "execute", estate |-> e, plan |-> plan[e],
                   authorization |-> AuthorizationOf(e, body),
                   todo |-> plan[e], wrote |-> {}]]
    /\ UNCHANGED <<process, target, clock, plan, receipt, holder, bundles,
                   previewed, written, undone, opened>>

\* POST /runs/{id}/rollback: an authorization for the session's plan, and any
\* run of the store, whatever plan it was of and on whatever estate.
Rollback(c, e) ==
    /\ Call(c)
    /\ CallerMay(c, "ROLLBACK")
    /\ plan[e] # None /\ receipt[e] # None
    /\ \E body \in Body : AuthorizationValid(AuthorizationOf(e, body))
    /\ \E b \in bundles :
           request' = [request EXCEPT ![c] =
               [kind |-> "rollback", estate |-> e, of |-> b.estate, todo |-> b.ops]]
    /\ UNCHANGED <<process, target, runs, clock, plan, receipt, holder, bundles,
                   previewed, written, undone, opened>>

\* POST /connections/{id}/test; the observer also keeps what the screen said.
TestConnection(c) ==
    /\ Call(c)
    /\ CallerMay(c, "MANAGE_CONNECTORS")
    /\ \E p \in Profiles :
           opened' = {[profile |-> p, can_open |-> CanOpen(p),
                       outcome |-> OpenOutcome(p, Env)]}
    /\ UNCHANGED <<process, target, runs, clock, plan, receipt, request, holder,
                   bundles, previewed, written, undone>>

-----------------------------------------------------------------------------
(***************************************************************************)
(* In the lock of a session.                                               *)
(***************************************************************************)

\* The request of c is in the lock of the session e it was made on.
Holds(c, e, kind) == holder[e] = c /\ request[c].kind = kind

\* A dry run the gate refuses, and a run it refuses, end where they enter.
Enter(c, e) ==
    /\ request[c] # None /\ request[c].estate = e /\ holder[e] = None
    /\ IF CASE request[c].kind = "dry_run"  ->
                   PlanAcceptable(target[e], request[c].plan)
            [] request[c].kind = "execute"  ->
                   Gate(target[e], request[c].authorization, request[c].plan)
            [] request[c].kind = "rollback" -> TRUE
       THEN holder' = [holder EXCEPT ![e] = c] /\ UNCHANGED request
       ELSE request' = [request EXCEPT ![c] = None] /\ UNCHANGED holder
    /\ UNCHANGED <<process, target, runs, clock, plan, receipt, bundles, calls,
                   previewed, written, undone, opened>>

Leave(c, e) ==
    holder' = [holder EXCEPT ![e] = None] /\ request' = [request EXCEPT ![c] = None]

DryRunReturns(c, e) ==
    /\ Holds(c, e, "dry_run")
    /\ receipt' = [receipt EXCEPT ![e] = request[c].plan]
    /\ previewed' = previewed \cup {[estate |-> e, plan |-> request[c].plan]}
    /\ Leave(c, e)
    /\ UNCHANGED <<process, target, runs, clock, plan, bundles, calls, written,
                   undone, opened>>

\* The next operation of a run whose dependencies are done with.
Ready(c) == {o \in request[c].todo : Desc[o].depends_on \cap request[c].todo = {}}

Write(c, e) ==
    /\ Holds(c, e, "execute")
    /\ \E o \in Ready(c) :
           /\ request' = [request EXCEPT ![c].todo = @ \ {o}, ![c].wrote = @ \cup {o}]
           /\ written' = written \cup
                  {[op |-> o, estate |-> e, by |-> request[c].authorization,
                    at |-> clock]}
    /\ UNCHANGED <<process, target, runs, clock, plan, receipt, holder, bundles,
                   calls, previewed, undone, opened>>

\* The target already holds what the operation asks for: its dependents may go
\* on, and the bundle does not hold it.
SkipNoChange(c, e) ==
    /\ Holds(c, e, "execute")
    /\ \E o \in Ready(c) : request' = [request EXCEPT ![c].todo = @ \ {o}]
    /\ UNCHANGED <<process, target, runs, clock, plan, receipt, holder, bundles,
                   calls, previewed, written, undone, opened>>

\* A run ends when nothing is left, or before, with part of it quarantined or
\* blocked; its bundle holds what it wrote.
RunReturns(c, e) ==
    /\ Holds(c, e, "execute")
    /\ bundles' = IF request[c].wrote = {} THEN bundles
                  ELSE bundles \cup {[estate |-> e, ops |-> request[c].wrote]}
    /\ Leave(c, e)
    /\ UNCHANGED <<process, target, runs, clock, plan, receipt, calls, previewed,
                   written, undone, opened>>

\* The next inverse operation, dependents first, sent to the session's target;
\* it passes no gate of its own.  A target that refuses it changes nothing,
\* and the rollback goes on.
Undo(c, e) ==
    /\ Holds(c, e, "rollback")
    /\ \E o \in request[c].todo :
           /\ \A q \in request[c].todo : o \notin Desc[q].depends_on
           /\ request' = [request EXCEPT ![c].todo = @ \ {o}]
           /\ \/ undone' = undone \cup {[op |-> o, of |-> request[c].of, on |-> e]}
              \/ UNCHANGED undone
    /\ UNCHANGED <<process, target, runs, clock, plan, receipt, holder, bundles,
                   calls, previewed, written, opened>>

RollbackReturns(c, e) ==
    /\ Holds(c, e, "rollback") /\ request[c].todo = {}
    /\ Leave(c, e)
    /\ UNCHANGED <<process, target, runs, clock, plan, receipt, bundles, calls,
                   previewed, written, undone, opened>>

Tick ==
    /\ clock < MaxTime /\ clock' = clock + 1
    /\ UNCHANGED <<process, target, runs, plan, receipt, request, holder, bundles,
                   calls, previewed, written, undone, opened>>

Next ==
    \/ Tick
    \/ \E c \in Client : TestConnection(c)
    \/ \E c \in Client, e \in Estate :
           \/ BuildPlan(c, e) \/ DryRun(c, e) \/ Execute(c, e) \/ Rollback(c, e)
           \/ Enter(c, e) \/ DryRunReturns(c, e)
           \/ Write(c, e) \/ SkipNoChange(c, e) \/ RunReturns(c, e)
           \/ Undo(c, e) \/ RollbackReturns(c, e)

Spec == Init /\ [][Next]_vars

-----------------------------------------------------------------------------
(***************************************************************************)
(* Properties.                                                             *)
(***************************************************************************)

\* Types.
TypeOK ==
    /\ process \in Processes
    /\ target \in [Estate -> Target] /\ clock \in 0..MaxTime /\ calls \in 0..MaxCalls
    /\ runs \in 0..MaxRuns
    /\ plan \in [Estate -> PlanChoice \cup {None}]
    /\ receipt \in [Estate -> PlanChoice \cup {None}]
    /\ request \in [Client -> Request \cup {None}]
    /\ holder \in [Estate -> Client \cup {None}]
    /\ bundles \subseteq [estate : Estate, ops : SUBSET Op]
    /\ previewed \subseteq [estate : Estate, plan : PlanChoice]
    /\ written \subseteq [op : Op, estate : Estate, by : Authorization, at : 0..MaxTime]
    /\ undone \subseteq [op : Op, of : Estate, on : Estate]

\* Whatever was replanned, previewed or waited for in between, an operation a
\* run writes is one of a plan that was dry-run on this estate's target, under
\* an authorization that carries that dry run's receipt (contracts.py:7).
WrittenAsPreviewed ==
    \A w \in written :
        /\ [estate |-> w.estate, plan |-> w.by.receipt] \in previewed
        /\ w.op \in w.by.receipt

\* Emergency calling at a site is only written by a run whose authorization
\* confirms that site (contracts.py:11).
EmergencySitesConfirmed ==
    \A w \in written :
        Desc[w.op].kind \in EmergencyKind => Desc[w.op].site \in w.by.confirmed \cup {None}

MayBeWritten(t) == t.scope = "READ_WRITE" /\ MayWriteToProduction(t)

\* What a run writes, it writes to a verified connector with a read-write
\* credential, and it rests on two approvers and a window open or overridden
\* when it was authorized.  What a rollback undoes, on whatever estate, is
\* something a run wrote so, on the estate the run was of; and whoever asked
\* for either, the process accepts its callers' identity.
ChangesRestOnEvidence ==
    /\ \A w \in written :
           /\ MayBeWritten(target[w.estate])
           /\ Cardinality(w.by.approvers) >= 2
           /\ w.by.overridden \/ Within(w.by.window, w.by.evaluated_at)
    /\ \A u \in undone : \E w \in written : w.op = u.op /\ w.estate = u.of
    /\ written \cup undone # {} => AcceptsHeaders

\* contracts.py:4: "Production writes require, with no code path around them".
\* Violated: a rollback sends the inverses of any run of the store to its
\* session's target, past the gate of apply.
RollbacksOnReadyTargets ==
    \A u \in undone : MayBeWritten(target[u.on])

\* A connection that opens is one the Connections screen offered to open, and
\* its credential belongs to the profile's own tenant: the table the screen
\* reads and the branches of the factory agree that far.
OpenedAsOffered ==
    \A t \in opened : t.outcome = "connected" =>
        t.can_open /\ t.profile.credential.tenant \in {None, t.profile.tenant}

\* contracts.py:5-10: a production write requires "an open change window, or a
\* recorded, attributed override".  Violated: the window is evaluated when the
\* authorization is built, and the run may start, or go on, after it closed.
WritesWithinWindow ==
    \A w \in written : w.by.overridden \/ Within(w.by.window, w.at)

\* factory.py:231: the Connections screen "cannot promise something
\* build_live_connector would refuse".  Violated: TRANSPORT_SUPPORT lists REST
\* for Teams and Aura as implemented, and the factory refuses both.
ScreenPromisesOnlyWhatOpens ==
    \A t \in opened : t.can_open => t.outcome # "TransportNotImplemented"

\* workspace.py:401: "Nothing is defaulted into existence."  Violated: a body
\* that names no sites confirms every emergency site of the plan.
ConfirmationsAreExplicit ==
    \A w \in written :
        Desc[w.op].kind \in EmergencyKind => Desc[w.op].site \in w.by.explicit \cup {None}
=============================================================================
