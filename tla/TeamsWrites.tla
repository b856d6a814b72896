---------------------------- MODULE TeamsWrites ----------------------------
(***************************************************************************)
(* The apply side of the Teams connector (connectors/teams/connector.py)   *)
(* under the apply loop of the connector base and the rollback of the      *)
(* execution engine, writing to a Microsoft 365 tenant that accepts a      *)
(* request now and makes it readable later, or never.                      *)
(*                                                                         *)
(* External, known from how the connector uses them: the tenant refuses a  *)
(* number for a user without a phone licence ("the assignment will fail    *)
(* unless the licence operation runs first") and a request without a user  *)
(* or a SKU, and it works accepted requests off in their order.            *)
(***************************************************************************)
EXTENDS Naturals, Sequences, FiniteSets, SequencesExt

CONSTANTS User,         \* user principal names
          FirstPage,    \* those on the first page of GET /users
          Number,       \* telephone numbers
          Nobody,       \* no user, an empty reference
          Plan,         \* the plans the planner builds, sequences of Operation
          MaxAttempts,  \* rate_limits.max_attempts
          MaxPending,   \* bound: requests accepted and not worked off
          MaxRuns       \* bound: production runs, previews apart

ASSUME TeamsAssumption ==
    /\ IsFiniteSet(User) /\ IsFiniteSet(Number)
    /\ FirstPage \subseteq User
    /\ Nobody \notin User
    /\ MaxAttempts \in Nat \ {0} /\ MaxPending \in Nat \ {0} /\ MaxRuns \in Nat

VARIABLES tenant,   \* what the tenant's APIs return
          pending,  \* requests accepted and not yet readable
          plan, receipt,  \* the session's plan; whether a dry run covers it
          pc, at, tries,  \* the call in progress, its operation and attempt
          status,   \* results of the current or last run, per operation
          bundle,   \* inverse operations, the last one first
          undone,   \* the part of a bundle already applied
          runs, quiet, outcome  \* runs started; nothing pending at the start;
                                \* how the last call ended
teamsVars == <<tenant, pending, plan, receipt, pc, at, tries, status, bundle,
               undone, runs, quiet, outcome>>
-----------------------------------------------------------------------------
\* WriteOperation.  object: the number, whether a SKU is named, the policy;
\* needs: depends_on, as positions in the plan.
Kind == {"LicenseAssignment", "E164Number", "VoiceRoutingPolicy"}
Operation(needs) ==
    {o \in [kind : Kind, verb : {"ASSIGN", "UNASSIGN", "CREATE"},
            principal : User \cup {Nobody},
            object : Number \cup {"phone-sku", "no-sku", "policy"},
            needs : SUBSET needs] :
        o.kind = "E164Number" => o.object \in Number}

ASSUME PlansAreOperations == \A p \in Plan : p \in Seq(Operation(1..Len(p)))

\* confirm_required_for_kinds of the manifest
ConfirmKinds == {"LicenseAssignment", "E164Number"}

Tenant == [holder : [Number -> User \cup {Nobody}], seats : SUBSET User,
           policy : BOOLEAN]

\* _command_for(): a number without an assignee has no command.  The verb is
\* not looked at.
Conflict(o) == o.kind = "E164Number" /\ o.principal = Nobody

\* What comes of a call: an answer, a ConnectorError, or an exception outside
\* the connectors' taxonomy (a timeout or connection error of the transport, a
\* CredentialError, a Retry-After that is no number).
Answer == {"ok", "error", "exception"}

\* _current_licences(): the first page of the users, and nobody on an error.
Licensed(u, answer) ==
    answer = "ok" /\ u \in FirstPage /\ u \in tenant.seats

\* ... it is only asked for a user, and lets an exception through.
LicenceReadEscapes(o, answer) ==
    o.kind = "LicenseAssignment" /\ o.principal # Nobody /\ answer = "exception"

\* _current_number_assignment(): None on any error or exception.
Holder(n, answer) == IF answer = "ok" THEN tenant.holder[n] ELSE Nobody

\* _preview_operation().would_change; no current state is read for a policy.
WouldChange(o, answer) ==
    CASE o.kind = "LicenseAssignment" ->
            ~(o.object = "phone-sku" /\ Licensed(o.principal, answer))
      [] o.kind = "E164Number" -> Holder(o.object, answer) # o.principal
      [] OTHER -> TRUE

\* mutant: _current_licences lets the read's ConnectorError through
PreviewRaisesOnError(o, answer) ==
    Conflict(o) \/ (o.kind = "LicenseAssignment" /\ answer = "error")

\* _preview_operation() raises a ConnectorError for a conflict only: reads that
\* fail with one count as "nothing there".
PreviewRaises(o, answer) == Conflict(o)

\* _execute_operation(): requests the tenant turns down for good.
Refuses(o) ==
    \/ Conflict(o)
    \/ o.kind = "LicenseAssignment"
          /\ (o.principal = Nobody \/ o.object = "no-sku")
    \/ o.kind = "E164Number" /\ o.principal \notin tenant.seats
    \/ o.kind = "VoiceRoutingPolicy" /\ tenant.policy

\* ... and what an accepted one comes to: an assignment, for either verb.
Effect(o, t) ==
    CASE o.kind = "LicenseAssignment" ->
            [t EXCEPT !.seats = @ \cup {o.principal}]
      [] o.kind = "E164Number" -> [t EXCEPT !.holder[o.object] = o.principal]
      [] OTHER -> [t EXCEPT !.policy = TRUE]

\* mutant: any assignment of the number confirms the write
ConfirmedByAnybody(o, answer) ==
    CASE o.kind = "LicenseAssignment" -> Licensed(o.principal, answer)
      [] OTHER -> Holder(o.object, answer) # Nobody

\* _confirm_operation(): re-read, and compare the identity.
Confirms(o, answer) ==
    CASE o.kind = "LicenseAssignment" ->
            o.object = "phone-sku" /\ Licensed(o.principal, answer)
      [] OTHER -> answer = "ok" /\ Holder(o.object, answer) = o.principal

\* mutant: the inverse goes out with the operation's own verb
InverseKeepsVerb(o) ==
    IF o.kind \in ConfirmKinds THEN <<[o EXCEPT !.needs = {}]>> ELSE <<>>

\* _invert_operation(): a copy with the verb UNASSIGN; nothing for a policy.
InverseOf(o) ==
    IF o.kind \in ConfirmKinds
    THEN <<[o EXCEPT !.verb = "UNASSIGN", !.needs = {}]>> ELSE <<>>
-----------------------------------------------------------------------------
(***************************************************************************)
(* repatriation/reclaim.py                                                 *)
(***************************************************************************)

\* Users of the snapshot confirmed migrated: extraction reads the first page.
MigratedIds(migrated) == migrated \cap FirstPage

\* build_reclaim_plan() and reclaim_plan_to_apply_plan(): numbers first, then
\* licences, each operation after the one before.  The payload carries no
\* references and no attributes.
ReclaimPlan(migrated) ==
    LET ids     == MigratedIds(migrated)
        numbers == SetToSeq({n \in Number : tenant.holder[n] \in ids})
        seats   == SetToSeq(tenant.seats \cap ids)
        Step(kind, object, i) ==
            [kind |-> kind, verb |-> "UNASSIGN", principal |-> Nobody,
             object |-> object, needs |-> IF i = 1 THEN {} ELSE {i - 1}]
    IN  [i \in 1..Len(numbers) + Len(seats) |->
            IF i <= Len(numbers) THEN Step("E164Number", numbers[i], i)
            ELSE Step("LicenseAssignment", "no-sku", i)]
-----------------------------------------------------------------------------
TeamsInit ==
    /\ tenant \in {t \in Tenant :
            /\ ~t.policy
            /\ \A n \in Number : t.holder[n] \in t.seats \cup {Nobody}}
    /\ pending = <<>>
    /\ plan = <<>> /\ receipt = FALSE
    /\ pc = "idle" /\ at = 1 /\ tries = 0
    /\ status = <<>> /\ bundle = <<>> /\ undone = <<>>
    /\ runs = 0 /\ quiet = TRUE /\ outcome = "none"

Current == plan[at]
Unusable == {i \in DOMAIN status :
                status[i] \in {"QUARANTINED", "BLOCKED_BY_DEPENDENCY"}}

\* A new plan takes the receipt of the old one with it.
SetPlan(p) ==
    /\ pc = "idle" /\ runs < MaxRuns
    /\ plan' = p /\ receipt' = FALSE
    /\ status' = <<>> /\ at' = 1 /\ outcome' = "planned"
    /\ UNCHANGED <<tenant, pending, pc, tries, bundle, undone, runs, quiet>>

\* dry_run(): one preview per operation, a receipt if none of them raises.
DryRun(answer) ==
    /\ pc = "idle" /\ plan # <<>> /\ ~receipt /\ runs < MaxRuns
    /\ receipt' = \A i \in DOMAIN plan :
                     ~PreviewRaises(plan[i], answer) /\ ~LicenceReadEscapes(plan[i], answer)
    /\ outcome' = IF receipt' THEN "previewed" ELSE "not-previewed"
    /\ UNCHANGED <<tenant, pending, plan, pc, at, tries, status, bundle, undone,
                   runs, quiet>>

\* apply() in production mode, past its gate: only with the plan's receipt.
Start ==
    /\ pc = "idle" /\ receipt /\ runs < MaxRuns
    /\ pc' = "next" /\ at' = 1 /\ tries' = 0
    /\ status' = [i \in DOMAIN plan |-> "PENDING"]
    /\ bundle' = <<>> /\ undone' = <<>> /\ runs' = runs + 1 /\ quiet' = (pending = <<>>)
    /\ outcome' = "running"
    /\ UNCHANGED <<tenant, pending, plan, receipt>>

\* An operation is done with: its result is recorded, its inverse put in front
\* of the bundle if it succeeded.
Settled(s) ==
    /\ status' = [status EXCEPT ![at] = s]
    /\ bundle' = IF s = "SUCCEEDED" THEN InverseOf(Current) \o bundle ELSE bundle
    /\ pc' = "next" /\ at' = at + 1 /\ tries' = 0
    /\ UNCHANGED <<plan, receipt, undone, runs, quiet, outcome>>

Block ==
    /\ pc = "next" /\ at <= Len(plan) /\ Current.needs \cap Unusable # {}
    /\ Settled("BLOCKED_BY_DEPENDENCY")
    /\ UNCHANGED <<tenant, pending>>

\* An exception leaves apply(): no report, and the inverses are lost with it.
EndsRun(how) ==
    /\ pc' = "idle" /\ outcome' = how /\ bundle' = <<>>
    /\ UNCHANGED <<plan, receipt, at, tries, status, undone, runs, quiet>>

\* The preview that decides whether to write, and the second one that captures
\* the state before; what either raises leaves apply().
Examine(answer) ==
    /\ pc = "next" /\ at <= Len(plan) /\ Current.needs \cap Unusable = {}
    /\ UNCHANGED <<tenant, pending>>
    /\ \/ PreviewRaises(Current, answer) /\ EndsRun("raised")
       \/ LicenceReadEscapes(Current, answer) /\ EndsRun("broken-off")
       \/ /\ ~PreviewRaises(Current, answer) /\ ~LicenceReadEscapes(Current, answer)
          /\ ~WouldChange(Current, answer)
          /\ Settled("SKIPPED_NO_CHANGE")
       \/ /\ ~PreviewRaises(Current, answer) /\ ~LicenceReadEscapes(Current, answer)
          /\ WouldChange(Current, answer)
          /\ pc' = "write"
          /\ UNCHANGED <<plan, receipt, at, tries, status, bundle, undone, runs,
                         quiet, outcome>>

\* _execute_with_retry(): the request is accepted; its answer arrives, is lost
\* and the request repeated, or is lost with an exception that is no
\* ConnectorError and leaves apply().
Accepted ==
    /\ pc = "write" /\ ~Refuses(Current) /\ Len(pending) < MaxPending
    /\ pending' = Append(pending, Current)
    /\ UNCHANGED tenant
    /\ \/ /\ Current.kind \in ConfirmKinds
          /\ pc' = "confirm"
          /\ UNCHANGED <<plan, receipt, at, tries, status, bundle, undone, runs,
                         quiet, outcome>>
       \/ Current.kind \notin ConfirmKinds /\ Settled("SUCCEEDED")
       \/ /\ tries + 1 < MaxAttempts
          /\ tries' = tries + 1
          /\ UNCHANGED <<plan, receipt, pc, at, status, bundle, undone, runs,
                         quiet, outcome>>
       \/ tries + 1 = MaxAttempts /\ Settled("QUARANTINED")
       \/ EndsRun("broken-off")

\* It is turned down, throttled until the attempts are used up, or never sent.
Rejected ==
    /\ pc = "write" /\ UNCHANGED <<tenant, pending>>
    /\ \/ Refuses(Current) /\ Settled("QUARANTINED")
       \/ tries + 1 = MaxAttempts /\ Settled("QUARANTINED")
       \/ /\ tries + 1 < MaxAttempts
          /\ tries' = tries + 1
          /\ UNCHANGED <<plan, receipt, pc, at, status, bundle, undone, runs,
                         quiet, outcome>>
       \/ EndsRun("broken-off")

\* _confirm_with_polling(): until the write is readable or the deadline passed.
Confirm(answer) ==
    /\ pc = "confirm"
    /\ \/ Confirms(Current, answer) /\ Settled("SUCCEEDED")
       \/ LicenceReadEscapes(Current, answer) /\ EndsRun("broken-off")
    /\ UNCHANGED <<tenant, pending>>
ConfirmTimeout ==
    /\ pc = "confirm"
    /\ Settled("QUARANTINED")
    /\ UNCHANGED <<tenant, pending>>

Report ==
    /\ pc = "next" /\ at > Len(plan)
    /\ pc' = "idle" /\ outcome' = "reported"
    /\ UNCHANGED <<tenant, pending, plan, receipt, at, tries, status, bundle,
                   undone, runs, quiet>>

\* ExecutionEngine.rollback(): each inverse once, without preview, retry or
\* confirmation; what fails is counted.
Rollback ==
    /\ pc = "idle" /\ bundle # <<>>
    /\ pc' = "undo" /\ outcome' = "undoing"
    /\ UNCHANGED <<tenant, pending, plan, receipt, at, tries, status, bundle,
                   undone, runs, quiet>>
UndoOne ==
    /\ pc = "undo" /\ bundle # <<>>
    /\ undone' = Append(undone, Head(bundle)) /\ bundle' = Tail(bundle)
    /\ \/ /\ ~Refuses(Head(bundle)) /\ Len(pending) < MaxPending
          /\ pending' = Append(pending, Head(bundle))
          /\ UNCHANGED outcome
       \/ outcome' = "undoing-failed" /\ UNCHANGED pending
    /\ UNCHANGED <<tenant, plan, receipt, pc, at, tries, status, runs, quiet>>
RollbackDone ==
    /\ pc = "undo" /\ bundle = <<>>
    /\ pc' = "idle"
    /\ outcome' = IF outcome = "undoing" THEN "ROLLED_BACK"
                  ELSE "COMPLETED_WITH_FAILURES"
    /\ UNCHANGED <<tenant, pending, plan, receipt, at, tries, status, bundle,
                   undone, runs, quiet>>

\* External: the tenant works the oldest accepted request off, or loses it.
Provision ==
    /\ pending # <<>>
    /\ pending' = Tail(pending)
    /\ \/ tenant' = Effect(Head(pending), tenant)
       \/ UNCHANGED tenant
    /\ UNCHANGED <<plan, receipt, pc, at, tries, status, bundle, undone, runs,
                   quiet, outcome>>

Applying ==
    \/ Block \/ Accepted \/ Rejected \/ ConfirmTimeout \/ Report
    \/ \E answer \in Answer : Examine(answer) \/ Confirm(answer)
    \/ UndoOne \/ RollbackDone

TeamsNext ==
    \/ \E p \in Plan : SetPlan(p)
    \/ \E answer \in Answer : DryRun(answer)
    \/ Start \/ Applying \/ Rollback \/ Provision
-----------------------------------------------------------------------------
TeamsTypeOK ==
    /\ tenant \in Tenant
    /\ pending \in Seq(Operation(Nat)) /\ Len(pending) <= MaxPending
    /\ plan \in Seq(Operation(1..Len(plan))) /\ receipt \in BOOLEAN
    /\ pc \in {"idle", "next", "write", "confirm", "undo"}
    /\ at \in 1..Len(status) + 1 /\ tries \in 0..MaxAttempts - 1
    /\ bundle \in Seq({o \in Operation({}) : o.verb = "UNASSIGN"})

\* A number or a seat the run reports SUCCEEDED is where the plan put it when
\* the run reports, although the tenant accepts requests it later loses and a
\* re-read may find an older assignment (_confirm_operation).  Holds of runs
\* that start with no earlier request under way, for the last operation on a
\* number.
SucceededIsHeld ==
    outcome = "reported" /\ quiet =>
        \A i \in DOMAIN status : status[i] = "SUCCEEDED" =>
            /\ plan[i].kind = "LicenseAssignment" =>
                  plan[i].principal \in tenant.seats
            /\ plan[i].kind = "E164Number"
               /\ (\A j \in DOMAIN plan :
                     j # i => plan[j].object # plan[i].object)
                  => tenant.holder[plan[i].object] = plan[i].principal

\* A run of a plan whose dry run gave a receipt is not broken off by anything
\* the connectors' own errors stand for: a conflict would have kept the receipt
\* back, and a read that fails with a ConnectorError half-way counts as nothing
\* there.  (_preview_operation is called outside every try.)
PreviewedPlansRunThrough == outcome # "raised"

\* "Quarantine per object; the wave continues."  Not kept: an exception outside
\* the taxonomy leaves apply() from a licence read or a write, and what the run
\* had written by then is in no report and no bundle.
WrittenIsReported ==
    outcome = "broken-off" => \A i \in DOMAIN status : status[i] # "SUCCEEDED"

\* "Release ...", "Unassign ...": after a rollback without failures nobody
\* holds what the run gave out.  Not kept: _command_for ignores the verb, so
\* the inverse operations assign once more.
RollbackReleases ==
    outcome = "ROLLED_BACK" /\ pending = <<>> =>
        \A i \in DOMAIN undone :
            /\ undone[i].kind = "E164Number" =>
                  tenant.holder[undone[i].object] # undone[i].principal
            /\ undone[i].kind = "LicenseAssignment" =>
                  undone[i].principal \notin tenant.seats

\* "Turn a reclaim plan into an executable ApplyPlan of unassign operations."
\* Not kept: the operations name neither user nor SKU.
ReclaimPlansAreExecutable ==
    \A i \in DOMAIN plan : plan[i].verb = "UNASSIGN" => ~Refuses(plan[i])
=============================================================================
