----------------------------- MODULE Workspace -----------------------------
(***************************************************************************)
(* The control plane: the estate sessions of Workspace, the handlers of    *)
(* the HTTP API that call it, and one event loop running those handlers.   *)
(*                                                                         *)
(* A handler runs without interruption up to its first suspension: at the  *)
(* session's asyncio.Lock if another handler holds it, else inside the     *)
(* locked call at the connector.  What it read before that (the plan, the  *)
(* receipt, the snapshot, the rollback bundle) it keeps in local variables,*)
(* while other handlers go on.  Handlers without an await are one action.  *)
(*                                                                         *)
(* What goes on in a run is Execution.tla's; here it starts, and returns   *)
(* or raises.  An estate version stands for an EstateSnapshot, and for the *)
(* plan digest planned from it.                                            *)
(***************************************************************************)
EXTENDS Naturals, Sequences, SequencesExt

CONSTANTS
    Client,       \* callers of the API, each with one request at a time
    Version,      \* estate versions
    Discovered,   \* those a discovery of the source may return
    Profile,      \* what the scenario's mapping profile makes of each of them
    None,         \* Python's None
    Reference,    \* TRUE: the scenario's platform lives in the session
    Durable,      \* TRUE: a state directory is configured
    MaxSessions,  \* bound: sessions of the estate, over resets and restarts
    MaxCalls      \* bound: calls of the API

Session == 1..MaxSessions
\* An identifier is the session's sequence number when it was drawn; a call
\* draws at most two.
Id == 1..2 * MaxCalls

ASSUME WorkspaceAssumption ==
    /\ Discovered \subseteq Version
    /\ Profile \in [Version -> Version]
    /\ None \notin Version \cup Nat
    /\ Reference \in BOOLEAN /\ Durable \in BOOLEAN
    /\ MaxSessions \in Nat \ {0} /\ MaxCalls \in Nat

VARIABLES
    current,   \* the session in Workspace.sessions
    session,   \* every EstateSession made so far
    queue,     \* holder of each session's lock, and those who wait for it
    request,   \* what each client's handler remembers
    target,    \* contents of each platform: how often they have changed
    runs,      \* the RunStore
    calls,     \* calls so far, to bound them
    \* observers, read by no guard:
    previewed, \* digests dry-run on each session
    raised     \* sessions with a run that raised since the last extract

vars == <<current, session, queue, request, target, runs, calls, previewed,
          raised>>

Plan == [id : Id, of : Version]
Content == 0..MaxCalls
Report  == [source : Version, target : Content]
EstateSession ==
    [snapshot : Version \cup {None}, assessment : Version \cup {None},
     transform : Version \cup {None}, wave_plan : Version \cup {None},
     plan : Plan \cup {None}, receipt : Version \cup {None},
     validation : Report \cup {None}, cached : Content \cup {None},
     runs : SUBSET Id, sequence : 0..2 * MaxCalls]
RunRecord ==
    [state : {"RUNNING", "FAILED", "COMPLETED", "COMPLETED_WITH_FAILURES"},
     plan : Id, bundle : BOOLEAN]
Kind == {"discover", "dry_run", "execute", "rollback", "validate", "refresh"}
Request ==
    [kind : Kind, on : Session, inside : BOOLEAN, plan : Plan \cup {None},
     receipt : Version \cup {None}, source : Version \cup {None},
     run : Id \cup {None}, resume : BOOLEAN]

ASSUME NoneIsNoRecord == None \notin Plan \cup RunRecord \cup Request

Fresh == [snapshot |-> None, assessment |-> None, transform |-> None,
          wave_plan |-> None, plan |-> None, receipt |-> None,
          validation |-> None, cached |-> None, runs |-> {}, sequence |-> 0]

\* The platform a session writes to: its own, or the customer's one.
Home(s) == IF Reference THEN s ELSE 1

Init ==
    /\ current = 1
    /\ session = [s \in Session |-> Fresh]
    /\ queue = [s \in Session |-> <<>>]
    /\ request = [c \in Client |-> None]
    /\ target = [s \in Session |-> 0]
    /\ runs = [i \in Id |-> None]
    /\ calls = 0
    /\ previewed = [s \in Session |-> {}]
    /\ raised = {}

-----------------------------------------------------------------------------
(***************************************************************************)
(* Helpers.                                                                *)
(***************************************************************************)

Here == session[current]

\* EstateSession.effective_snapshot
Effective(s) == IF s.transform # None THEN s.transform ELSE s.snapshot

Call == calls < MaxCalls /\ calls' = calls + 1

\* The lock's queue once this client's turn has come.
Line(c, s) == IF request[c] = None THEN <<c>> ELSE queue[s]

\* The handler suspends inside the locked call.
Hold(c, q) ==
    /\ request' = [request EXCEPT ![c] = [q EXCEPT !.inside = TRUE]]
    /\ queue' = [queue EXCEPT ![q.on] = Line(c, q.on)]

LeaveHolding(c, s) ==   \* mutant: no release on the way out of an exception
    /\ request' = [request EXCEPT ![c] = None]
    /\ queue' = [queue EXCEPT ![s] = Line(c, s)]
\* The handler leaves the locked block with an exception: the lock passes on.
LeaveRaising(c, s) ==
    /\ request' = [request EXCEPT ![c] = None]
    /\ queue' = [queue EXCEPT ![s] = Tail(Line(c, s))]

LeavePassingOver(c, s) ==   \* mutant: the lock passes over the last in line
    /\ request' = [request EXCEPT ![c] = None]
    /\ queue' = [queue EXCEPT ![s] = Front(Line(c, s))]
\* The handler returns from the locked block: the lock passes on.
Leave(c, s) ==
    /\ request' = [request EXCEPT ![c] = None]
    /\ queue' = [queue EXCEPT ![s] = Tail(Line(c, s))]

\* The platform of a session holds something else than before.
Written(s) == target' = [target EXCEPT ![Home(s)] = @ + 1]

Inside(c, kind) ==
    request[c] # None /\ request[c].kind = kind /\ request[c].inside

-----------------------------------------------------------------------------
(***************************************************************************)
(* Handlers that do not suspend.                                           *)
(***************************************************************************)

\* assess
Assess ==
    /\ Call
    /\ Here.snapshot # None
    /\ session' = [session EXCEPT ![current].assessment = Here.snapshot]
    /\ UNCHANGED <<current, queue, request, target, runs, previewed, raised>>

MapKeepingPlan ==   \* mutant: the plan of the unmapped estate stays
    /\ Call
    /\ Here.snapshot # None
    /\ session' = [session EXCEPT ![current].transform = Profile[Here.snapshot],
                                  ![current].receipt = None]
    /\ UNCHANGED <<current, queue, request, target, runs, previewed, raised>>
\* map, in a scenario with a profile; without one it changes nothing.  The
\* plan was built from the unmapped estate, it no longer applies.
Map ==
    /\ Call
    /\ Here.snapshot # None
    /\ session' = [session EXCEPT ![current].transform = Profile[Here.snapshot],
                                  ![current].plan = None,
                                  ![current].receipt = None]
    /\ UNCHANGED <<current, queue, request, target, runs, previewed, raised>>

\* plan_waves
PlanWaves ==
    /\ Call
    /\ Effective(Here) # None
    /\ session' = [session EXCEPT ![current].wave_plan = Effective(Here)]
    /\ UNCHANGED <<current, queue, request, target, runs, previewed, raised>>

\* build_plan: a new plan invalidates the receipt of the old one.
BuildPlan ==
    /\ Call
    /\ Effective(Here) # None
    /\ LET id == Here.sequence + 1 IN
       session' = [session EXCEPT
           ![current].plan = [id |-> id, of |-> Effective(Here)],
           ![current].sequence = id, ![current].receipt = None]
    /\ UNCHANGED <<current, queue, request, target, runs, previewed, raised>>

\* reset: a new session takes the estate's place.  Handlers in flight keep
\* the old one, and the run store knows nothing of it.
Reset ==
    /\ current < MaxSessions
    /\ current' = current + 1
    /\ UNCHANGED <<session, queue, request, target, runs, calls, previewed,
                   raised>>

\* The process ends, in the midst of its requests, and is started again.
Restart ==
    /\ current < MaxSessions
    /\ current' = current + 1
    /\ session' = [s \in Session |-> Fresh]
    /\ previewed' = [s \in Session |-> {}]
    /\ raised' = {}
    /\ request' = [c \in Client |-> None]
    /\ queue' = [s \in Session |-> <<>>]
    /\ target' = [s \in Session |->
           IF \E c \in Client : /\ Inside(c, "execute") \/ Inside(c, "rollback")
                                /\ Home(request[c].on) = s
           THEN target[s] + 1 ELSE target[s]]
    /\ runs' = IF Durable THEN runs ELSE [i \in Id |-> None]
    /\ UNCHANGED calls

-----------------------------------------------------------------------------
(***************************************************************************)
(* Handlers that suspend: up to the lock, from there to the connector, and *)
(* from there to the answer.                                               *)
(***************************************************************************)

\* What a handler reads before it asks for the lock.  The routes for execute
\* and rollback also read plan and receipt, to assemble the authorization.
Asked(kind, run, resume) ==
    [kind |-> kind, on |-> current, inside |-> FALSE,
     plan |-> Here.plan, receipt |-> Here.receipt, source |-> Effective(Here),
     run |-> run, resume |-> resume]

\* The guards that raise StageNotReady or KeyError before the lock.
Ready(kind, run) ==
    /\ kind \in {"dry_run", "execute", "rollback"} => Here.plan # None
    /\ kind \in {"execute", "rollback"} => Here.receipt # None
    /\ kind = "validate" => Effective(Here) # None
    /\ kind = "rollback" => runs[run] # None /\ runs[run].bundle
    /\ kind = "refresh" => Here.cached = None

\* assert_covers: the receipt is one of the plan being applied.
Covers(q) == q.receipt = q.plan.of

\* The identifier of a run: the one the caller gave, or the next of the
\* session.
RunId(q) == IF q.run # None THEN q.run ELSE session[q.on].sequence + 1
Drawn(q) == IF q.run # None THEN session[q.on].sequence ELSE RunId(q)

\* A new record of the run, replacing any it had.
RunState(q, state) == [state |-> state, plan |-> q.plan.id, bundle |-> FALSE]

\* engine.execute, up to its first suspension.
BeginExecute(c, q) ==
    LET old == runs[RunId(q)] IN
    \/ \* resuming with another plan raises
       /\ q.resume /\ old # None /\ old.plan # q.plan.id
       /\ LeaveRaising(c, q.on)
       /\ session' = [session EXCEPT ![q.on].sequence = Drawn(q)]
       /\ UNCHANGED runs
    \/ \* resuming a completed run returns its summary
       /\ q.resume /\ old # None /\ old.plan = q.plan.id
       /\ old.state = "COMPLETED"
       /\ Leave(c, q.on)
       /\ session' = [session EXCEPT ![q.on].runs = @ \cup {RunId(q)},
                                     ![q.on].sequence = Drawn(q),
                                     ![q.on].cached = None]
       /\ UNCHANGED runs
    \/ /\ q.resume /\ old # None => /\ old.plan = q.plan.id
                                    /\ old.state # "COMPLETED"
       /\ session' = [session EXCEPT ![q.on].sequence = Drawn(q)]
       /\ \/ \* a guardrail refuses, this one or another
             /\ LeaveRaising(c, q.on)
             /\ runs' = [runs EXCEPT ![RunId(q)] = RunState(q, "FAILED")]
          \/ /\ Covers(q)
             /\ Hold(c, [q EXCEPT !.run = RunId(q)])
             /\ runs' = [runs EXCEPT ![RunId(q)] = RunState(q, "RUNNING")]

\* The other locked calls: identifiers are drawn, the connector is called.
Draws(kind) ==
    CASE kind = "discover" -> 2
      [] kind \in {"validate", "refresh"} -> 1
      [] OTHER -> 0
Begin(c, q) ==
    \/ q.kind = "execute" /\ BeginExecute(c, q)
    \/ /\ q.kind # "execute"
       /\ Hold(c, q)
       /\ session' = [session EXCEPT ![q.on].sequence = @ + Draws(q.kind)]
       /\ UNCHANGED runs

\* A call arrives.  A free lock is taken without suspending.
Ask(c, q) ==
    /\ request[c] = None
    /\ Call
    /\ Ready(q.kind, q.run)
    /\ \/ queue[q.on] = <<>> /\ Begin(c, q)
       \/ /\ queue[q.on] # <<>>
          /\ queue' = [queue EXCEPT ![q.on] = Append(@, c)]
          /\ request' = [request EXCEPT ![c] = q]
          /\ UNCHANGED <<session, runs>>
    /\ UNCHANGED <<current, target, previewed, raised>>

\* The lock is handed to the next in line.
Wake(c) ==
    /\ request[c] # None /\ ~request[c].inside
    /\ Head(queue[request[c].on]) = c
    /\ Begin(c, request[c])
    /\ UNCHANGED <<current, target, calls, previewed, raised>>

\* discover returns: everything downstream is dropped.
DiscoverReturns(c) ==
    /\ Inside(c, "discover")
    /\ \E found \in Discovered :
         session' = [session EXCEPT ![request[c].on] =
             [@ EXCEPT !.snapshot = found, !.assessment = None,
                       !.transform = None, !.wave_plan = None, !.plan = None,
                       !.receipt = None, !.validation = None]]
    /\ Leave(c, request[c].on)
    /\ UNCHANGED <<current, target, runs, calls, previewed, raised>>

\* dry_run returns a receipt for the plan it was asked for.
DryRunReturns(c) ==
    /\ Inside(c, "dry_run")
    /\ LET s == request[c].on  of == request[c].plan.of IN
       /\ session' = [session EXCEPT ![s].receipt = of]
       /\ previewed' = [previewed EXCEPT ![s] = @ \cup {of}]
       /\ Leave(c, s)
    /\ UNCHANGED <<current, target, runs, calls, raised>>

\* execute returns, with failures or without.
ExecuteReturns(c) ==
    /\ Inside(c, "execute")
    /\ LET s == request[c].on  id == request[c].run IN
       /\ \E state \in {"COMPLETED", "COMPLETED_WITH_FAILURES"} :
            runs' = [runs EXCEPT ![id] =
                [RunState(request[c], state) EXCEPT !.bundle = TRUE]]
       /\ Written(s)
       /\ session' = [session EXCEPT ![s].runs = @ \cup {id},
                                     ![s].cached = None]
       /\ Leave(c, s)
    /\ UNCHANGED <<current, calls, previewed, raised>>

RollbackKeepsCache(c) ==   \* mutant: the cached extract survives
    /\ Inside(c, "rollback")
    /\ Written(request[c].on)
    /\ Leave(c, request[c].on)
    /\ UNCHANGED <<current, session, runs, calls, previewed, raised>>
\* rollback returns, whether or not its inverse operations failed.
RollbackReturns(c) ==
    /\ Inside(c, "rollback")
    /\ Written(request[c].on)
    /\ session' = [session EXCEPT ![request[c].on].cached = None]
    /\ Leave(c, request[c].on)
    /\ UNCHANGED <<current, runs, calls, previewed, raised>>

\* validate returns: the report and the extract it was made from are kept.
ValidateReturns(c) ==
    /\ Inside(c, "validate")
    /\ LET s == request[c].on IN
       /\ session' = [session EXCEPT
            ![s].validation = [source |-> request[c].source,
                               target |-> target[Home(s)]],
            ![s].cached = target[Home(s)]]
       /\ raised' = raised \ {s}
       /\ Leave(c, s)
    /\ UNCHANGED <<current, target, runs, calls, previewed>>

\* refresh_target_snapshot returns an extract and caches it.
RefreshReturns(c) ==
    /\ Inside(c, "refresh")
    /\ LET s == request[c].on IN
       /\ session' = [session EXCEPT ![s].cached = target[Home(s)]]
       /\ raised' = raised \ {s}
       /\ Leave(c, s)
    /\ UNCHANGED <<current, target, runs, calls, previewed>>

\* The connector raises.  A run that is cut short may have written.
Raises(c) ==
    /\ request[c] # None /\ request[c].inside /\ request[c].kind # "rollback"
    /\ LET s == request[c].on IN
       /\ IF request[c].kind = "execute"
          THEN /\ Written(s)
               /\ raised' = raised \cup {s}
          ELSE UNCHANGED <<target, raised>>
       /\ LeaveRaising(c, s)
    /\ UNCHANGED <<current, session, runs, calls, previewed>>

-----------------------------------------------------------------------------
\* A caller names a run it has seen in the store, or none.
Stored == {i \in Id : runs[i] # None}
Arrive(c) ==
    \/ \E kind \in Kind \ {"execute", "rollback"} :
           Ask(c, Asked(kind, None, FALSE))
    \/ \E run \in Stored \cup {None}, resume \in BOOLEAN :
           Ask(c, Asked("execute", run, resume))
    \/ \E run \in Stored : Ask(c, Asked("rollback", run, FALSE))

Proceed(c) ==
    \/ Wake(c)
    \/ DiscoverReturns(c) \/ DryRunReturns(c) \/ ExecuteReturns(c)
    \/ RollbackReturns(c) \/ ValidateReturns(c) \/ RefreshReturns(c)
    \/ Raises(c)

Next ==
    \/ Assess \/ Map \/ PlanWaves \/ BuildPlan \/ Reset \/ Restart
    \/ \E c \in Client : Arrive(c) \/ Proceed(c)

Spec == Init /\ [][Next]_vars

\* The event loop resumes every handler whose lock or connector call is ready.
FairSpec == Spec /\ \A c \in Client : WF_vars(Proceed(c))

-----------------------------------------------------------------------------
(***************************************************************************)
(* What holds.                                                             *)
(***************************************************************************)

\* Every variable has its type; whoever is inside a session's locked block
\* is the first in its line.
TypeOK ==
    /\ current \in Session
    /\ session \in [Session -> EstateSession]
    /\ queue \in [Session -> Seq(Client)]
    /\ request \in [Client -> Request \cup {None}]
    /\ target \in [Session -> Content]
    /\ runs \in [Id -> RunRecord \cup {None}]
    /\ calls \in 0..MaxCalls
    /\ previewed \in [Session -> SUBSET Version]
    /\ raised \subseteq Session
    /\ \A c \in Client : request[c] # None =>
           LET line == queue[request[c].on] IN
           /\ c \in Range(line)
           /\ request[c].inside => Head(line) = c

\* A session never shows an assessment of another snapshot than the one it
\* holds, a mapping of another, or a plan for another estate than the one
\* planning would start from now.  (The comments in discover and map.)
DownstreamIsFresh ==
    \A s \in Session : LET x == session[s] IN
        /\ x.assessment \in {None, x.snapshot}
        /\ x.transform # None => /\ x.snapshot # None
                                 /\ x.transform = Profile[x.snapshot]
        /\ x.plan # None => x.plan.of = Effective(x)

\* A run that gets as far as writing applies a plan whose operations were
\* previewed on that session, however replans, discoveries and resets fall
\* between the preview, the request and the lock.
OnlyPreviewedPlansWritten ==
    [][\A c \in Client :
         Inside(c, "execute")' /\ ~Inside(c, "execute")
             => request'[c].plan.of \in previewed[request'[c].on]]_vars

\* A target extract the session still shows is what the target holds, once
\* nobody is writing; a run that raised is the exception, see below.
Writing(s) == \E c \in Client : /\ Inside(c, "execute") \/ Inside(c, "rollback")
                                /\ request[c].on = s
Current(s) == session[s].cached \in {None, target[Home(s)]}
CacheIsCurrent ==
    Reference => \A s \in Session : s \in raised \/ Writing(s) \/ Current(s)

\* Every request is answered, whatever waits for the lock with it and whether
\* or not the connector raises.
EveryRequestAnswered ==
    \A c \in Client : request[c] # None ~> request[c] = None

-----------------------------------------------------------------------------
(***************************************************************************)
(* What comments of the program say, and a run refutes.                    *)
(***************************************************************************)

\* build_plan: "clearing it here means the UI never shows an approval that
\* cannot be used".  A receipt that is shown covers the plan that is shown.
ReceiptCoversPlan ==
    LET x == session[current] IN
    x.receipt # None => x.plan # None /\ x.plan.of = x.receipt

\* discover: "A re-discovery invalidates everything downstream."  A validation
\* report is about the snapshot the session holds.
DiscoveryInvalidatesDownstream ==
    LET x == session[current] IN
    x.validation # None =>
        x.validation.source \in {x.snapshot, Profile[x.snapshot]}

\* build_plan: "The guardrail would catch it at apply time."  A run starts
\* with the session's plan, not with one that was replaced meanwhile.
SupersededPlanNotApplied ==
    [][\A c \in Client :
         Inside(c, "execute")' /\ ~Inside(c, "execute")
             => request'[c].plan = session[request'[c].on].plan]_vars

\* Workspace.__init__: "both the chain and the run checkpoints survive."  A
\* run whose identifier the session draws replaces no stored record.
CheckpointsSurvive ==
    [][\A s \in Session, i \in Id :
         /\ session[s].sequence < i /\ session'[s].sequence = i
         /\ runs'[i] # runs[i]
         => runs[i] = None]_vars

\* execute: "The target just changed; a cached extract of it is now a lie."
CacheIsCurrentAfterFailure ==
    Reference => \A s \in Session : Writing(s) \/ Current(s)
=============================================================================
