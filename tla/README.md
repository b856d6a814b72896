# UC-Bridge: specifications, model checking, proofs

UC-Bridge discovers a telephony or collaboration estate, maps it to a
vendor-neutral model, plans writes for a target platform, previews and gates
them, executes them, validates the result and can undo it. This directory holds
TLA+ specifications of it, TLC configurations that check them on small
instances, and proofs TLAPS checks for every value of the constants. Source
paths below are relative to `src/src/ucm_bridge/`. `PROJECT.json` maps every
definition to the lines it stands for.

## Inventory

| Component | State it keeps | Operations | What is hard | What makes it correct |
|---|---|---|---|---|
| Execution engine (`execution/engine.py`) | none of its own; run records, audit | execute, rollback, request_pause | resuming, crashes, errors in the middle, pause requests during a run | a run recorded COMPLETED is complete; a rollback restores; a re-run is a no-op |
| Run store (`execution/store.py`) | run records, in memory or one file each | get, put, list | restart | checkpoints never move back |
| Connector base (`connectors/base.py`) | none | apply: gate, dry run, production loop; extract | throttling, lost answers, lag, failed dependencies | nothing is written whose dependencies failed; every call ends |
| Apply contracts (`connectors/contracts.py`) | plans, receipts, authorizations, reports, bundles | digests, validators, assert_covers | stale digests, when a window is looked at | only the previewed plan is written, emergency sites confirmed |
| Reference platform and connector (`connectors/reference/`) | collections, visibility counters | get, upsert, delete, page; extraction and record builders | lag; what comes back is what went in | inverse operations invert; a round trip keeps what the entities say |
| Workspace (`api/workspace.py`) | a session per estate: artefacts of each stage, lock, run ids; run store; audit log | discover, assess, map, plan_waves, build_plan, dry_run, execute, rollback, validate, refresh_target_snapshot, reset | handlers interleave at every await; values read before a lock; restart | artefacts of one session belong together; extracts shown are current |
| HTTP API (`api/app.py`, `api/scenarios.py`) | tenancy context | routes | as above | permissions, refusals reported |
| Connections (`api/connections.py`, `api/factory.py`, `vendor/readiness.py`), credentials, capabilities (`connectors/`) | profiles, secrets, manifests | build, test, readiness | three tables that must agree | an unverified or read-only connector never writes |
| Assessment (`assessment/engine.py`) | report | rules, waivers | waived blockers | a BLOCKER stays open |
| Audit log (`audit/log.py`) | hash chain in memory, a file of lines | append, verify | torn writes, restarts, edits behind its back | a log that verifies is genuine; no false alarm |
| Canonical model (`canonical/`), discovery (`discovery/service.py`) | entities, snapshots, report | merge by id, coverage | identity, partial extracts | what the report says is so |
| Collector (`collector/agent.py`) | leased job | run_once | expired leases, failed uploads and reports, several agents | one agent per job, every lease reported |
| Vendor connectors and transports (`connectors/{cucm,teams,avaya,slack,sfb,genesys}`, `vendor/`) | transport sessions | extract, preview, write, invert | a source edited during a crawl, requests accepted and lost | dangling references are explained; succeeded means held |
| Mapping (`mapping/`) | profile | rules, normalise, mint, override | order of the steps, ambiguous rules | numbers rest on one rule, shared ones are reported |
| Planner (`pipeline/planner.py`) | plan | build_apply_plan | cycles among references, three reasons to leave an entity out | dependency order, no dangling write |
| Reconciliation, validation (`pipeline/reconcile.py`, `validation/service.py`) | report | reconcile, checks | keys that fall together, partial runs | a pass means the estate is there |
| Repatriation (`repatriation/`) | port orders, reclaim plans, dial plan | transition, reclaim, transform | the order of legal steps; two ways of routing a call | a cutover is announced; calls still leave |
| Waves (`waves/planner.py`) | wave plan | plan, repair, move | groups that overlap in chains | nobody's group is split in a valid plan |
| Split target, automap, runbook, catalogue, schema tooling, user interface | none | text, suggestions | none | not modelled, see below |

How they interact: an HTTP handler calls a `Workspace` method; that takes the
session's `asyncio.Lock`, builds an `ExecutionEngine` over the session's target
connector, the shared `RunStore` and the shared `AuditLog`, and awaits it; the
engine awaits `Connector.apply`, which awaits the platform once per read or
write. Everything runs on one event loop, so state changes only between two
awaits; a crash can fall between any two of them. Collector agents are processes
of their own that pull jobs from a control plane and upload snapshots.

## Modules

| Module | Models | Uses |
|---|---|---|
| `Execution` | engine, run store, apply loop, reference platform | |
| `Rollout` | what one apply call promises, abstractly; `Execution` implements it | |
| `Workspace` | sessions, lock, handlers, reset, restart | |
| `AuditChain` | the log, its file, loading, verification | |
| `Connections` | credentials, profiles, factory, readiness | |
| `ChangeControl` | routes, authorizations, the gate of apply, roles, a clock | `Connections` |
| `Canonical` | entities, snapshots, the discovery report | |
| `CucmExtract`, `VendorExtract` | what the seven connectors read and make of it | `Canonical` |
| `Collector` | agents, queue, leases, extraction call by call, crashes | |
| `Crawl` | agents running those extractions, and the report | `Collector`, `CucmExtract`, `VendorExtract` |
| `Mapping`, `Waves`, `Planner` | the three planning algorithms | |
| `Planning` | the stages of a session that call them | `Waves`, `Planner` |
| `MemoryPBX` | reference records to entities and back | `Planner` |
| `Validation` | assessment rules, reconciliation, checks | `MemoryPBX` |
| `RoundTrip` | a migration from discovery to sign-off | `Validation` |
| `TeamsWrites` | the writing side of the Teams connector, an eventually consistent tenant | |
| `Porting` | port orders | |
| `Repatriation` | both, with reclaim plans | `TeamsWrites`, `Porting` |
| `DirectRouting` | the dial plan's way back, and how calls are routed | |
| `ExecutionProofs`, `WorkspaceProofs`, `AuditChainProofs`, `ChangeControlProofs`, `CollectorProofs`, `PlanningProofs`, `RoundTripProofs`, `RepatriationProofs` | theorems | the module each is named after; `CollectorProofs` also `Crawl`, `RepatriationProofs` also `DirectRouting` |
| `MC...` | small instances for TLC | |

### Execution, Rollout

`target` and `pending` are the platform's collections and its
`_pending_visibility` counters; `store` is the run store (`pause` and `bundle`
are fields of its records); `pc`, `run`, `from`, `op`, `tries`, `pre`, `status`,
`cursor` and `inverse` are the local variables of `execute`, `apply` and
`_run_production` at the awaits; `undo` is what a rollback has still to apply.
`Execute`, `Admit`/`Refuse`, `Block`, `Skip`, `Capture`, `Write...`,
`Confirmed`/`NotYetVisible`, `Finish` follow the loop; `Abort` is an exception
that is no guardrail violation, `Crash` the end of the process, `Rollback`,
`UndoOne`, `UndoFails`, `RollbackDone` the rollback loop. A write may be
accepted, refused (retryable or not), or accepted with its answer lost.
Operations are numbered in dependency order. Observers (`base`, `clear`,
`accepted`, `unaudited`, `last`) are read by no guard.

Abstracted: what an object holds is a value; quotas and clocks of retries are
attempt counts; the gate of `apply` is a choice (it is `ChangeControl`'s); audit
records are reduced to which writes have one. A run identifier is used with one
plan (execute refuses another one when resuming).

`Rollout`: operations are brought about or given up in an order that respects
dependencies, and the verdict owns up to what was given up.
`Execution!ImplementsRollout` maps `done` to what was completed, skipped or left
out by resuming, `failed` to what `_run_production` calls `unusable`, and the
verdict to the recorded state.

### Workspace

A handler is a request record: what it read before it asked for the lock, the
session object it holds, and whether it is inside the lock. The lock is a queue,
its head holds it, as in `asyncio.Lock`. `Assess`, `Map`, `PlanWaves`,
`BuildPlan` do not await and are one action each. The others are `Ask` (arrive,
check the stage, take a free lock or wait), `Wake`, and a return or `Raises`. An
estate version stands for a snapshot and for the digest of the plan made from
it. `Reset` replaces the session while handlers of the old one go on, `Restart`
ends the process. What a run does to its operations is left to `Execution`, what
the artefacts hold to `Planning` and `RoundTrip`.

### AuditChain

`records` is the list in memory, `file` the lines, `open` says that the last
line lacks its newline. A write may add its line, all of it but the newline, a
part, or nothing. `Start` is the constructor; it does not happen with a line
that is no record. `Damage` removes, changes or swaps lines, without rewriting
hashes, which is what the log claims to make detectable. A digest is a tagged
copy of what it is of: no two contents share one.

### Connections, ChangeControl

`Connections` has the tables and checks that say what a connector may do: which
fields a credential needs, which scope it has, whether the factory builds a
profile and how the screen shows it. `ChangeControl` has a session per estate,
each with its plan, receipt, lock and target, and one store of runs all of them
share. A plan is the set of its operations, which is also its digest; a request
keeps what its handler read before the lock and the authorization it built then,
while the clock (`Tick`), other callers and replans go on. `Gate` has the
refusals of `Connector.apply` in turn: readiness, scope, digests and emergency
sites (`AssertCovers`), the manifest's verbs, synthetic tenants. `Write`,
`SkipNoChange` and `Undo` are single operations. A `Rollback` is of any run of
the store, on the target of the session it is asked of and past every gate, as
the run is looked up by its id alone (`bundles` keeps the estate each run was
of); the target may refuse an inverse.

### Canonical, CucmExtract, VendorExtract, Collector, Crawl

An entity is what identity, references and fidelity make of it; its id is the
pair of kind and native key, which is what the UUIDv5 of the code depends on. A
connector is a script of calls and a mapper per call; `Collector` makes the
calls one by one, so that the source can be edited, a call fail, and an agent
crash between two of them. `Lease`, `Heartbeat`, the agent's checks, `Upload`
and `Report` follow `run_once`; a call of the control plane may be refused, or
take effect and lose its answer. `Crawl` gives every connector its script and
states what the discovery report tells an administrator.

What a source answers is the constant `Estate`, of connector, version and
request; a request is what reaches the source (`Request`: of a CUCM call, the
AXL operation alone, so that the extensions and the lines are read from one
list). `EstateAssumption` says what can be relied on: an answer is a finite list
of records whose set-valued fields are finite, partitions have names, and of the
CUCM objects only those of the five kinds the connector reads a partition of are
in one. `WholeEstate` says more, that what an object names is there; only what
is said of dangling references rests on it. `CucmEntity` is the table of mappers
in `_extract_batches`.

### Mapping, Waves, Planner, Planning

Pure algorithms as operators: rule evaluation, number normalisation, overrides
(`Mapping`); clusters, merging, packing, repair (`Waves`); order of kinds,
resolution of references, dependencies (`Planner`). Rules and overrides set any
field an entity has (`HasField`), ids, names, digits and numbers included,
unless the field's validator refuses the value (`Takes`). Rules come before
normalisation and collisions, overrides after both, in the order of the profile:
the last of a field stands. A wave is named by its group
and its place in it, in the order `plan_waves` numbers them, and the waves of a
plan are a function from names to users. Clusters are a list in some order: it
decides only whose id a merged cluster gets. `Grown` repeats the pass over the
clusters as often as there are clusters, where the code stops when a pass finds
nothing more; `GrownIsClosed` proves that nothing more is found by then.
`Planning` has an action per stage of a session, in any order the program lets a
person take them, with the histories the properties need (`waves_of`,
`planned_of`).

### MemoryPBX, Validation, RoundTrip

`Extracted` and `RecordOf` are the two directions of the reference connector,
each by what it does: a user's name may be there, null or absent (`ABSENT`), and
null is what is written for either; a site without a name is called, and written
back, by its code; a moment comes back as a day (`DatePart`); the other users of
a shared line and a class of restriction are read into the fidelity, not into
the entity. `RoundTrip` composes them with the planner, the assessment, and the
checks: a run is one step with any set of refused operations that is closed under
dependency, since `Execution` shows how it comes to that; on a platform without
lag a refused operation has left nothing behind. `StartValidate` reads the
snapshot, before the lock; `FinishValidate` compares it with the target there is
when the lock is had, whatever was discovered or written meanwhile, and the
report is of what was read. `Edit` is the source's administrator, who does not
wait. Two entities with one key are one in a comparison; which one, is the order
of the snapshot, here any of them.

### TeamsWrites, Porting, Repatriation

The tenant accepts requests into `pending` and works them off later, or loses
them; preview, capture, command, confirmation and inverse are single steps, as
are page reads. A call is answered, fails with a `ConnectorError`, or raises
something outside the connectors' taxonomy (`Answer`): reading licences lets the
last through (`LicenceReadEscapes`), and so do a write and the confirmation of a
licence, and the run ends where it stands, without report or inverses
(`EndsRun`). `Porting` has the order's table of transitions and
what is read off it; the numbers an order lists (`NumbersOf`) and those it only
refers to (`NumberRefsOf`) are two sets, of which readiness takes either and
coexistence routing the first. Nothing in the code ties port orders, reclaim plans and
runs together, so `Repatriation` interleaves them freely.

### DirectRouting

A voice routing configuration is transformed in one step. Policies and usages
are lists, walked through by place (`Walk`, `Places`, `Earlier`: policy, usage,
route), which is the order in which the code appends what it makes; a list or a
pattern is known by the place it was made at. Number patterns are the digits
they begin with and what `_SIMPLE_PREFIX` lets follow: nothing, `\d`, `\d*`,
`\d+`, or a bare `*` or `+`, which is a quantifier of the last digit
(`RepeatMatches`); with `$` or without. `RoutingAssumption` says no more than that
lists are lists and digits are digits. `TeamsRoute` and `CucmGateways`
say where a call goes on either side, first match there, longest match here, as
the module's docstring has it; they are external, like the tenant in
`TeamsWrites` and the source's administrator in `RoundTrip`.

## Runs

| Run | Configuration | Shows |
|---|---|---|
| `execution` | three operations in a chain, first and last on one key; 2 attempts, lag 2, durable store; fair | all safety properties of `Execution`, `EveryCallEnds`, `ImplementsRollout` |
| `workspace` | two callers, two versions, two sessions, six calls | artefacts fresh, cache current |
| `workspace_live` | two callers, five calls, fair | every request is answered |
| `audit_chain` | four records, two bodies, two edits | no false alarm, nothing forged |
| `change_control` | two callers, one without a role; two estates, three plans, four classes of target; two instants, six calls, two runs | runs write what was previewed, authorized and confirmed, by a connector that may; rollbacks undo what a run wrote so |
| `crawl` | two agents, eight queues over seven connectors, one edit, one fault; fair | one agent per job, every leased job reported, the report's statements are so |
| `planning` | five small estates, seven profiles, two kinds of target, three moves | groups whole, numbers unambiguous, plans ordered and without dangling writes |
| `round_trip` | seven source estates, one edit, two runs with any failures, one validation waiting | a pass means that what is compared came over; a completed run of plain records passes |
| `repatriation` | two users, one on the second page, two plans, one request in flight, two runs, one port order that lists one number and refers to another | succeeded means held, previewed plans run through, cutovers announced |
| `direct_routing` | two policies, usages, routes, gateways; 81 pairs of patterns | calls still leave, and by gateways meant for them |
| `resume_skips_only_completed`, `rollback_releases` | as their configuration says | one divergence each, see below |

Bounds and why they are enough. *Execution*: three operations are the fewest
with a dependency two steps away and a key written twice; two attempts tell a
retry from giving up; a lag of two makes a read miss a write once. Several runs,
and a volatile store, are covered by the proofs, which hold for any set of runs
and either kind of store. *Workspace*: six calls reach discover, plan, dry run,
execute, extract, rollback, and every interleaving of two callers on the way; a
second session is a reset or a restart. *AuditChain*: four records allow an
edit, a restart, and appends after it. *ChangeControl*: six calls are a plan and
a dry run on each of two estates, an execution on one and its rollback on the
other, or a plan, a dry run, a replan, two executions and a rollback; two
instants are before and within a window (`WritesWithinWindow`, which is refuted,
needs a third, `MaxTime = 2`, and the window `<<0, 1>>`). *Crawl*: one edit
between any two calls is what makes a reference dangle; one fault at every place
where a call can fail. *Planning*: the estates are made so that groups form a
chain of three that one pass does not close, rules overlap, extensions collide,
and references form a cycle; profiles override a number after collisions were
looked for, digits, a name and an id; three moves take a user out of a wave,
back, and into one that is not there. *RoundTrip*: two runs are a partial one
and its completion, or one of each of two versions; one validation may wait
while the session discovers or runs; the estates are a whole one, one edited,
one of dangling names, one of coinciding keys, one with an ELIN adrift, one with
a shared line and a null name, one whose records are not read back as they were,
and an edit leads to three of them (`EditedTo`). *Repatriation*: one request in
flight suffices for each kind of operation to be read too early; two runs are a
move and its reversal. *DirectRouting*: two of everything, so that order,
sharing and loss can differ. All bounds stand in guards (`MaxCalls`,
`MaxSessions`, `MaxRecords`, `MaxDamages`, `MaxTime`, `MaxEdits`, `MaxFaults`,
`MaxMoves`, `MaxRuns`, `MaxPending`, `MaxAmendments`, `MaxWaiting`) and never in
what a handler decides; `MaxAttempts` and `ReplicationDelay` are the program's
own parameters. Deadlock is checked where a bound does not simply end the
behaviour.

Fairness. `Execution!FairSpec`: a coroutine that was started is run on (weak
fairness of the apply and of the rollback loop); nobody has to call.
`Workspace!FairSpec`: the event loop resumes a handler whose lock was handed to
it, and the connector's call returns or raises. `Collector!Spec`: an agent that
has not crashed goes on with the job it holds (weak fairness of its next step);
nothing makes it ask for another. None of them assumes success.

Every property of a passing run has a mutant in `PROJECT.json`: an operator,
marked `mutant` in the module, that breaks the code the way a slip would.
`Workspace!OnlyPreviewedPlansWritten` is proved and in no run; the runs have its
sharper form, `ChangeControl!WrittenAsPreviewed`.

## Proofs

`ExecutionProofs` (for every plan, key set, set of runs, store, number of
attempts and lag):

- `TypeCorrect`: `TypeInv` adds to `TypeOK` that the loop is at an operation
  whenever the preview found a difference.
- `DependenciesAlwaysInPlace`: rests on `Control` (what is still to come has no
  status) and `Written` (what was accepted has a result, or is in progress), and
  on dependencies having smaller numbers (`PlanAssumption`).
- `CompletedIsComplete`: by `InPlaceSoFar`, the last of the operations passed on
  each key is what the target holds while none of them failed.
- `RerunIsNoOp`: by `Unchanged`, while nothing has to change the target is the
  base and the preview finds no difference, which needs every object readable.
- `RollbackIsExact`: by `Undoable`, the earliest inverse operation of an object
  restores its base; the bundle is the reverse; so the last one applied wins.
  The theorem is not inductive on its own: objects with an unconfirmed write
  must be left out as the run goes, not only at its end.
- `CheckpointNeverMovesBack`: by `CheckpointKept`, while a call is under way the
  store still holds the checkpoint it resumed from, and its cursor, once set, is
  past that; only `Finish`, `Refuse` and a crash put a record.
- `EngineImplementsRollout`: `RefinementInv` adds to the above that a call in
  progress has no verdict and that a dry run passes every operation. A recorded
  result is a `Complete` or a `GiveUp`, the end a `Conclude`, an exception or a
  crash an `Abandon`, and everything else a stutter.

`AuditChainProofs` (for any number of records and edits):

- `NoFalseAlarm`: while nothing went wrong the file verifies, is finished and
  equals memory.
- `NothingForged`: by `Origin`, every line is a record `append` made but for
  what it says; if it hashes to what it says, it says what it said. Rests on
  digests being collision-free.

`CollectorProofs` (for any agents, jobs, queue, edits, failed calls, crashes):

- `CollectorTypes`: the shape of what an agent holds, whatever its log.
- `JobsAreExclusive`: inductive as it stands, given that a queue names no job
  twice and that taking one out of it keeps it so (`RemoveAtLemma`).
- `CompletedIsUploaded`: not inductive; `Uploaded` says the same of the report an
  agent is about to send, and `Honest` that only a connectivity test gets there
  without an upload. The connectors' scripts and answers stay arbitrary, so it
  holds of every connector, not only of those in `Crawl`.
- `SnapshotsAreCrawls`: `LogInv`, inductive together with the above: the log of
  an agent at work is a `CrawlLog` (entry by entry the call the script asked for
  after the entries before, answered in a version seen or refused and
  tolerated), and every snapshot stored is the assembly of a finished one. It
  too holds of every connector.
- `UnusedPartitionsCanBeDropped`, `CollapsedExtensionsAreTold`,
  `OrphansAreMismatches`: the three statements of the discovery report, for any
  estate, any number of rows, and each of the seven connectors. The hypothesis
  `TheConnectors` says that the parameters of `Collector` are the operators of
  `Crawl`, as `MCCrawl.cfg` has them; the third also takes `WholeEstate`, which
  `MCCrawl` asserts of its estates. A quiet crawl saw one version (`OneVersion`), so
  every entry answers in it (`QuietCrawl`), and the log of a fixed script is
  that script (`FixedScript`; Aura's calls follow from the stations it lists,
  `AuraLog`). What is flattened is then unfolded: `FlattenUnfolds` gives each
  element the place it comes from, from `FlattenSeq`'s own definition. For CUCM
  every entity comes from one row and every kept row has its entity
  (`CucmEntitiesPlaced`). A row in a partition makes an entity that refers to it,
  in the same call or, for numbers that are no extension, in that of the lines
  (`NamingCall`); two extensions that collapse come from two rows, hence two
  lines (`CucmCollapses`); in a whole estate a reference leads to a row that is
  kept, hence to an entity, with three exceptions (`CucmRefs`), and a linked
  owner is a user collected (`CucmOwners`). For the other six each crawl `Holds`
  a set of entities given by its rows (`SlackHolds`, `TeamsHolds`, ...), whose
  references are explained row by row; of them only Aura has extensions
  (`StationsRows`). `Told` puts the seven together.

`WorkspaceProofs` (for any callers, estates, profile, sessions and calls):

- `TypesAndLocks`: `TypeOK`, which says that a lock's line is the requests on
  its session, each once. Sequences and numbers of records are bounded by calls,
  so the invariant also counts: a request that waits has two run identifiers
  still to draw, one that is not answered one change of its platform still to
  make (`Accounts`).
- `DownstreamStaysFresh`: assessment, mapping and plan of a session are of its
  snapshot; each stage reads the session it writes to in one step.
- `CacheStaysCurrent`: where sessions own their platform, only the request in
  the lock changes it, and it refreshes the extract before it leaves.
- `OnlyPreviewedPlansAreWritten`: receipts, also those of requests that outlived
  what they read, are of plans previewed on that session (`Sound`, `Receipts`).

`ChangeControlProofs` (for any clients, roles, plans, windows, targets and
profiles), from one invariant over what requests carry, `Inv`:

- `RunsWriteWhatWasPreviewed`: the authorization a request carries was valid
  when it was built, for the receipt of a dry run that took place; whoever
  replans meanwhile, the gate compares it with the plan the request carries.
- `EmergencyWritesAreConfirmed`: a request in the lock passed the gate, hence
  every emergency site of what it has still to write is confirmed.
- `EveryChangeRestsOnEvidence`: a run's target was of a class the gate lets
  through and its authorization valid when it was built; a bundle of the shared
  store holds only what a run wrote on the estate it names, hence what a rollback
  undoes, on whichever estate, a run wrote so. It says nothing of the target the
  rollback undoes it on (`RollbacksOnReadyTargets` is refuted).
- `WhatOpensWasOffered`: the factory's branches and the screen agree, by cases
  over transports and platforms.
- `TypesHold`: the type invariant.

`PlanningProofs` (for every estate, scenario, profile and sequence of stages).
What a session holds is what the stage made of the stages before
(`PlanOfItsInputs`, `MappingOfItsSnapshot`, `Stages`, `WavesOfTheirEstate`, each
inductive); the rest are lemmas about the operators.

- `PlanOfItsInputsTheorem`: the plan held is the one of the inputs recorded with
  it.
- `DependenciesTheorem`, `NoDanglingWritesTheorem`: as long as ids name one kind
  and key each (`IdsAreNames`, which `Crawl` shows to fail only where an
  extension's partitions collapse, and `IdsAreForever` where a profile sets
  ids). The first is what `PlanAssumption` of
  `Execution` takes for granted: a plan can be numbered so that dependencies
  come first.
- `SharedNumbersTheorem`: of any rules, and any overrides but those that set an
  extension's number (`CleanMappingsShareNoNumber` is refuted by one). What an
  extension becomes is a function of the digits and the site the rules gave it,
  mapping keeps the places of entities, and derived keys are different for
  different numbers.
- `OneRuleTheorem`: as long as an id names one entity. A number is given only
  where `Candidates` has one member (`OneRuleApplies`).
- `WavesTheorem`: as long as users have names of their own. `merge_clusters`
  repeats a pass: by induction over the passes a cluster is closed or has met
  more clusters than there were passes, so that it is closed in the end
  (`GrownIsClosed`) and as small as possible (`GrownIsLeast`), whence the merged
  clusters are disjoint (`LaterIsApart`) and cover all (`EveryClusterIsInAFirst`).
  `_repair` treats them one by one: since they are disjoint, pulling one together
  does not split those before it (`RepairedIs`). A valid verdict means the same
  of waves people have changed (`ValidMeansTogether`).
- `NamesTheorem`: the three hypotheses above hold in every state if discovery
  found no id and no user's name twice (`KeyedSnapshots`) and no profile sets ids
  or users' names (`ProfilesKeepNames`); whatever else it sets.
- `PlanningTypes`: the type invariant, on such estates and profiles.

`RoundTripProofs` (for any estates, edits, runs and sets of failures):

- `PassMeansCarriedOver`: the target keeps its records under their natural keys,
  so every one of its entities stands for itself; with no difference and no kind
  short, by counting, every one of the source does too. The source is the one
  whose snapshot the validation read, the target the one it found, and carried
  over is what the connector reads of a record (`Extracted`): for what it leaves
  out, `PassedMeansAll` is refuted.
- `ACompletedRunPasses`: without unresolved references, an operation becomes a
  record that is read as saying and naming what its entity does, and nothing else
  changes under the keys of the plan. That holds of records as `IsPlain` has
  them: what is written of such a record reads the same
  (`CompletedRunsPassAnyway` is refuted by others).
- `RoundTripTypes`: the type invariant.

`RepatriationProofs` (for any number of orders, numbers, users, plans, edits):

- `PortingTheorem`: the type of the records and `CutoverIsDualHomed`. The
  property is not inductive: it speaks of numbers; `FlagFollowsCutover` says for
  each record which states need the flag and which forbid it.
- `RepatriationDualHomed`: the same for the composition, since no step of the
  tenant's or of a reclaim plan touches an order.
- `ConnectorErrorsEndNoRun`, `ReportsAreTrue`: `PreviewedPlansRunThrough`, which
  is about `ConnectorError`s and none of the exceptions outside that taxonomy,
  and `SucceededIsHeld`, although the tenant loses and delays what it accepted.
  Inductive is that a run that started with nothing under way has only its own
  requests ahead of it (`OwnRequests`), so that what it confirmed is written over
  by its own operations on the same number only (`OwnResults`).
- `RepatriationTypes`: the type invariant.
- `RepatriatedCallsLeave`: `DirectRouting!CallsStillLeave`, for any policies,
  usages, routes, gateways, patterns and numbers. Places are triples of numbers,
  so the least of a set of them exists, which is what Teams takes, and the
  greatest of a finite set, which is what the last entity of an id is
  (`FirstPlace`, `LastPlace`). It speaks of numbers that are the digits of the
  pattern Teams found or, where a tail follows, begin with them and go on
  (`Within`; `PrefixesStayOpen` and `RepeatedDigitsLeave` are refuted by
  others). A pattern that was translated matches, within
  what it was written for, whatever its regular expression does
  (`MatchingTranslates`); the longest that matches is some route's, whose list,
  where names differ, has the gateways of that route (`GatewaysAre`).

Assumptions are the named `ASSUME`s of the modules; TLC evaluates them on every
run. Besides the types of constants they say: dependencies have smaller numbers
(`PlanAssumption`, proved of the planner's plans); plans are sequences of the
connector's operations (`PlansAreOperations`); `None` is nothing else; ids that
mapping mints are never read (`mint_canonical_id` gives them an instance and a
source of their own), and sites and departments are numbers of their sort order
(`PlanningAssumption`); a reference platform keeps one record per key, and the
connector's key of an entity is its natural key (`RoundTripAssumption`); answers
of a source and configurations of a tenant are finite lists (`EstateAssumption`,
`RoutingAssumption`). What
the code does not guarantee, such as ids that name one entity, is a hypothesis of
the theorem and not an assumption of the module.

What is defined by recursion is a recursive function over `Nat`, so that its
equations can be proved: `Iteration` says that a step of a set into itself can
be repeated, `GrowthRuns` and `RepairRuns` that the function in the definition
is that repetition, and `NatMin`, `NatAll` are induction stated of a set of
numbers, since the library's induction takes a predicate.

The provers know nothing of `SelectSeq`, `SortSeq` and the recursion in
`FlattenSeq`. Skipped rows are therefore concatenations of empty and one-element
lists (`When`, `MappedWhen`), which `FlattenSeq`'s function of numbers can be
unfolded on (`FlatteningExists`, `Unfolds`, by induction over the places), and
routes are chosen by place.

Model-checked only: liveness (`EveryCallEnds`, `EveryRequestAnswered`,
`LeasedJobsAreReported`), out of the prover's reach under fairness. Every other
property of a passing run is stated by a theorem.

## Divergences

Where a comment or docstring says more than the code does. With a run:

- `ResumeSkipsOnlyCompleted`: resuming leaves out operations that failed before
  the last success.
- `RollbackReleases`: the Teams connector's `_command_for` does not look at the
  verb, so the inverse of an assignment assigns once more, and the rollback
  reports ROLLED_BACK.

Stated in the modules, and refuted by TLC when the name is put into the
configuration named:

| Property | Configuration | What happens |
|---|---|---|
| `ProgressIsDurable` | `MCExecution` | checkpoints are stored at the start and the end only |
| `DependenciesSucceededFirst` | `MCExecution` | a resumed run forgets what was unusable in the attempt before |
| `BundleCoversWrites` | `MCExecution` | accepted but unconfirmed writes are in no bundle |
| `ResumeKeepsBundle` | `MCExecution` | resuming a finished run discards the bundle of its first attempt |
| `PauseStopsTheRun` | `MCExecution` | nobody looks at a pause request |
| `RollbackIsRecorded` | `MCExecution` | a rolled-back run stays COMPLETED |
| `WritesAreAudited` | `MCExecution` | writes of an attempt that was cut short are in no audit record |
| `RollbackRestoresUnderLag` | `MCExecution` | a pre-state captured too early makes the inverse a deletion |
| `SupersededPlanNotApplied` | `MCWorkspace` | a waiting execution applies the plan it read |
| `ReceiptCoversPlan` | `MCWorkspace` | a dry run that returns late leaves a receipt of another plan |
| `DiscoveryInvalidatesDownstream` | `MCWorkspace` | a validation that waited is of the snapshot before |
| `CheckpointsSurvive` | `MCWorkspace` | run identifiers are drawn again after a restart |
| `CacheIsCurrentAfterFailure` | `MCWorkspace` | a run that raises leaves the cached extract |
| `LogCanBeReadAgain` | `MCAuditChain` | a torn line stops the next start |
| `DeletionIsFound` | `MCAuditChain` | a log without its last records verifies |
| `WritesWithinWindow` | `MCChangeControl`, with `MaxTime = 2` and the window `<<0, 1>>` | the window is looked at when the authorization is built, not when it is used |
| `RollbacksOnReadyTargets` | `MCChangeControl` | a rollback takes a run of another estate and writes its inverses to a target nobody verified |
| `ScreenPromisesOnlyWhatOpens` | `MCChangeControl` | `TRANSPORT_SUPPORT` offers transports (Teams and Aura by REST) the factory does not build |
| `ConfirmationsAreExplicit` | `MCChangeControl` | `confirmed_sites` left out confirms every site |
| `ReleasedAfterPort` | `MCRepatriation` | a reclaim plan is made without regard to port orders |
| `ReclaimPlansAreExecutable` | `MCRepatriation` | its operations name neither user nor SKU |
| `OnlyCutoversInFlight` | `MCRepatriation` | a cutover the carrier rejects leaves the dual-homed flag set |
| `SubmittedOrdersAreReady` | `MCRepatriation` | `transition` asks neither `assess_readiness` nor for a confirmed FOC |
| `WrittenIsReported` | `MCRepatriation` | an exception that is no `ConnectorError` leaves `apply` after writes: no report, no inverses |
| `PortedNumbersInFlight` | `MCRepatriation` | an order that only refers to its numbers is ready and cut over, and announces none of them |
| `PlansRestOnCleanMappings` | `MCPlanning` | `build_plan` does not look at `is_clean`, as `mapping/profile.py` says the planner does |
| `CleanMappingsWriteNumbersOnce` | `MCPlanning` | extensions with equal digits in two partitions of a site share a derived number, unreported, and one operation is lost; a derived number may equal one that was read |
| `CleanMappingsShareNoNumber` | `MCPlanning` | an override sets `e164_ref` after collisions were looked for, and the mapping is clean |
| `IdsAreForever` | `MCPlanning` | a rule or an override may set `canonical_id`, and what refers to the object does not follow |
| `WavesFitTheEstate` | `MCPlanning` | `map` keeps the wave plan of the estate before |
| `ValidPlansHaveEveryone` | `MCPlanning` | a move to a wave that is not there drops the user from a plan that stays valid |
| `PassedMeansEqual` | `MCRoundTrip` | two references that both lead nowhere compare equal |
| `PassedMeansAll` | `MCRoundTrip` | the other users of a shared line and a class of restriction are not compared, as `tests/test_reference_roundtrip.py:263` says |
| `CompletedRunsPassAnyway` | `MCRoundTrip` | an absent name comes back null, a missing site name as its code, a moment as a day: a run in which nothing failed does not validate |
| `ReportIsOfTheLastDiscovery` | `MCRoundTrip` | a validation that waited reports on the snapshot before |
| `ReadyMeansSafe` | `MCRoundTrip` | EMG-001 leaves ELINs and dangling locations out, VAL-003 does not |
| `EntitlementsAreKept` | `MCDirectRouting` | every permission covers the one partition: who could not call a number can, and it is not among what the module declares as lost |
| `PrefixesStayOpen` | `MCDirectRouting` | `^\+49` matches every German number in Teams and becomes a pattern for the one number `+49`, reported as translatable |
| `RepeatedDigitsLeave` | `MCDirectRouting` | `^\+12*` matches every number with `+1` in Teams and becomes `\+12!`, reported as translatable |
| `CallsStillLeaveWhateverTheNames` | `MCDirectRouting` | names equal after `_slug` share one canonical id, the last wins |

Met while modelling, without a property:

- Approvals: the approvers may include the requester (`two_person_rule_satisfied`
  has no caller). A rollback passes no gate, and the authorization of any plan of
  the session does. A failed inverse is audited as OBJECT_WRITTEN.
- `require_tenant` and `scoped` have no caller; the vault provider is registered
  nowhere.
- Collector: no job "returns to the queue"; an APPLY job runs as an extraction
  and is reported COMPLETED. The Sidecar PowerShell bridge is not implemented.
- Extraction: comments about the order of extraction do not hold; entities with
  dangling references count as LOSSLESS; `rest.paginate` has no caller, so REST
  connectors read first pages; Genesys declares `RoutingStrategy` and never
  produces it; membership in CUCM pickup groups and the hunt list are lost; SfB
  users in TEAMS_ONLY mode are only warned about.
- Teams: a `VoiceRoutingPolicy` operation always finds a change and is never
  inverted; an assignment does not depend on the licence it needs.
- Waves: `wave_id` only labels a plan; `_repair` ignores `max_wave_size`; a
  HuntGroup never joins a cluster, since it names line groups.
- Mapping: overrides of minted numbers are reported as orphans, and overrides of
  site, digits or owner come after the number was derived.
- Assessment blockers stop nothing in `build_plan`. Excluded kinds count as
  present on the target, whether they are or not.

## Not modelled

- `pipeline/split_target.py`: no other module uses it; it sends each entity to
  the first target, by preference, that declares its kind appliable, and what it
  promises is what its one loop says.
- `mapping/automap.py`: suggestions by string similarity, for people to accept.
- Runbook, catalogue, schema tooling, schemas, user interface, deployment: text
  and data without decisions that could go wrong over time.
- The remaining assessment rules (devices, call flows, endpoints, extensions):
  each lists entities by one attribute. The checks VAL-005 to VAL-008 have
  nothing to check on the reference platform.
- Descriptive attributes of vendor records, wire formats, HTTP sessions, the
  wording of manifests, warnings and reports; field validators of the canonical
  classes; the evidence pack and searches of the audit log; coexistence
  requirements of waves; `audit_export_limits` (`repatriation/reclaim.py`), which
  lists what an export would lose.

## What is left

- The liveness properties, for every value of the constants.
- That an extraction restricted to some kinds (`WantedOf` not empty) reports
  rightly: its references lead to kinds nobody asked for, so that the three
  statements about the report are made of full crawls only.
- A crawl that saw two versions. What its report says is true of no single one
  of them; TLC shows such crawls, and no property is about them.
- `Crawl` and `Planning` are not composed: that ids name one entity, a
  hypothesis in `PlanningProofs`, fails of a crawl where extensions collapse,
  which `CollapsedExtensionsAreTold` says the report tells.
