----------------------------- MODULE Collector -----------------------------
(***************************************************************************)
(* The collector agents and the control plane they pull work from          *)
(* (collector/agent.py), and the extraction they run                       *)
(* (Connector.extract, extract_snapshot of connectors/base.py).            *)
(*                                                                         *)
(* The control plane hands a job to the first agent that asks for it and   *)
(* has its connector.  The agent sends a heartbeat, makes its checks, reads *)
(* the source call by call, uploads the snapshot and reports.  Between any *)
(* two calls the source may be edited and the other agents run; a call of  *)
(* the source or of the control plane may fail, with or without having     *)
(* taken effect, and an agent may crash.                                   *)
(***************************************************************************)
EXTENDS Naturals, Sequences, FiniteSets, SequencesExt

CONSTANTS
  Agent,
  Job,
  Queues,          \* the queues the control plane may start with: sequences of jobs
  KindOf,          \* KindOf[j]: what job j asks for
  ConnectorOf,     \* ConnectorOf[j]: the connector it names
  WantedOf,        \* WantedOf[j]: the entity kinds it restricts to; {} for all
  LeaseEnds,       \* LeaseEnds[j]: the instant its lease expires
  Capabilities,    \* Capabilities[a]: the connectors agent a has
  AllowWrites,     \* the agents deployed with writes allowed
  Version,         \* what the sources hold, from one edit to the next
  NoJob,
  Refused,         \* what a source answers when it has no such object
  MaxTime,         \* bound: the last instant
  MaxEdits,        \* bound: edits of the sources
  MaxFaults        \* bound: failed calls and crashes

CONSTANTS
  Extractable(_),  \* the kinds a connector declares it extracts
  Script(_, _, _), \* of connector, kinds wanted and log: all calls known by now
  Answer(_, _, _), \* of connector, version and call: rows, or Refused
  TestCall(_),     \* the call test_connection makes
  Tolerated(_),    \* calls whose failure the connector survives
  Assemble(_, _, _) \* of connector, kinds wanted and log: the entities

Connectors == {ConnectorOf[j] : j \in Job}

ASSUME CollectorAssumption ==
  /\ NoJob \notin Job
  /\ Version # {}
  /\ Queues \subseteq Seq(Job)
  /\ \A q \in Queues : IsInjective(q)
  /\ MaxTime \in Nat /\ MaxEdits \in Nat /\ MaxFaults \in Nat
  /\ KindOf \in [Job -> {"DISCOVERY", "VALIDATION_READ", "CONNECTIVITY_TEST", "APPLY"}]
  /\ LeaseEnds \in [Job -> Nat]

VARIABLES
  clock,
  source,     \* source[c]: what the platform behind c holds now
  pending,    \* the jobs the control plane has yet to lease
  agent,      \* agent[a]: where a is in run_once
  snapshots,  \* snapshots[j]: what the control plane holds of j
  results,    \* the reports it has received
  edits, faults,
  leased      \* observer: the jobs it has handed out

vars == <<clock, source, pending, agent, snapshots, results, edits, faults, leased>>

----------------------------------------------------------------------------
(* An agent at rest, and where it can be.  "answering" is a report outside *)
(* the try of run_once, "reporting" the one inside it.                     *)

Idle == [pc |-> "idle", job |-> NoJob, log |-> <<>>, seen |-> {}, outcome |-> "none"]

Where ==
  {"idle", "leased", "checking", "testing", "reading", "reporting", "answering"}

Outcome == {"COMPLETED", "FAILED", "LEASE_EXPIRED"}

(* What the control plane holds of a job nobody uploaded a snapshot of. *)
NoSnapshot == [none |-> TRUE]

Init ==
  /\ clock = 0
  /\ source \in [Connectors -> {CHOOSE v \in Version : TRUE}]
  /\ pending \in Queues
  /\ agent = [a \in Agent |-> Idle]
  /\ snapshots = [j \in Job |-> NoSnapshot]
  /\ results = {}
  /\ edits = 0 /\ faults = 0
  /\ leased = {}

JobOf(a) == agent[a].job
Held(j) == \E a \in Agent : JobOf(a) = j

Connector(a) == ConnectorOf[JobOf(a)]

(* The kinds an extraction is about: those asked for, or all declared. *)
Wanted(j) ==
  IF WantedOf[j] = {} THEN Extractable(ConnectorOf[j]) ELSE WantedOf[j]

Undeclared(j) == WantedOf[j] \ Extractable(ConnectorOf[j])

Calls(a) == Script(Connector(a), Wanted(JobOf(a)), agent[a].log)

Remaining(a) == Len(agent[a].log) < Len(Calls(a))

Go(a, pc, outcome) ==
  agent' = [agent EXCEPT ![a].pc = pc, ![a].outcome = outcome]

Fault ==
  /\ faults < MaxFaults
  /\ faults' = faults + 1

----------------------------------------------------------------------------
(* The control plane's queue: the first pending job of the agent's. *)

Mine(a, j) == ConnectorOf[j] \in Capabilities[a]

\* mutant: the job stays in the queue
LeaseKeepsPending(a) ==
  /\ agent[a].pc = "idle"
  /\ \E i \in DOMAIN pending :
       /\ Mine(a, pending[i])
       /\ agent' = [agent EXCEPT ![a] = [Idle EXCEPT !.pc = "leased", !.job = pending[i]]]
       /\ leased' = leased \cup {pending[i]}
  /\ UNCHANGED <<clock, source, pending, snapshots, results, edits, faults>>

Lease(a) ==
  /\ agent[a].pc = "idle"
  /\ \E i \in DOMAIN pending :
       /\ Mine(a, pending[i])
       /\ \A k \in 1..(i - 1) : ~Mine(a, pending[k])
       /\ pending' = RemoveAt(pending, i)
       /\ agent' = [agent EXCEPT ![a] = [Idle EXCEPT !.pc = "leased", !.job = pending[i]]]
       /\ leased' = leased \cup {pending[i]}
  /\ UNCHANGED <<clock, source, snapshots, results, edits, faults>>

(* Nothing to do: run_once returns None. *)
Poll(a) ==
  /\ agent[a].pc = "idle"
  /\ \A i \in DOMAIN pending : ~Mine(a, pending[i])
  /\ UNCHANGED vars

Heartbeat(a) ==
  /\ agent[a].pc = "leased"
  /\ Go(a, "checking", "none")
  /\ UNCHANGED <<clock, source, pending, snapshots, results, edits, faults, leased>>

(* The heartbeat is outside the try: its failure leaves run_once, and the  *)
(* job with it.                                                            *)
HeartbeatFails(a) ==
  /\ agent[a].pc = "leased"
  /\ Fault
  /\ agent' = [agent EXCEPT ![a] = Idle]
  /\ UNCHANGED <<clock, source, pending, snapshots, results, edits, leased>>

Expired(j) == clock >= LeaseEnds[j]

\* mutant: an expired job is dropped without a report
DropExpired(a) ==
  /\ agent[a].pc = "checking"
  /\ Expired(JobOf(a))
  /\ agent' = [agent EXCEPT ![a] = Idle]
  /\ UNCHANGED <<clock, source, pending, snapshots, results, edits, faults, leased>>

(* The job is not put back, whatever the report says. *)
FindExpired(a) ==
  /\ agent[a].pc = "checking"
  /\ Expired(JobOf(a))
  /\ Go(a, "answering", "LEASE_EXPIRED")
  /\ UNCHANGED <<clock, source, pending, snapshots, results, edits, faults, leased>>

RefuseApply(a) ==
  /\ agent[a].pc = "checking"
  /\ ~Expired(JobOf(a))
  /\ KindOf[JobOf(a)] = "APPLY" /\ a \notin AllowWrites
  /\ Go(a, "answering", "FAILED")
  /\ UNCHANGED <<clock, source, pending, snapshots, results, edits, faults, leased>>

(* Every job but a connectivity test is an extraction, an APPLY that is    *)
(* allowed included.  extract refuses kinds its connector does not declare. *)
Start(a) ==
  /\ agent[a].pc = "checking"
  /\ ~Expired(JobOf(a))
  /\ KindOf[JobOf(a)] = "APPLY" => a \in AllowWrites
  /\ IF KindOf[JobOf(a)] = "CONNECTIVITY_TEST" THEN Go(a, "testing", "none")
     ELSE IF Undeclared(JobOf(a)) # {} THEN Go(a, "answering", "FAILED")
     ELSE Go(a, "reading", "none")
  /\ UNCHANGED <<clock, source, pending, snapshots, results, edits, faults, leased>>

----------------------------------------------------------------------------
(* test_connection catches its failures and reports them. *)

Test(a) ==
  /\ agent[a].pc = "testing"
  /\ Go(a, "reporting",
        IF Answer(Connector(a), source[Connector(a)], TestCall(Connector(a))) = Refused
        THEN "FAILED" ELSE "COMPLETED")
  /\ UNCHANGED <<clock, source, pending, snapshots, results, edits, faults, leased>>

TestFails(a) ==
  /\ agent[a].pc = "testing"
  /\ Fault
  /\ Go(a, "reporting", "FAILED")
  /\ UNCHANGED <<clock, source, pending, snapshots, results, edits, leased>>

----------------------------------------------------------------------------
(* Extraction: one call of the script at a time, never tried again. *)

Call(a) == Calls(a)[Len(agent[a].log) + 1]

Log(a, rows) ==
  agent' = [agent EXCEPT ![a].log = Append(@, [call |-> Call(a), rows |-> rows]),
                         ![a].seen = @ \cup {source[Connector(a)]}]

Read(a) ==
  /\ agent[a].pc = "reading"
  /\ Remaining(a)
  /\ LET rows == Answer(Connector(a), source[Connector(a)], Call(a))
     IN IF rows # Refused THEN Log(a, rows)
        ELSE IF Tolerated(Call(a)) THEN Log(a, <<>>)
        ELSE Go(a, "answering", "FAILED")
  /\ UNCHANGED <<clock, source, pending, snapshots, results, edits, faults, leased>>

ReadFails(a) ==
  /\ agent[a].pc = "reading"
  /\ Remaining(a)
  /\ Fault
  /\ IF Tolerated(Call(a)) THEN Log(a, <<>>) ELSE Go(a, "answering", "FAILED")
  /\ UNCHANGED <<clock, source, pending, snapshots, results, edits, leased>>

Snapshot(a) ==
  [entities |-> Assemble(Connector(a), Wanted(JobOf(a)), agent[a].log), seen |-> agent[a].seen]

Store(a) == snapshots' = [snapshots EXCEPT ![JobOf(a)] = Snapshot(a)]

Upload(a) ==
  /\ agent[a].pc = "reading"
  /\ ~Remaining(a)
  /\ Store(a)
  /\ Go(a, "reporting", "COMPLETED")
  /\ UNCHANGED <<clock, source, pending, results, edits, faults, leased>>

\* mutant: a failed upload is reported like one that arrived
UploadFailureIgnored(a) ==
  /\ agent[a].pc = "reading"
  /\ ~Remaining(a)
  /\ Fault
  /\ Store(a) \/ UNCHANGED snapshots
  /\ Go(a, "reporting", "COMPLETED")
  /\ UNCHANGED <<clock, source, pending, results, edits, leased>>

(* The upload fails before or after the control plane stored it. *)
UploadFails(a) ==
  /\ agent[a].pc = "reading"
  /\ ~Remaining(a)
  /\ Fault
  /\ Store(a) \/ UNCHANGED snapshots
  /\ Go(a, "answering", "FAILED")
  /\ UNCHANGED <<clock, source, pending, results, edits, leased>>

----------------------------------------------------------------------------
(* Reports. *)

Received(a) ==
  results' = results \cup {[job |-> JobOf(a), state |-> agent[a].outcome]}

\* mutant: the agent does not let go of the job
ReportKeepsJob(a) ==
  /\ agent[a].pc \in {"reporting", "answering"}
  /\ Received(a)
  /\ agent' = [agent EXCEPT ![a].pc = "idle"]
  /\ UNCHANGED <<clock, source, pending, snapshots, edits, faults, leased>>

Report(a) ==
  /\ agent[a].pc \in {"reporting", "answering"}
  /\ Received(a)
  /\ agent' = [agent EXCEPT ![a] = Idle]
  /\ UNCHANGED <<clock, source, pending, snapshots, edits, faults, leased>>

(* A failed report inside the try is answered by a report of the failure,  *)
(* whether or not the first one arrived; outside it, the exception leaves  *)
(* run_once.                                                               *)
ReportFails(a) ==
  /\ agent[a].pc \in {"reporting", "answering"}
  /\ Fault
  /\ Received(a) \/ UNCHANGED results
  /\ IF agent[a].pc = "reporting" THEN Go(a, "answering", "FAILED")
     ELSE agent' = [agent EXCEPT ![a] = Idle]
  /\ UNCHANGED <<clock, source, pending, snapshots, edits, leased>>

----------------------------------------------------------------------------
(* The environment. *)

(* The agent's process is restarted; nothing it held was written down. *)
Crash(a) ==
  /\ agent[a].pc # "idle"
  /\ Fault
  /\ agent' = [agent EXCEPT ![a] = Idle]
  /\ UNCHANGED <<clock, source, pending, snapshots, results, edits, leased>>

Tick ==
  /\ clock < MaxTime
  /\ clock' = clock + 1
  /\ UNCHANGED <<source, pending, agent, snapshots, results, edits, faults, leased>>

(* An administrator edits a source; the edits of one that no job reads any *)
(* more are left out.                                                      *)
Edit(c, v) ==
  /\ edits < MaxEdits
  /\ \E j \in Job : ConnectorOf[j] = c /\ (Held(j) \/ j \in ToSet(pending))
  /\ edits' = edits + 1
  /\ source[c] # v
  /\ source' = [source EXCEPT ![c] = v]
  /\ UNCHANGED <<clock, pending, agent, snapshots, results, faults, leased>>

(* run_once, once it holds a job. *)
Works(a) ==
  \/ Heartbeat(a) \/ FindExpired(a) \/ RefuseApply(a) \/ Start(a)
  \/ Test(a) \/ Read(a) \/ Upload(a) \/ Report(a)

Fails(a) ==
  \/ HeartbeatFails(a) \/ TestFails(a) \/ ReadFails(a) \/ UploadFails(a) \/ ReportFails(a)
  \/ Crash(a)

Next ==
  \/ \E a \in Agent : Lease(a) \/ Poll(a) \/ Works(a) \/ Fails(a)
  \/ Tick
  \/ \E c \in Connectors, v \in Version : Edit(c, v)

(* A run_once that holds a job goes on with it; nobody need call run_once. *)
Spec == Init /\ [][Next]_vars /\ \A a \in Agent : WF_agent(Works(a))

----------------------------------------------------------------------------
Reported(j) == \E r \in results : r.job = j

Extraction(j) == KindOf[j] # "CONNECTIVITY_TEST"

TypeOK ==
  /\ clock \in 0..MaxTime
  /\ source \in [Connectors -> Version]
  /\ pending \in Seq(Job)
  /\ DOMAIN agent = Agent
  /\ \A a \in Agent :
       /\ agent[a].pc \in Where
       /\ JobOf(a) \in Job \cup {NoJob}
       /\ agent[a].pc = "idle" <=> JobOf(a) = NoJob
       /\ agent[a].outcome \in Outcome \cup {"none"}
       /\ agent[a].pc \in {"reporting", "answering"} => agent[a].outcome \in Outcome
       /\ agent[a].seen \subseteq Version
  /\ DOMAIN snapshots = Job
  /\ results \subseteq [job : Job, state : Outcome]
  /\ edits \in 0..MaxEdits
  /\ faults \in 0..MaxFaults
  /\ leased \subseteq Job

(* A job is with the control plane or with one agent, never in two places: *)
(* two agents that ask at once must not run the same job.                  *)
OneAgentPerJob ==
  /\ IsInjective(pending)
  /\ \A a \in Agent, i \in DOMAIN pending : JobOf(a) # pending[i]
  /\ \A a, b \in Agent : a # b /\ JobOf(a) = JobOf(b) => JobOf(a) = NoJob

(* The control plane holds the snapshot of every extraction it was told    *)
(* has completed, whatever failed on the way.                              *)
CompletedHasSnapshot ==
  \A r \in results :
    r.state = "COMPLETED" /\ Extraction(r.job) => snapshots[r.job] # NoSnapshot

(* Every job handed out is reported in the end, unless a call fails or an  *)
(* agent crashes: nobody leases it again.                                  *)
LeasedJobsAreReported == <>[](faults > 0 \/ \A j \in leased : Reported(j))
=============================================================================
