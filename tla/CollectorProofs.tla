-------------------------- MODULE CollectorProofs --------------------------
(***************************************************************************)
(* The collector agents, for any number of agents and jobs, any queue, any *)
(* edits of the sources, any failed calls and crashes: a job is never in   *)
(* two places, and a completed extraction has its snapshot.                *)
(*                                                                         *)
(* That the report a control plane receives can be believed is not         *)
(* inductive: it must be known of the report an agent is about to send.    *)
(* Only two ways lead to a report of completion: the upload that arrived,  *)
(* and the connectivity test, which is asked for by no other kind of job.  *)
(*                                                                         *)
(* Then the crawls, for any estate. LogInv adds that the log of an agent   *)
(* follows the script of its connector, so that a snapshot is the assembly *)
(* of a finished log. When the crawl was quiet every entry answers in one  *)
(* version, and the entities are those of that version: each connector has *)
(* a lemma that says which. What the report then says of the estate, its   *)
(* orphans, its duplicate numbers, its unused partitions, is true of it.   *)
(***************************************************************************)
EXTENDS Crawl, SequenceTheorems, FiniteSetTheorems, NaturalsInduction, WellFoundedInduction,
        TLAPS

(* What an agent holds is a record with these fields, whatever its log. *)
AgentShape(r) ==
  /\ r = [pc |-> r.pc, job |-> r.job, log |-> r.log, seen |-> r.seen, outcome |-> r.outcome]
  /\ r.pc \in Where
  /\ r.job \in Job \cup {NoJob}
  /\ r.pc = "idle" <=> r.job = NoJob
  /\ r.outcome \in Outcome \cup {"none"}
  /\ r.pc \in {"reporting", "answering"} => r.outcome \in Outcome
  /\ r.seen \subseteq Version

Shape ==
  /\ clock \in 0..MaxTime
  /\ source \in [Connectors -> Version]
  /\ pending \in Seq(Job)
  /\ agent = [a \in Agent |-> agent[a]]
  /\ \A a \in Agent : AgentShape(agent[a])
  /\ snapshots = [j \in Job |-> snapshots[j]]
  /\ results \subseteq [job : Job, state : Outcome]
  /\ edits \in 0..MaxEdits
  /\ faults \in 0..MaxFaults
  /\ leased \subseteq Job

(* An agent about to report an extraction completed has uploaded it. *)
Uploaded(a) ==
  agent[a].pc \in {"reporting", "answering"} /\ agent[a].outcome = "COMPLETED"
    /\ Extraction(JobOf(a)) => snapshots[JobOf(a)] # NoSnapshot

Honest(a) ==
  /\ Uploaded(a)
  /\ agent[a].pc = "testing" => ~Extraction(JobOf(a))

Inv ==
  /\ Shape
  /\ OneAgentPerJob
  /\ \A a \in Agent : Honest(a)
  /\ CompletedHasSnapshot

----------------------------------------------------------------------------
(* Taking one job out of the queue. *)

LEMMA RemoveAtLemma ==
  ASSUME NEW s \in Seq(Job), NEW i \in DOMAIN s, IsInjective(s)
  PROVE  /\ RemoveAt(s, i) \in Seq(Job)
         /\ IsInjective(RemoveAt(s, i))
         /\ \A k \in DOMAIN RemoveAt(s, i) :
              \E l \in DOMAIN s : l # i /\ RemoveAt(s, i)[k] = s[l]
<1>. DEFINE t == RemoveAt(s, i)
            Old(k) == IF k < i THEN k ELSE k + 1
<1>1. /\ i \in 1..Len(s) /\ Len(s) \in Nat
      /\ DOMAIN s = 1..Len(s)
  OBVIOUS
<1>2. /\ SubSeq(s, 1, i - 1) \in Seq(Job)
      /\ Len(SubSeq(s, 1, i - 1)) = i - 1
      /\ \A k \in 1..(i - 1) : SubSeq(s, 1, i - 1)[k] = s[k]
  BY <1>1
<1>3. /\ SubSeq(s, i + 1, Len(s)) \in Seq(Job)
      /\ Len(SubSeq(s, i + 1, Len(s))) = Len(s) - i
      /\ \A k \in 1..(Len(s) - i) : SubSeq(s, i + 1, Len(s))[k] = s[i + k]
  BY <1>1
<1>4. /\ t \in Seq(Job)
      /\ DOMAIN t = 1..(Len(s) - 1)
      /\ \A k \in 1..(Len(s) - 1) : t[k] = s[Old(k)]
  <2>. DEFINE x == SubSeq(s, 1, i - 1)
              y == SubSeq(s, i + 1, Len(s))
  <2>1. t = x \o y
    BY DEF RemoveAt
  <2>2. /\ x \in Seq(Job) /\ Len(x) = i - 1
        /\ y \in Seq(Job) /\ Len(y) = Len(s) - i
    BY <1>2, <1>3
  <2>. HIDE DEF x, y, t
  <2>3. /\ t \in Seq(Job)
        /\ Len(t) = Len(s) - 1
        /\ \A k \in 1..(Len(s) - 1) :
             t[k] = IF k <= i - 1 THEN x[k] ELSE y[k - (i - 1)]
    <3>1. x \o y \in Seq(Job) /\ Len(x \o y) = Len(x) + Len(y)
      BY <2>2, ConcatProperties
    <3>2. \A k \in 1..(Len(x) + Len(y)) :
            (x \o y)[k] = IF k <= Len(x) THEN x[k] ELSE y[k - Len(x)]
      BY <2>2, ConcatProperties
    <3>. QED  BY <1>1, <2>1, <2>2, <3>1, <3>2
  <2>4. ASSUME NEW k \in 1..(Len(s) - 1)
        PROVE  t[k] = s[Old(k)]
    <3>1. CASE k < i
      <4>1. x[k] = s[k]
        BY <1>1, <1>2, <3>1 DEF x
      <4>. QED  BY <1>1, <2>3, <3>1, <4>1
    <3>2. CASE ~(k < i)
      <4>. DEFINE l == k - (i - 1)
      <4>1. l \in 1..(Len(s) - i) /\ i + l = k + 1
        BY <1>1, <3>2
      <4>2. y[l] = s[i + l]
        BY <1>3, <4>1 DEF y
      <4>. QED  BY <1>1, <2>3, <3>2, <4>1, <4>2
    <3>. QED  BY <3>1, <3>2
  <2>. QED  BY <2>3, <2>4
<1>5. \A k \in 1..(Len(s) - 1) : Old(k) \in DOMAIN s /\ Old(k) # i
  BY <1>1
<1>6. \A k, l \in 1..(Len(s) - 1) : Old(k) = Old(l) => k = l
  BY <1>1
<1>7. IsInjective(t)
  BY <1>4, <1>5, <1>6 DEF IsInjective
<1>. QED  BY <1>4, <1>5, <1>7

LEMMA InitInv == Init => Inv
<1>. SUFFICES ASSUME Init PROVE Inv
  OBVIOUS
<1>. USE CollectorAssumption DEF Init
<1>1. \A a \in Agent : agent[a] = Idle
  OBVIOUS
<1>2. AgentShape(Idle)
  BY DEF AgentShape, Idle, Where, Outcome
<1>3. source \in [Connectors -> Version]
  OBVIOUS
<1>4. Shape
  BY <1>1, <1>2, <1>3 DEF Shape
<1>5. OneAgentPerJob
  BY <1>1 DEF OneAgentPerJob, JobOf, Idle
<1>6. \A a \in Agent : Honest(a)
  BY <1>1 DEF Honest, Uploaded, Idle
<1>7. CompletedHasSnapshot
  BY DEF CompletedHasSnapshot
<1>. QED  BY <1>4, <1>5, <1>6, <1>7 DEF Inv

----------------------------------------------------------------------------
(* Most steps move one agent and let go of nothing but its own job: the    *)
(* queue and the other agents stay as they are.                            *)

LEMMA MoveLemma ==
  ASSUME Inv, NEW a \in Agent, NEW r,
         AgentShape(r), r.job \in {agent[a].job, NoJob},
         agent' = [agent EXCEPT ![a] = r],
         UNCHANGED <<clock, source, pending, edits, leased>>,
         faults' \in 0..MaxFaults,
         \/ UNCHANGED snapshots
         \/ \E e : /\ e # NoSnapshot
                   /\ JobOf(a) \in Job
                   /\ snapshots' = [snapshots EXCEPT ![JobOf(a)] = e],
         \/ UNCHANGED results
         \/ agent[a].pc \in {"reporting", "answering"} /\ Received(a),
         r.pc \in {"reporting", "answering"} /\ r.outcome = "COMPLETED"
           /\ Extraction(r.job) => snapshots'[r.job] # NoSnapshot,
         r.pc = "testing" => ~Extraction(r.job)
  PROVE  Inv'
<1>. USE DEF Inv
<1>1. /\ agent'[a] = r
      /\ \A b \in Agent : b # a => agent'[b] = agent[b]
      /\ agent' = [b \in Agent |-> agent'[b]]
  BY DEF Shape
<1>2. /\ snapshots' = [j \in Job |-> snapshots'[j]]
      /\ \A j \in Job : snapshots[j] # NoSnapshot => snapshots'[j] # NoSnapshot
  BY DEF Shape
<1>3. agent[a].pc \in {"reporting", "answering"} =>
        /\ agent[a].job \in Job
        /\ agent[a].outcome \in Outcome
  BY DEF Shape, AgentShape
<1>4. results' \subseteq [job : Job, state : Outcome]
  BY <1>3 DEF Shape, Received, JobOf
<1>5. Shape'
  BY <1>1, <1>2, <1>4 DEF Shape, AgentShape
<1>6. OneAgentPerJob'
  <2>1. \A b \in Agent : agent'[b].job \in {agent[b].job, NoJob}
    BY <1>1
  <2>2. \A i \in DOMAIN pending : pending[i] # NoJob
    BY CollectorAssumption DEF Shape
  <2>. QED  BY <2>1, <2>2 DEF OneAgentPerJob, JobOf
<1>7. \A b \in Agent : Honest(b)'
  <2>1. Honest(a)'
    BY <1>1 DEF Honest, Uploaded, JobOf
  <2>2. ASSUME NEW b \in Agent, b # a
        PROVE  Honest(b)'
    <3>1. agent[b].pc \in {"reporting", "answering"} => agent[b].job \in Job
      BY DEF Shape, AgentShape
    <3>. QED  BY <1>1, <1>2, <2>2, <3>1 DEF Honest, Uploaded, JobOf
  <2>. QED  BY <2>1, <2>2
<1>8. CompletedHasSnapshot'
  <2>. SUFFICES ASSUME NEW q \in results', q.state = "COMPLETED", Extraction(q.job)
                PROVE  snapshots'[q.job] # NoSnapshot
    BY DEF CompletedHasSnapshot
  <2>1. CASE q \in results
    BY <2>1, <1>2 DEF CompletedHasSnapshot, Shape
  <2>2. CASE q \notin results
    <3>1. /\ agent[a].pc \in {"reporting", "answering"}
          /\ q = [job |-> JobOf(a), state |-> agent[a].outcome]
      BY <2>2 DEF Received
    <3>2. snapshots[JobOf(a)] # NoSnapshot
      BY <3>1 DEF Honest, Uploaded
    <3>. QED  BY <3>1, <3>2, <1>2, <1>3 DEF JobOf
  <2>. QED  BY <2>1, <2>2
<1>. QED  BY <1>5, <1>6, <1>7, <1>8

\* The records an agent can hold, with one of the given logs.
Records(L) ==
  [pc : Where, job : Job \cup {NoJob}, log : L,
   seen : SUBSET Version, outcome : Outcome \cup {"none"}]

LEMMA EqualRecords ==
  ASSUME NEW L, NEW x \in Records(L), NEW y \in Records(L),
         x.pc = y.pc, x.job = y.job, x.log = y.log, x.seen = y.seen, x.outcome = y.outcome
  PROVE  x = y
BY DEF Records

LEMMA GoRecord ==
  ASSUME NEW L, NEW r \in Records(L), NEW pc \in Where, NEW o \in Outcome \cup {"none"}
  PROVE  [r EXCEPT !.pc = pc, !.outcome = o]
           = [pc |-> pc, job |-> r.job, log |-> r.log, seen |-> r.seen, outcome |-> o]
<1>. DEFINE x == [r EXCEPT !.pc = pc, !.outcome = o]
            y == [pc |-> pc, job |-> r.job, log |-> r.log, seen |-> r.seen, outcome |-> o]
<1>1. x \in Records(L) /\ y \in Records(L)
  BY DEF Records
<1>2. x.pc = y.pc /\ x.job = y.job /\ x.log = y.log /\ x.seen = y.seen /\ x.outcome = y.outcome
  BY DEF Records
<1>. HIDE DEF x, y
<1>3. x = y
  BY <1>1, <1>2, EqualRecords
<1>. QED  BY <1>3 DEF x, y

LEMMA LogRecord ==
  ASSUME NEW L, NEW r \in Records(L), NEW log \in L, NEW seen \in SUBSET Version
  PROVE  [r EXCEPT !.log = log, !.seen = seen]
           = [pc |-> r.pc, job |-> r.job, log |-> log, seen |-> seen, outcome |-> r.outcome]
<1>. DEFINE x == [r EXCEPT !.log = log, !.seen = seen]
            y == [pc |-> r.pc, job |-> r.job, log |-> log, seen |-> seen, outcome |-> r.outcome]
<1>1. x \in Records(L) /\ y \in Records(L)
  BY DEF Records
<1>2. x.pc = y.pc /\ x.job = y.job /\ x.log = y.log /\ x.seen = y.seen /\ x.outcome = y.outcome
  BY DEF Records
<1>. HIDE DEF x, y
<1>3. x = y
  BY <1>1, <1>2, EqualRecords
<1>. QED  BY <1>3 DEF x, y

LEMMA HeldRecord ==
  ASSUME Inv, NEW a \in Agent, NEW log
  PROVE  agent[a] \in Records({agent[a].log, log})
<1>1. AgentShape(agent[a])
  BY DEF Inv, Shape
<1>. QED  BY <1>1 DEF AgentShape, Records

LEMMA LoggedRecord ==
  ASSUME Inv, NEW a \in Agent, NEW log, NEW seen, seen \subseteq Version
  PROVE  [agent[a] EXCEPT !.log = log, !.seen = seen]
           = [pc |-> agent[a].pc, job |-> agent[a].job, log |-> log, seen |-> seen,
              outcome |-> agent[a].outcome]
<1>. DEFINE L == {agent[a].log, log}
<1>1. agent[a] \in Records(L) /\ log \in L /\ seen \in SUBSET Version
  BY HeldRecord
<1>. HIDE DEF L
<1>2. \A r \in Records(L) :
        [r EXCEPT !.log = log, !.seen = seen]
          = [pc |-> r.pc, job |-> r.job, log |-> log, seen |-> seen, outcome |-> r.outcome]
  BY <1>1, LogRecord
<1>. QED  BY <1>1, <1>2

\* The two ways an agent moves: on with its job, and back to rest.
LEMMA GoLemma ==
  ASSUME Inv, NEW a \in Agent, NEW pc \in Where \ {"idle"}, NEW o \in Outcome \cup {"none"},
         agent[a].pc # "idle", Go(a, pc, o),
         pc \in {"reporting", "answering"} => o \in Outcome
  PROVE  \E r : /\ AgentShape(r)
                /\ r.pc = pc /\ r.outcome = o /\ r.job = agent[a].job
                /\ r.log = agent[a].log /\ r.seen = agent[a].seen
                /\ agent' = [agent EXCEPT ![a] = r]
<1>. DEFINE r == [pc |-> pc, job |-> agent[a].job, log |-> agent[a].log,
                  seen |-> agent[a].seen, outcome |-> o]
<1>1. AgentShape(agent[a])
  BY DEF Inv, Shape
<1>2. AgentShape(r)
  BY <1>1 DEF AgentShape
<1>3. [agent[a] EXCEPT !.pc = pc, !.outcome = o] = r
  <2>. DEFINE L == {agent[a].log, <<>>}
  <2>1. agent[a] \in Records(L)
    BY HeldRecord
  <2>. HIDE DEF L
  <2>. QED  BY <2>1, GoRecord
<1>4. agent' = [agent EXCEPT ![a] = r]
  BY <1>3 DEF Go, Inv, Shape
<1>. QED  BY <1>2, <1>4

LEMMA RestLemma ==
  ASSUME Inv, NEW a \in Agent, agent' = [agent EXCEPT ![a] = Idle],
         UNCHANGED <<clock, source, pending, snapshots, edits, leased>>,
         faults' \in 0..MaxFaults,
         \/ UNCHANGED results
         \/ agent[a].pc \in {"reporting", "answering"} /\ Received(a)
  PROVE  Inv'
<1>1. AgentShape(Idle)
  BY DEF AgentShape, Idle, Where, Outcome
<1>2. Idle.job = NoJob /\ Idle.pc = "idle"
  BY DEF Idle
<1>. QED  BY <1>1, <1>2, MoveLemma

LEMMA MoveOnLemma ==
  ASSUME Inv, NEW a \in Agent, NEW pc \in Where \ {"idle"}, NEW o \in Outcome \cup {"none"},
         agent[a].pc # "idle", Go(a, pc, o),
         pc \in {"reporting", "answering"} => o \in Outcome,
         UNCHANGED <<clock, source, pending, edits, leased>>,
         faults' \in 0..MaxFaults,
         \/ UNCHANGED snapshots
         \/ \E e : /\ e # NoSnapshot
                   /\ JobOf(a) \in Job
                   /\ snapshots' = [snapshots EXCEPT ![JobOf(a)] = e],
         \/ UNCHANGED results
         \/ agent[a].pc \in {"reporting", "answering"} /\ Received(a),
         pc \in {"reporting", "answering"} /\ o = "COMPLETED"
           /\ Extraction(JobOf(a)) => snapshots'[JobOf(a)] # NoSnapshot,
         pc = "testing" => ~Extraction(JobOf(a))
  PROVE  Inv'
<1>1. PICK r : /\ AgentShape(r)
               /\ r.pc = pc /\ r.outcome = o /\ r.job = agent[a].job
               /\ agent' = [agent EXCEPT ![a] = r]
  BY GoLemma
<1>. QED  BY <1>1, MoveLemma DEF JobOf

\* A call answered: the log grows by it, and nothing else of the agent moves.
LEMMA LogMoves ==
  ASSUME Inv, NEW a \in Agent, NEW rows, agent[a].pc = "reading", Log(a, rows)
  PROVE  \E r : /\ AgentShape(r)
                /\ r.pc = "reading" /\ r.job = agent[a].job
                /\ r.log = Append(agent[a].log, [call |-> Call(a), rows |-> rows])
                /\ r.seen = agent[a].seen \cup {source[Connector(a)]}
                /\ agent' = [agent EXCEPT ![a] = r]
<1>. DEFINE log == Append(agent[a].log, [call |-> Call(a), rows |-> rows])
            seen == agent[a].seen \cup {source[Connector(a)]}
            r == [pc |-> agent[a].pc, job |-> agent[a].job, log |-> log,
                  seen |-> seen, outcome |-> agent[a].outcome]
<1>1. AgentShape(agent[a])
  BY DEF Inv, Shape
<1>2. JobOf(a) \in Job
  BY <1>1 DEF AgentShape, JobOf
<1>3. source[Connector(a)] \in Version
  BY <1>2 DEF Inv, Shape, Connector, Connectors
<1>4. seen \subseteq Version
  BY <1>1, <1>3 DEF AgentShape
<1>. HIDE DEF log, seen
<1>5. AgentShape(r)
  BY <1>1, <1>4 DEF AgentShape
<1>6. [agent[a] EXCEPT !.log = log, !.seen = seen] = r
  BY <1>4, LoggedRecord
<1>7. agent' = [agent EXCEPT ![a] = r]
  <2>1. agent' = [agent EXCEPT ![a] = [agent[a] EXCEPT !.log = log, !.seen = seen]]
    BY DEF Log, log, seen, Inv, Shape
  <2>. QED  BY <1>6, <2>1
<1>8. /\ r.job = agent[a].job /\ r.pc = "reading"
      /\ r.log = log /\ r.seen = seen
  OBVIOUS
<1>. HIDE DEF r
<1>. QED  BY <1>5, <1>7, <1>8 DEF log, seen

LEMMA LogLemma ==
  ASSUME Inv, NEW a \in Agent, NEW rows, agent[a].pc = "reading", Log(a, rows),
         UNCHANGED <<clock, source, pending, snapshots, results, edits, leased>>,
         faults' \in 0..MaxFaults
  PROVE  Inv'
<1>1. PICK r : /\ AgentShape(r)
               /\ r.pc = "reading" /\ r.job = agent[a].job
               /\ agent' = [agent EXCEPT ![a] = r]
  BY LogMoves
<1>. QED  BY <1>1, MoveLemma

----------------------------------------------------------------------------
\* lease_job hands out one job: it is with no agent yet, and leaves the queue.
LEMMA LeaseStep ==
  ASSUME Inv, NEW a \in Agent, Lease(a)
  PROVE  Inv'
<1>. USE DEF Inv
<1>1. PICK i \in DOMAIN pending :
        /\ pending' = RemoveAt(pending, i)
        /\ agent' = [agent EXCEPT ![a] = [Idle EXCEPT !.pc = "leased", !.job = pending[i]]]
        /\ leased' = leased \cup {pending[i]}
  BY DEF Lease
<1>. DEFINE r == [pc |-> "leased", job |-> pending[i], log |-> <<>>,
                  seen |-> {}, outcome |-> "none"]
<1>2. pending \in Seq(Job) /\ IsInjective(pending)
  BY DEF Shape, OneAgentPerJob
<1>3. pending[i] \in Job /\ pending[i] # NoJob
  BY <1>2, CollectorAssumption
<1>4. AgentShape(r)
  BY <1>3 DEF AgentShape, Where, Outcome
<1>5. /\ agent'[a] = r
      /\ \A b \in Agent : b # a => agent'[b] = agent[b]
      /\ agent' = [b \in Agent |-> agent'[b]]
  BY <1>1 DEF Shape, Idle
<1>6. /\ pending' \in Seq(Job)
      /\ IsInjective(pending')
      /\ \A k \in DOMAIN pending' :
           \E l \in DOMAIN pending : l # i /\ pending'[k] = pending[l]
  BY <1>1, <1>2, RemoveAtLemma
<1>7. UNCHANGED <<clock, source, snapshots, results, edits, faults>>
  BY DEF Lease
<1>. HIDE DEF r
<1>8. Shape'
  BY <1>1, <1>3, <1>4, <1>5, <1>6, <1>7 DEF Shape, AgentShape
<1>9. OneAgentPerJob'
  <2>1. r.job = pending[i]
    BY DEF r
  <2>2. \A k \in DOMAIN pending' : pending'[k] # pending[i]
    BY <1>2, <1>6 DEF IsInjective
  <2>3. \A b \in Agent, k \in DOMAIN pending' : agent[b].job # pending'[k]
    BY <1>6 DEF OneAgentPerJob, JobOf
  <2>4. \A b \in Agent : agent[b].job # pending[i]
    BY DEF OneAgentPerJob, JobOf
  <2>5. \A b \in Agent, k \in DOMAIN pending' : agent'[b].job # pending'[k]
    BY <1>5, <2>1, <2>2, <2>3
  <2>6. \A b, c \in Agent : b # c /\ agent'[b].job = agent'[c].job => agent'[b].job = NoJob
    BY <1>5, <2>1, <2>4 DEF OneAgentPerJob, JobOf
  <2>. QED  BY <1>6, <2>5, <2>6 DEF OneAgentPerJob, JobOf
<1>10. \A b \in Agent : Honest(b)'
  BY <1>5, <1>7 DEF Honest, Uploaded, JobOf, r
<1>11. CompletedHasSnapshot'
  BY <1>7 DEF CompletedHasSnapshot
<1>. QED  BY <1>8, <1>9, <1>10, <1>11

\* The steps run_once takes with a job: checks, calls, upload, report.
LEMMA WorksStep ==
  ASSUME Inv, NEW a \in Agent, Works(a)
  PROVE  Inv'
<1>. USE DEF Where, Outcome
<1>1. /\ faults \in 0..MaxFaults
      /\ AgentShape(agent[a])
      /\ agent[a].pc # "idle" => JobOf(a) \in Job
  BY DEF Inv, Shape, AgentShape, JobOf
<1>2. CASE Heartbeat(a)
  BY <1>1, <1>2, MoveOnLemma DEF Heartbeat
<1>3. CASE FindExpired(a)
  BY <1>1, <1>3, MoveOnLemma DEF FindExpired
<1>4. CASE RefuseApply(a)
  BY <1>1, <1>4, MoveOnLemma DEF RefuseApply
<1>5. CASE Start(a)
  <2>1. CASE KindOf[JobOf(a)] = "CONNECTIVITY_TEST"
    BY <1>1, <1>5, <2>1, MoveOnLemma DEF Start, Extraction
  <2>2. CASE KindOf[JobOf(a)] # "CONNECTIVITY_TEST" /\ Undeclared(JobOf(a)) # {}
    BY <1>1, <1>5, <2>2, MoveOnLemma DEF Start
  <2>3. CASE KindOf[JobOf(a)] # "CONNECTIVITY_TEST" /\ Undeclared(JobOf(a)) = {}
    BY <1>1, <1>5, <2>3, MoveOnLemma DEF Start
  <2>. QED  BY <2>1, <2>2, <2>3
<1>6. CASE Test(a)
  <2>1. ~Extraction(JobOf(a))
    BY <1>6 DEF Test, Inv, Honest
  <2>2. PICK o \in {"FAILED", "COMPLETED"} : Go(a, "reporting", o)
    BY <1>6 DEF Test
  <2>. QED  BY <1>1, <1>6, <2>1, <2>2, MoveOnLemma DEF Test
<1>7. CASE Read(a)
  <2>. DEFINE rows == Answer(Connector(a), source[Connector(a)], Call(a))
  <2>1. CASE rows # Refused
    BY <1>1, <1>7, <2>1, LogLemma DEF Read
  <2>2. CASE rows = Refused /\ Tolerated(Call(a))
    BY <1>1, <1>7, <2>2, LogLemma DEF Read
  <2>3. CASE rows = Refused /\ ~Tolerated(Call(a))
    BY <1>1, <1>7, <2>3, MoveOnLemma DEF Read
  <2>. QED  BY <2>1, <2>2, <2>3
<1>8. CASE Upload(a)
  <2>1. JobOf(a) \in Job
    BY <1>1, <1>8 DEF Upload
  <2>2. Snapshot(a) # NoSnapshot
    BY DEF Snapshot, NoSnapshot
  <2>3. snapshots' = [snapshots EXCEPT ![JobOf(a)] = Snapshot(a)]
    BY <1>8 DEF Upload, Store
  <2>4. snapshots'[JobOf(a)] # NoSnapshot
    BY <2>1, <2>2, <2>3 DEF Inv, Shape
  <2>. QED  BY <1>1, <1>8, <2>1, <2>2, <2>3, <2>4, MoveOnLemma DEF Upload
<1>9. CASE Report(a)
  BY <1>1, <1>9, RestLemma DEF Report
<1>. QED  BY <1>2, <1>3, <1>4, <1>5, <1>6, <1>7, <1>8, <1>9 DEF Works

\* A call that fails, or the agent's process: what an agent reports after it
\* is that the job failed, or nothing.
LEMMA FailsStep ==
  ASSUME Inv, NEW a \in Agent, Fails(a)
  PROVE  Inv'
<1>. USE DEF Where, Outcome
<1>1. faults' \in 0..MaxFaults
  BY CollectorAssumption DEF Inv, Shape, Fails, HeartbeatFails, TestFails, ReadFails,
     UploadFails, ReportFails, Crash, Fault
<1>2. agent[a].pc # "idle" => JobOf(a) \in Job
  BY DEF Inv, Shape, AgentShape, JobOf
<1>3. CASE HeartbeatFails(a)
  BY <1>1, <1>3, RestLemma DEF HeartbeatFails
<1>4. CASE TestFails(a)
  BY <1>1, <1>4, MoveOnLemma DEF TestFails
<1>5. CASE ReadFails(a)
  <2>1. CASE Tolerated(Call(a))
    BY <1>1, <1>5, <2>1, LogLemma DEF ReadFails
  <2>2. CASE ~Tolerated(Call(a))
    BY <1>1, <1>5, <2>2, MoveOnLemma DEF ReadFails
  <2>. QED  BY <2>1, <2>2
<1>6. CASE UploadFails(a)
  <2>1. JobOf(a) \in Job
    BY <1>2, <1>6 DEF UploadFails
  <2>2. Snapshot(a) # NoSnapshot
    BY DEF Snapshot, NoSnapshot
  <2>. QED  BY <1>1, <1>6, <2>1, <2>2, MoveOnLemma DEF UploadFails, Store
<1>7. CASE ReportFails(a)
  <2>1. CASE agent[a].pc = "reporting"
    BY <1>1, <1>7, <2>1, MoveOnLemma DEF ReportFails
  <2>2. CASE agent[a].pc # "reporting"
    BY <1>1, <1>7, <2>2, RestLemma DEF ReportFails
  <2>. QED  BY <2>1, <2>2
<1>8. CASE Crash(a)
  BY <1>1, <1>8, RestLemma DEF Crash
<1>. QED  BY <1>3, <1>4, <1>5, <1>6, <1>7, <1>8 DEF Fails

LEMMA StepInv == Inv /\ [Next]_vars => Inv'
<1>. SUFFICES ASSUME Inv, [Next]_vars PROVE Inv'
  OBVIOUS
<1>1. CASE UNCHANGED vars
  BY <1>1 DEF vars, Inv, Shape, AgentShape, OneAgentPerJob, Honest, Uploaded,
     JobOf, CompletedHasSnapshot
<1>2. ASSUME NEW a \in Agent, Poll(a)
      PROVE  UNCHANGED vars
  BY <1>2 DEF Poll
<1>3. CASE Tick
  <2>1. /\ clock' \in 0..MaxTime
        /\ UNCHANGED <<source, pending, agent, snapshots, results, edits, faults, leased>>
    BY <1>3, CollectorAssumption DEF Tick, Inv, Shape
  <2>. QED  BY <2>1 DEF Inv, Shape, AgentShape, OneAgentPerJob, Honest, Uploaded,
            JobOf, CompletedHasSnapshot
<1>4. ASSUME NEW c \in Connectors, NEW v \in Version, Edit(c, v)
      PROVE  Inv'
  <2>1. /\ edits' \in 0..MaxEdits
        /\ source' \in [Connectors -> Version]
        /\ UNCHANGED <<clock, pending, agent, snapshots, results, faults, leased>>
    BY <1>4, CollectorAssumption DEF Edit, Inv, Shape
  <2>. QED  BY <2>1 DEF Inv, Shape, AgentShape, OneAgentPerJob, Honest, Uploaded,
            JobOf, CompletedHasSnapshot
<1>. QED  BY <1>1, <1>2, <1>3, <1>4, LeaseStep, WorksStep, FailsStep DEF Next

LEMMA InvImpliesTypeOK == Inv => TypeOK
BY DEF Inv, Shape, AgentShape, TypeOK, JobOf

LEMMA SpecInv == Spec => []Inv
<1>. QED  BY InitInv, StepInv, PTL DEF Spec

----------------------------------------------------------------------------
\* What the agents and the control plane hold keeps its shape, whatever fails
\* (CollectorAgent, InMemoryControlPlane).
THEOREM CollectorTypes == Spec => []TypeOK
<1>. QED  BY SpecInv, InvImpliesTypeOK, PTL

\* lease_job takes a job out of the queue before it hands it out, and run_once
\* ends with the job let go: two agents never run the same one.
THEOREM JobsAreExclusive == Spec => []OneAgentPerJob
<1>1. Inv => OneAgentPerJob
  BY DEF Inv
<1>. QED  BY SpecInv, <1>1, PTL

\* An extraction reported completed has its snapshot with the control plane
\* (run_once uploads before it reports, and reports a failed upload failed).
THEOREM CompletedIsUploaded == Spec => []CompletedHasSnapshot
<1>1. Inv => CompletedHasSnapshot
  BY DEF Inv
<1>. QED  BY SpecInv, <1>1, PTL

----------------------------------------------------------------------------
(* Lists that are made by FlattenSeq. *)

\* The order of the numbers, as a relation.
LessThan == OpToRel(<, Nat)

\* A set of numbers that is not empty has a least one.
LEMMA LeastNatural ==
  ASSUME NEW T, T \subseteq Nat, T # {}
  PROVE  \E m \in T : \A k \in T : m <= k
<1>1. IsWellFoundedOn(LessThan, Nat)
  BY NatLessThanWellFounded DEF LessThan
<1>2. PICK m \in T : \A k \in T : ~(<<k, m>> \in LessThan)
  BY <1>1, WFMin
<1>3. \A i, j \in Nat : i < j => <<i, j>> \in LessThan
  BY DEF LessThan, OpToRel
<1>4. \A k \in T : ~(k < m)
  BY <1>2, <1>3
<1>. QED  BY <1>4

\* What holds of 1, and of n + 1 when it holds of n, holds up to N.
LEMMA Induct ==
  ASSUME NEW T, NEW N \in Nat, 1 \in T, \A n \in 1..N : n < N /\ n \in T => n + 1 \in T
  PROVE  \A n \in 1..N : n \in T
<1>. SUFFICES ASSUME \E n \in 1..N : n \notin T PROVE FALSE
  OBVIOUS
<1>. DEFINE U == {n \in 1..N : n \notin T}
<1>1. U \subseteq Nat /\ U # {}
  OBVIOUS
<1>2. PICK m \in U : \A k \in U : m <= k
  <2>. HIDE DEF U
  <2>. QED  BY <1>1, LeastNatural
<1>3. m \in 1..N /\ m # 1
  OBVIOUS
<1>4. m - 1 \in 1..N /\ m - 1 < N /\ (m - 1) + 1 = m
  BY <1>3
<1>5. m - 1 \in T
  BY <1>2, <1>4
<1>6. m \in T
  BY <1>4, <1>5
<1>. QED  BY <1>2, <1>6

----------------------------------------------------------------------------
\* What it is to be a list of rows.
LEMMA RowsFacts ==
  ASSUME NEW s, IsRows(s)
  PROVE  /\ Len(s) \in Nat /\ DOMAIN s = 1..Len(s)
         /\ s = [i \in 1..Len(s) |-> s[i]]
BY DEF IsRows

\* A function on 1..n is a list of n rows.
LEMMA RowsOfFunction ==
  ASSUME NEW n \in Nat, NEW s, s = [i \in 1..n |-> s[i]]
  PROVE  IsRows(s) /\ Len(s) = n /\ DOMAIN s = 1..n
<1>1. DOMAIN s = 1..n
  OBVIOUS
<1>2. \A i \in 1..n : s[i] \in ToSet(s)
  BY <1>1 DEF ToSet
<1>3. s \in [1..n -> ToSet(s)]
  BY <1>2
<1>4. s \in Seq(ToSet(s))
  BY <1>3
<1>. QED  BY <1>1, <1>4 DEF IsRows

\* A sequence is a list of rows.
LEMMA RowsOfSeq ==
  ASSUME NEW T, NEW s \in Seq(T)
  PROVE  IsRows(s)
<1>1. Len(s) \in Nat /\ s = [i \in 1..Len(s) |-> s[i]]
  OBVIOUS
<1>. QED  BY <1>1, RowsOfFunction

\* s runs through the first n sequences of seqs, element by element.
Unfolds(s, seqs, n) ==
  \E at \in [DOMAIN s -> Nat \X Nat] :
    /\ \A i \in DOMAIN s : /\ at[i][1] \in 1..n
                           /\ at[i][2] \in DOMAIN seqs[at[i][1]]
                           /\ s[i] = seqs[at[i][1]][at[i][2]]
    /\ \A i, j \in DOMAIN s : at[i] = at[j] => i = j
    /\ \A k \in 1..n : \A l \in DOMAIN seqs[k] : \E i \in DOMAIN s : at[i] = <<k, l>>

\* The first sequence runs through itself.
LEMMA UnfoldFirst ==
  ASSUME NEW seqs, IsRows(seqs[1])
  PROVE  Unfolds(seqs[1], seqs, 1)
<1>. DEFINE s == seqs[1]
            at == [i \in DOMAIN s |-> <<1, i>>]
<1>1. DOMAIN s \subseteq Nat
  BY RowsFacts
<1>2. at \in [DOMAIN s -> Nat \X Nat]
  BY <1>1
<1>3. \A i \in DOMAIN s : at[i] = <<1, i>> /\ at[i][1] = 1 /\ at[i][2] = i
  OBVIOUS
<1>4. \A k \in 1..1 : k = 1
  OBVIOUS
<1>. HIDE DEF at
<1>. QED  BY <1>2, <1>3, <1>4 DEF Unfolds

\* What is concatenated next is run through next.
LEMMA UnfoldNext ==
  ASSUME NEW seqs, NEW n \in Nat, NEW s, IsRows(s), Unfolds(s, seqs, n),
         NEW t, t = seqs[n + 1], IsRows(t)
  PROVE  IsRows(s \o t) /\ Unfolds(s \o t, seqs, n + 1)
<1>. DEFINE T == ToSet(s) \cup ToSet(t)
            c == s \o t
<1>1. s \in Seq(T) /\ t \in Seq(T)
  BY DEF IsRows
<1>2. /\ c \in Seq(T) /\ Len(c) = Len(s) + Len(t)
      /\ Len(s) \in Nat /\ Len(t) \in Nat
      /\ DOMAIN s = 1..Len(s) /\ DOMAIN t = 1..Len(t) /\ DOMAIN c = 1..(Len(s) + Len(t))
  BY <1>1
<1>3. \A i \in DOMAIN c : c[i] = IF i <= Len(s) THEN s[i] ELSE t[i - Len(s)]
  BY <1>1
<1>4. IsRows(c)
  BY <1>2, RowsOfSeq
<1>5. PICK at \in [DOMAIN s -> Nat \X Nat] :
        /\ \A i \in DOMAIN s : /\ at[i][1] \in 1..n
                               /\ at[i][2] \in DOMAIN seqs[at[i][1]]
                               /\ s[i] = seqs[at[i][1]][at[i][2]]
        /\ \A i, j \in DOMAIN s : at[i] = at[j] => i = j
        /\ \A k \in 1..n : \A l \in DOMAIN seqs[k] : \E i \in DOMAIN s : at[i] = <<k, l>>
  BY DEF Unfolds
<1>. DEFINE m == Len(s)
            at2 == [i \in DOMAIN c |-> IF i <= m THEN at[i] ELSE <<n + 1, i - m>>]
<1>6. \A i \in DOMAIN c : i \in 1..m \/ (i - m \in 1..Len(t) /\ ~(i <= m))
  BY <1>2
<1>. HIDE DEF c, T
<1>7. \A i \in 1..m : i \in DOMAIN c /\ at2[i] = at[i] /\ c[i] = s[i]
  BY <1>2, <1>3
<1>8. \A i \in 1..Len(t) : /\ m + i \in DOMAIN c
                           /\ at2[m + i] = <<n + 1, i>>
                           /\ c[m + i] = t[i]
  <2>. SUFFICES ASSUME NEW i \in 1..Len(t) PROVE /\ m + i \in DOMAIN c
                           /\ at2[m + i] = <<n + 1, i>>
                           /\ c[m + i] = t[i]
    OBVIOUS
  <2>1. m + i \in DOMAIN c /\ ~(m + i <= m) /\ (m + i) - m = i
    BY <1>2
  <2>. QED  BY <2>1, <1>3
<1>9. \A i \in DOMAIN c : i \in 1..m \/ \E h \in 1..Len(t) : i = m + h
  BY <1>6, <1>2
<1>10. \A i \in 1..m : at[i] \in Nat \X Nat /\ at[i][1] \in 1..n /\ at[i][1] # n + 1
  BY <1>5, <1>2
<1>11. at2 \in [DOMAIN c -> Nat \X Nat]
  <2>. SUFFICES ASSUME NEW i \in DOMAIN c PROVE at2[i] \in Nat \X Nat
    OBVIOUS
  <2>1. CASE i \in 1..m
    BY <2>1, <1>7, <1>10
  <2>2. ASSUME NEW h \in 1..Len(t), i = m + h PROVE at2[i] \in Nat \X Nat
    <3>1. <<n + 1, h>> \in Nat \X Nat
      OBVIOUS
    <3>. HIDE DEF at2
    <3>. QED  BY <2>2, <1>8, <3>1
  <2>. QED  BY <2>1, <2>2, <1>9
<1>. HIDE DEF at2
<1>12. ASSUME NEW i \in DOMAIN c
       PROVE  /\ at2[i][1] \in 1..(n + 1)
              /\ at2[i][2] \in DOMAIN seqs[at2[i][1]]
              /\ c[i] = seqs[at2[i][1]][at2[i][2]]
  <2>1. CASE i \in 1..m
    BY <2>1, <1>7, <1>5, <1>2
  <2>2. ASSUME NEW h \in 1..Len(t), i = m + h
        PROVE  /\ at2[i][1] \in 1..(n + 1)
               /\ at2[i][2] \in DOMAIN seqs[at2[i][1]]
               /\ c[i] = seqs[at2[i][1]][at2[i][2]]
    <3>1. at2[i] = <<n + 1, h>> /\ c[i] = t[h]
      BY <2>2, <1>8
    <3>2. at2[i][1] = n + 1 /\ at2[i][2] = h
      BY <3>1
    <3>. QED  BY <3>1, <3>2, <1>2
  <2>. QED  BY <2>1, <2>2, <1>9
<1>13. ASSUME NEW i \in DOMAIN c, NEW j \in DOMAIN c, at2[i] = at2[j]
       PROVE  i = j
  <2>1. CASE i \in 1..m /\ j \in 1..m
    BY <2>1, <1>7, <1>5, <1>2, <1>13
  <2>2. ASSUME NEW h \in 1..Len(t), i = m + h, j \in 1..m PROVE FALSE
    <3>1. at2[i][1] = n + 1
      BY <2>2, <1>8
    <3>. QED  BY <3>1, <2>2, <1>7, <1>10, <1>13
  <2>3. ASSUME NEW h \in 1..Len(t), j = m + h, i \in 1..m PROVE FALSE
    <3>1. at2[j][1] = n + 1
      BY <2>3, <1>8
    <3>. QED  BY <3>1, <2>3, <1>7, <1>10, <1>13
  <2>4. ASSUME NEW h \in 1..Len(t), j = m + h, NEW g \in 1..Len(t), i = m + g PROVE i = j
    <3>1. at2[j][2] = h /\ at2[i][2] = g
      BY <2>4, <1>8
    <3>. QED  BY <3>1, <2>4, <1>13
  <2>. QED  BY <2>1, <2>2, <2>3, <2>4, <1>9
<1>14. ASSUME NEW k \in 1..(n + 1), NEW l \in DOMAIN seqs[k]
       PROVE  \E i \in DOMAIN c : at2[i] = <<k, l>>
  <2>1. CASE k \in 1..n
    <3>1. PICK i \in DOMAIN s : at[i] = <<k, l>>
      BY <2>1, <1>5
    <3>. QED  BY <3>1, <1>7, <1>2
  <2>2. CASE k = n + 1
    BY <2>2, <1>8, <1>2
  <2>. QED  BY <2>1, <2>2
<1>15. Unfolds(c, seqs, n + 1)
  BY <1>11, <1>12, <1>13, <1>14 DEF Unfolds
<1>. QED  BY <1>4, <1>15 DEF c

\* The first n values of the recursive function of FlattenSeq.
Flattens(g, seqs, n) ==
  /\ DOMAIN g = 1..n
  /\ g = [i \in 1..n |-> g[i]]
  /\ \A i \in 1..n : g[i] = IF i = 1 THEN seqs[i] ELSE g[i - 1] \o seqs[i]

\* FlattenSeq's function exists: each of its values is made of the one before.
LEMMA FlatteningExists ==
  ASSUME NEW N \in Nat, N # 0, NEW seqs
  PROVE  \E g : Flattens(g, seqs, N)
<1>. DEFINE T == {n \in 1..N : \E g : Flattens(g, seqs, n)}
<1>1. 1 \in T
  <2>1. Flattens([i \in 1..1 |-> seqs[i]], seqs, 1)
    BY DEF Flattens
  <2>. QED  BY <2>1
<1>2. ASSUME NEW n \in 1..N, n < N, n \in T
      PROVE  n + 1 \in T
  <2>1. PICK g : Flattens(g, seqs, n)
    BY <1>2
  <2>. DEFINE h == [i \in 1..(n + 1) |-> IF i = n + 1 THEN g[n] \o seqs[n + 1] ELSE g[i]]
  <2>2. ASSUME NEW i \in 1..(n + 1)
        PROVE  h[i] = IF i = 1 THEN seqs[i] ELSE h[i - 1] \o seqs[i]
    <3>1. CASE i = n + 1
      <4>1. n \in 1..(n + 1) /\ n # n + 1 /\ i - 1 = n /\ i # 1
        BY <3>1
      <4>2. h[n] = g[n]
        BY <4>1
      <4>3. h[i] = g[n] \o seqs[n + 1]
        BY <3>1
      <4>. HIDE DEF h
      <4>. QED  BY <3>1, <4>1, <4>2, <4>3
    <3>2. CASE i # n + 1 /\ i # 1
      <4>1. i \in 1..n /\ i - 1 \in 1..(n + 1) /\ i - 1 # n + 1
        BY <3>2
      <4>2. h[i] = g[i] /\ h[i - 1] = g[i - 1]
        BY <4>1, <3>2
      <4>3. g[i] = g[i - 1] \o seqs[i]
        BY <2>1, <3>2, <4>1 DEF Flattens
      <4>. HIDE DEF h
      <4>. QED  BY <3>2, <4>2, <4>3
    <3>3. CASE i = 1
      <4>1. h[i] = g[i] /\ i \in 1..n
        BY <3>3
      <4>2. g[i] = seqs[i]
        BY <2>1, <3>3, <4>1 DEF Flattens
      <4>. HIDE DEF h
      <4>. QED  BY <3>3, <4>1, <4>2
    <3>. QED  BY <3>1, <3>2, <3>3
  <2>3. DOMAIN h = 1..(n + 1) /\ h = [i \in 1..(n + 1) |-> h[i]]
    OBVIOUS
  <2>. HIDE DEF h
  <2>4. Flattens(h, seqs, n + 1)
    BY <2>2, <2>3 DEF Flattens
  <2>. QED  BY <2>4, <1>2
<1>. HIDE DEF T
<1>3. \A n \in 1..N : n \in T
  BY <1>1, <1>2, Induct
<1>. QED  BY <1>3 DEF T

\* FlattenSeq runs through all of its sequences.
LEMMA FlattenUnfolds ==
  ASSUME NEW N \in Nat, NEW seqs, seqs = [k \in 1..N |-> seqs[k]],
         \A k \in 1..N : IsRows(seqs[k])
  PROVE  IsRows(FlattenSeq(seqs)) /\ Unfolds(FlattenSeq(seqs), seqs, N)
<1>1. Len(seqs) = N /\ IsRows(seqs) /\ DOMAIN seqs = 1..N
  BY RowsOfFunction
<1>2. CASE N = 0
  <2>1. FlattenSeq(seqs) = seqs
    BY <1>1, <1>2 DEF FlattenSeq
  <2>2. DOMAIN seqs = {} /\ 1..N = {}
    BY <1>1, <1>2
  <2>3. Unfolds(seqs, seqs, N)
    <3>. DEFINE at == [i \in DOMAIN seqs |-> <<0, 0>>]
    <3>1. at \in [DOMAIN seqs -> Nat \X Nat]
      OBVIOUS
    <3>. HIDE DEF at
    <3>. QED  BY <2>2, <3>1 DEF Unfolds
  <2>. QED  BY <1>1, <2>1, <2>3
<1>3. CASE N # 0
  <2>. DEFINE Body(g) == [i \in 1..N |-> IF i = 1 THEN seqs[i] ELSE g[i - 1] \o seqs[i]]
              fl == CHOOSE g : g = Body(g)
  <2>1. FlattenSeq(seqs) = fl[N]
    BY <1>1, <1>3 DEF FlattenSeq
  <2>2. PICK g : Flattens(g, seqs, N)
    BY <1>3, FlatteningExists
  <2>3. g = Body(g)
    BY <2>2 DEF Flattens
  <2>4. fl = Body(fl)
    <3>. HIDE DEF Body
    <3>. QED  BY <2>3
  <2>5. \A i \in 1..N : fl[i] = IF i = 1 THEN seqs[i] ELSE fl[i - 1] \o seqs[i]
    <3>. HIDE DEF fl
    <3>. QED  BY <2>4
  <2>. HIDE DEF fl
  <2>. DEFINE T == {n \in 1..N : IsRows(fl[n]) /\ Unfolds(fl[n], seqs, n)}
  <2>6. 1 \in T
    <3>1. 1 \in 1..N /\ fl[1] = seqs[1]
      BY <1>3, <2>5
    <3>. QED  BY <3>1, UnfoldFirst
  <2>7. ASSUME NEW n \in 1..N, n < N, n \in T
        PROVE  n + 1 \in T
    <3>1. n + 1 \in 1..N /\ n + 1 # 1 /\ (n + 1) - 1 = n /\ n \in Nat
      BY <2>7
    <3>2. fl[n + 1] = fl[n] \o seqs[n + 1]
      BY <2>5, <3>1
    <3>3. IsRows(fl[n]) /\ Unfolds(fl[n], seqs, n) /\ IsRows(seqs[n + 1])
      BY <2>7, <3>1
    <3>4. IsRows(fl[n] \o seqs[n + 1]) /\ Unfolds(fl[n] \o seqs[n + 1], seqs, n + 1)
      BY <3>1, <3>3, UnfoldNext
    <3>. QED  BY <3>1, <3>2, <3>4
  <2>. HIDE DEF T
  <2>8. \A n \in 1..N : n \in T
    BY <2>6, <2>7, Induct
  <2>9. N \in T
    BY <1>3, <2>8
  <2>. QED  BY <2>1, <2>9 DEF T
<1>. QED  BY <1>2, <1>3

----------------------------------------------------------------------------
(* What an agent records, call by call, is a crawl of its source. *)

\* The first n entries of a log.
Prefix(log, n) == [i \in 1..n |-> log[i]]

\* An entry holds what its call answered in a version seen.
Answered(c, entry, seen) ==
  \/ \E v \in seen : entry.rows = Answer(c, v, entry.call) /\ entry.rows # Refused
  \/ Tolerated(entry.call) /\ entry.rows = <<>>

\* Entry i of a log answers the call the script asked for after i - 1 entries.
Recorded(c, w, log, seen, i) ==
  /\ i - 1 < Len(Script(c, w, Prefix(log, i - 1)))
  /\ log[i].call = Script(c, w, Prefix(log, i - 1))[i]
  /\ Answered(c, log[i], seen)

\* The log of a crawl: the calls the script asks for, each answered.
CrawlLog(c, w, log, seen) ==
  /\ IsRows(log)
  /\ IsFiniteSet(seen) /\ seen \subseteq Version
  /\ \A i \in DOMAIN log : Recorded(c, w, log, seen, i)

\* The script asks for no call after those of the log.
Finished(c, w, log) == ~(Len(log) < Len(Script(c, w, log)))

\* A snapshot assembled from the finished log of a crawl.
IsCrawl(snapshot, c, w, log, seen) ==
  /\ CrawlLog(c, w, log, seen)
  /\ Finished(c, w, log)
  /\ snapshot = [entities |-> Assemble(c, w, log), seen |-> seen]

\* What an agent at work has recorded so far.
Crawling(r) ==
  /\ r.pc \in {"leased", "checking"} => r.log = <<>> /\ r.seen = {}
  /\ r.pc = "reading" => CrawlLog(ConnectorOf[r.job], Wanted(r.job), r.log, r.seen)

\* What a job has stored is the crawl of what the job wanted.
Crawled(j) ==
  snapshots[j] # NoSnapshot =>
    \E log, seen : IsCrawl(snapshots[j], ConnectorOf[j], Wanted(j), log, seen)

\* Inductive, with Inv: every log under way follows the script, and every
\* snapshot stored comes from such a log. run_discovery keeps nothing else.
LogInv == (\A a \in Agent : Crawling(agent[a])) /\ (\A j \in Job : Crawled(j))

----------------------------------------------------------------------------
\* A crawl starts with nothing recorded.
LEMMA EmptyLog ==
  ASSUME NEW c, NEW w
  PROVE  CrawlLog(c, w, <<>>, {})
<1>1. DOMAIN <<>> = {}
  OBVIOUS
<1>2. IsRows(<<>>)
  BY DEF IsRows
<1>3. IsFiniteSet({})
  BY FS_EmptySet
<1>. QED  BY <1>1, <1>2, <1>3 DEF CrawlLog

\* What appending to a list of rows makes.
LEMMA AppendRows ==
  ASSUME NEW s, IsRows(s), NEW x
  PROVE  /\ IsRows(Append(s, x))
         /\ Len(Append(s, x)) = Len(s) + 1
         /\ DOMAIN Append(s, x) = 1..(Len(s) + 1)
         /\ \A i \in 1..Len(s) : Append(s, x)[i] = s[i]
         /\ Append(s, x)[Len(s) + 1] = x
<1>. DEFINE T == ToSet(s) \cup {x}
<1>1. s \in Seq(T) /\ x \in T
  BY DEF IsRows
<1>2. Append(s, x) \in Seq(T) /\ Len(Append(s, x)) = Len(s) + 1 /\ Len(s) \in Nat
  BY <1>1
<1>3. DOMAIN Append(s, x) = 1..(Len(s) + 1)
  BY <1>2
<1>4. /\ \A i \in 1..Len(s) : Append(s, x)[i] = s[i]
      /\ Append(s, x)[Len(s) + 1] = x
  BY <1>1, <1>2
<1>5. IsRows(Append(s, x))
  BY <1>2, RowsOfSeq
<1>. QED  BY <1>2, <1>3, <1>4, <1>5

\* All of a log is its prefix of that length.
LEMMA PrefixWhole ==
  ASSUME NEW s, IsRows(s)
  PROVE  Prefix(s, Len(s)) = s
BY RowsFacts DEF Prefix

\* What is recorded next leaves the earlier entries as they are.
LEMMA PrefixAppend ==
  ASSUME NEW s, IsRows(s), NEW x, NEW n \in Nat, n <= Len(s)
  PROVE  Prefix(Append(s, x), n) = Prefix(s, n)
<1>1. \A i \in 1..n : Append(s, x)[i] = s[i]
  <2>1. Len(s) \in Nat
    BY RowsFacts
  <2>. QED  BY <2>1, AppendRows
<1>. QED  BY <1>1 DEF Prefix

\* An answer to the call the script asks for extends the log of the crawl.
LEMMA LogGrows ==
  ASSUME NEW c, NEW w, NEW log, NEW seen, CrawlLog(c, w, log, seen), NEW v \in Version, NEW e,
         Len(log) < Len(Script(c, w, log)),
         e.call = Script(c, w, log)[Len(log) + 1],
         Answered(c, e, seen \cup {v})
  PROVE  CrawlLog(c, w, Append(log, e), seen \cup {v})
<1>. DEFINE new == Append(log, e)
            all == seen \cup {v}
<1>1. IsRows(log) /\ Len(log) \in Nat /\ DOMAIN log = 1..Len(log)
  BY RowsFacts DEF CrawlLog
<1>2. /\ IsRows(new) /\ DOMAIN new = 1..(Len(log) + 1)
      /\ \A i \in 1..Len(log) : new[i] = log[i]
      /\ new[Len(log) + 1] = e
  BY <1>1, AppendRows
<1>3. IsFiniteSet(all) /\ all \subseteq Version
  BY FS_AddElement DEF CrawlLog
<1>4. ASSUME NEW n \in Nat, n <= Len(log) PROVE Prefix(new, n) = Prefix(log, n)
  BY <1>1, <1>4, PrefixAppend
<1>. HIDE DEF new
<1>5. ASSUME NEW i \in 1..Len(log) PROVE Recorded(c, w, new, all, i)
  <2>1. Recorded(c, w, log, seen, i)
    BY <1>1 DEF CrawlLog
  <2>2. i - 1 \in Nat /\ i - 1 <= Len(log)
    BY <1>1
  <2>3. Prefix(new, i - 1) = Prefix(log, i - 1)
    BY <1>4, <2>2
  <2>4. Answered(c, log[i], all)
    BY <2>1 DEF Recorded, Answered
  <2>. QED  BY <1>2, <2>1, <2>3, <2>4 DEF Recorded
<1>6. Recorded(c, w, new, all, Len(log) + 1)
  <2>1. (Len(log) + 1) - 1 = Len(log)
    BY <1>1
  <2>2. Prefix(new, Len(log)) = log
    BY <1>1, <1>4, PrefixWhole
  <2>. QED  BY <1>2, <2>1, <2>2 DEF Recorded
<1>7. \A i \in DOMAIN new : Recorded(c, w, new, all, i)
  <2>1. \A i \in DOMAIN new : i \in 1..Len(log) \/ i = Len(log) + 1
    BY <1>1, <1>2
  <2>. QED  BY <1>5, <1>6, <2>1
<1>. QED  BY <1>2, <1>3, <1>7 DEF CrawlLog, new

----------------------------------------------------------------------------
\* Agents that move without a call, and the snapshots they leave alone.
LEMMA MovedOne ==
  ASSUME Inv, LogInv, NEW a \in Agent, NEW r, agent' = [agent EXCEPT ![a] = r],
         Crawling(r), \A j \in Job : Crawled(j)'
  PROVE  LogInv'
<1>1. agent'[a] = r /\ \A b \in Agent : b # a => agent'[b] = agent[b]
  BY DEF Inv, Shape
<1>2. \A b \in Agent : Crawling(agent'[b])
  BY <1>1 DEF LogInv
<1>. QED  BY <1>2 DEF LogInv

\* A snapshot is written when the script has no call left, or not at all.
LEMMA Wrote ==
  ASSUME Inv, LogInv, NEW a \in Agent, agent[a].pc = "reading", ~Remaining(a),
         Store(a) \/ UNCHANGED snapshots
  PROVE  \A j \in Job : Crawled(j)'
<1>1. AgentShape(agent[a]) /\ JobOf(a) \in Job
  BY DEF Inv, Shape, AgentShape, JobOf
<1>0. PICK k \in Job : k = JobOf(a)
  BY <1>1
<1>2. CrawlLog(ConnectorOf[k], Wanted(k), agent[a].log, agent[a].seen)
  BY <1>0 DEF LogInv, Crawling, JobOf
<1>3. Finished(ConnectorOf[k], Wanted(k), agent[a].log)
  BY <1>0 DEF Remaining, Calls, Connector, Finished
<1>4. IsCrawl(Snapshot(a), ConnectorOf[k], Wanted(k), agent[a].log, agent[a].seen)
  BY <1>0, <1>2, <1>3 DEF IsCrawl, Snapshot, Connector
<1>5. CASE UNCHANGED snapshots
  BY <1>5 DEF LogInv, Crawled
<1>6. CASE Store(a)
  <2>1. /\ snapshots'[k] = Snapshot(a)
        /\ \A j \in Job : j # k => snapshots'[j] = snapshots[j]
    BY <1>0, <1>1, <1>6 DEF Store, Inv, Shape
  <2>2. Crawled(k)'
    BY <1>4, <2>1 DEF Crawled
  <2>3. \A j \in Job : j # k => Crawled(j)'
    BY <2>1 DEF LogInv, Crawled
  <2>. QED  BY <2>2, <2>3
<1>. QED  BY <1>5, <1>6

\* An answer recorded, or a refusal tolerated, keeps the log a crawl's.
LEMMA Logged ==
  ASSUME Inv, LogInv, NEW a \in Agent, agent[a].pc = "reading", Remaining(a), NEW rows,
         Log(a, rows), UNCHANGED <<source, snapshots>>,
         \/ rows = Answer(Connector(a), source[Connector(a)], Call(a)) /\ rows # Refused
         \/ Tolerated(Call(a)) /\ rows = <<>>
  PROVE  LogInv'
<1>. DEFINE e == [call |-> Call(a), rows |-> rows]
<1>1. PICK r : /\ r.pc = "reading" /\ r.job = agent[a].job
               /\ r.log = Append(agent[a].log, e)
               /\ r.seen = agent[a].seen \cup {source[Connector(a)]}
               /\ agent' = [agent EXCEPT ![a] = r]
  BY LogMoves
<1>2. e.call = Call(a) /\ e.rows = rows
  OBVIOUS
<1>. HIDE DEF e
<1>3. CrawlLog(Connector(a), Wanted(JobOf(a)), agent[a].log, agent[a].seen)
  BY DEF LogInv, Crawling, Connector, JobOf
<1>4. Answered(Connector(a), e, r.seen)
  BY <1>1, <1>2 DEF Answered
<1>5. CrawlLog(Connector(a), Wanted(JobOf(a)), r.log, r.seen)
  <2>0. source[Connector(a)] \in Version
    <3>1. JobOf(a) \in Job
      BY DEF Inv, Shape, AgentShape, JobOf
    <3>. QED  BY <3>1 DEF Inv, Shape, Connector, Connectors
  <2>1. \A c, w, log, seen, v :
          /\ v \in Version
          /\ CrawlLog(c, w, log, seen)
          /\ Len(log) < Len(Script(c, w, log))
          /\ e.call = Script(c, w, log)[Len(log) + 1]
          /\ Answered(c, e, seen \cup {v})
          => CrawlLog(c, w, Append(log, e), seen \cup {v})
    BY LogGrows
  <2>2. Len(agent[a].log) < Len(Script(Connector(a), Wanted(JobOf(a)), agent[a].log))
    BY DEF Remaining, Calls
  <2>3. e.call = Script(Connector(a), Wanted(JobOf(a)), agent[a].log)[Len(agent[a].log) + 1]
    BY <1>2 DEF Call, Calls
  <2>4. Answered(Connector(a), e, agent[a].seen \cup {source[Connector(a)]})
    BY <1>1, <1>4
  <2>5. CrawlLog(Connector(a), Wanted(JobOf(a)), Append(agent[a].log, e),
                 agent[a].seen \cup {source[Connector(a)]})
    BY <1>3, <2>0, <2>1, <2>2, <2>3, <2>4
  <2>. QED  BY <1>1, <2>5
<1>6. Crawling(r)
  BY <1>1, <1>5 DEF Crawling, Connector, JobOf
<1>7. \A j \in Job : Crawled(j)'
  BY DEF LogInv, Crawled
<1>. QED  BY <1>1, <1>6, <1>7, MovedOne

\* An agent that goes on without a call keeps the log a crawl's.
LEMMA WentOn ==
  ASSUME Inv, LogInv, NEW a \in Agent, NEW pc \in Where \ {"idle"}, NEW o \in Outcome \cup {"none"},
         agent[a].pc # "idle", Go(a, pc, o),
         pc \in {"reporting", "answering"} => o \in Outcome,
         pc \in {"checking", "reading"} => agent[a].pc \in {"leased", "checking"},
         pc # "leased", \A j \in Job : Crawled(j)'
  PROVE  LogInv'
<1>1. PICK r : /\ r.pc = pc /\ r.job = agent[a].job
               /\ r.log = agent[a].log /\ r.seen = agent[a].seen
               /\ agent' = [agent EXCEPT ![a] = r]
  BY GoLemma
<1>2. Crawling(r)
  BY <1>1, EmptyLog DEF LogInv, Crawling
<1>. QED  BY <1>1, <1>2, MovedOne

\* An agent that rests has nothing recorded.
LEMMA Rested ==
  ASSUME Inv, LogInv, NEW a \in Agent, agent' = [agent EXCEPT ![a] = Idle], UNCHANGED snapshots
  PROVE  LogInv'
<1>1. Crawling(Idle)
  BY DEF Crawling, Idle
<1>2. \A j \in Job : Crawled(j)'
  BY DEF LogInv, Crawled
<1>. QED  BY <1>1, <1>2, MovedOne

\* The steps of an agent that works.
LEMMA WorksLog ==
  ASSUME Inv, LogInv, NEW a \in Agent, Works(a)
  PROVE  LogInv'
<1>. USE DEF Where, Outcome
<1>0. UNCHANGED snapshots => \A j \in Job : Crawled(j)'
  BY DEF LogInv, Crawled
<1>1. CASE Heartbeat(a)
  BY <1>0, <1>1, WentOn DEF Heartbeat
<1>2. CASE FindExpired(a)
  BY <1>0, <1>2, WentOn DEF FindExpired
<1>3. CASE RefuseApply(a)
  BY <1>0, <1>3, WentOn DEF RefuseApply
<1>4. CASE Start(a)
  <2>1. CASE Go(a, "testing", "none")
    BY <1>0, <1>4, <2>1, WentOn DEF Start
  <2>2. CASE Go(a, "answering", "FAILED")
    BY <1>0, <1>4, <2>2, WentOn DEF Start
  <2>3. CASE Go(a, "reading", "none")
    BY <1>0, <1>4, <2>3, WentOn DEF Start
  <2>. QED  BY <1>4, <2>1, <2>2, <2>3 DEF Start
<1>5. CASE Test(a)
  <2>1. PICK o \in {"FAILED", "COMPLETED"} : Go(a, "reporting", o)
    BY <1>5 DEF Test
  <2>. QED  BY <1>0, <1>5, <2>1, WentOn DEF Test
<1>6. CASE Read(a)
  <2>. DEFINE rows == Answer(Connector(a), source[Connector(a)], Call(a))
  <2>1. CASE rows # Refused
    BY <1>6, <2>1, Logged DEF Read
  <2>2. CASE rows = Refused /\ Tolerated(Call(a))
    BY <1>6, <2>2, Logged DEF Read
  <2>3. CASE rows = Refused /\ ~Tolerated(Call(a))
    BY <1>0, <1>6, <2>3, WentOn DEF Read
  <2>. QED  BY <2>1, <2>2, <2>3
<1>7. CASE Upload(a)
  <2>1. \A j \in Job : Crawled(j)'
    BY <1>7, Wrote DEF Upload
  <2>. QED  BY <1>7, <2>1, WentOn DEF Upload
<1>8. CASE Report(a)
  BY <1>8, Rested DEF Report
<1>. QED  BY <1>1, <1>2, <1>3, <1>4, <1>5, <1>6, <1>7, <1>8 DEF Works

\* The steps of an agent whose call fails, or that crashes.
LEMMA FailsLog ==
  ASSUME Inv, LogInv, NEW a \in Agent, Fails(a)
  PROVE  LogInv'
<1>. USE DEF Where, Outcome
<1>0. UNCHANGED snapshots => \A j \in Job : Crawled(j)'
  BY DEF LogInv, Crawled
<1>1. CASE HeartbeatFails(a)
  BY <1>1, Rested DEF HeartbeatFails
<1>2. CASE TestFails(a)
  BY <1>0, <1>2, WentOn DEF TestFails
<1>3. CASE ReadFails(a)
  <2>1. CASE Tolerated(Call(a))
    BY <1>3, <2>1, Logged DEF ReadFails
  <2>2. CASE ~Tolerated(Call(a))
    BY <1>0, <1>3, <2>2, WentOn DEF ReadFails
  <2>. QED  BY <2>1, <2>2
<1>4. CASE UploadFails(a)
  <2>1. \A j \in Job : Crawled(j)'
    BY <1>4, Wrote DEF UploadFails
  <2>. QED  BY <1>4, <2>1, WentOn DEF UploadFails
<1>5. CASE ReportFails(a)
  <2>1. CASE agent[a].pc = "reporting"
    BY <1>0, <1>5, <2>1, WentOn DEF ReportFails
  <2>2. CASE agent[a].pc # "reporting"
    BY <1>5, <2>2, Rested DEF ReportFails
  <2>. QED  BY <2>1, <2>2
<1>6. CASE Crash(a)
  BY <1>6, Rested DEF Crash
<1>. QED  BY <1>1, <1>2, <1>3, <1>4, <1>5, <1>6 DEF Fails

\* An agent that leases a job starts a log anew.
LEMMA LeaseLog ==
  ASSUME Inv, LogInv, NEW a \in Agent, Lease(a)
  PROVE  LogInv'
<1>1. PICK i \in DOMAIN pending :
        agent' = [agent EXCEPT ![a] = [Idle EXCEPT !.pc = "leased", !.job = pending[i]]]
  BY DEF Lease
<1>. DEFINE r == [Idle EXCEPT !.pc = "leased", !.job = pending[i]]
<1>2. r.pc = "leased" /\ r.log = <<>> /\ r.seen = {}
  BY DEF Idle
<1>3. agent' = [agent EXCEPT ![a] = r]
  BY <1>1
<1>. HIDE DEF r
<1>4. Crawling(r)
  BY <1>2 DEF Crawling
<1>5. \A j \in Job : Crawled(j)'
  BY DEF Lease, LogInv, Crawled
<1>. QED  BY <1>3, <1>4, <1>5, MovedOne

\* Every step keeps the logs of the crawls.
LEMMA StepLog == Inv /\ LogInv /\ [Next]_vars => LogInv'
<1>. SUFFICES ASSUME Inv, LogInv, [Next]_vars PROVE LogInv'
  OBVIOUS
<1>1. UNCHANGED <<agent, snapshots>> => LogInv'
  BY DEF LogInv, Crawled
<1>2. CASE UNCHANGED vars
  BY <1>1, <1>2 DEF vars
<1>3. ASSUME NEW a \in Agent, Poll(a) PROVE LogInv'
  BY <1>1, <1>3 DEF Poll, vars
<1>4. CASE Tick
  BY <1>1, <1>4 DEF Tick
<1>5. ASSUME NEW c \in Connectors, NEW v \in Version, Edit(c, v) PROVE LogInv'
  BY <1>1, <1>5 DEF Edit
<1>. QED  BY <1>2, <1>3, <1>4, <1>5, LeaseLog, WorksLog, FailsLog DEF Next

\* No crawl is under way at the start.
LEMMA InitLog == Init => LogInv
<1>. SUFFICES ASSUME Init PROVE LogInv
  OBVIOUS
<1>1. Crawling(Idle)
  BY DEF Crawling, Idle
<1>2. \A a \in Agent : agent[a] = Idle
  BY DEF Init
<1>3. \A j \in Job : snapshots[j] = NoSnapshot
  BY DEF Init
<1>. QED  BY <1>1, <1>2, <1>3 DEF LogInv, Crawled

\* The logs are always those of crawls.
LEMMA SpecLog == Spec => []LogInv
<1>. QED  BY SpecInv, InitLog, StepLog, PTL DEF Spec

----------------------------------------------------------------------------
(* A crawl that saw one version alone. *)

\* The connectors of Collector are those of Crawl.
TheConnectors ==
  /\ \A c : Extractable(c) = CrawlExtractable(c)
  /\ \A c, w, log : Script(c, w, log) = CrawlScript(c, w, log)
  /\ \A c, w, log : Assemble(c, w, log) = CrawlAssemble(c, w, log)
  /\ \A c, v, call : Answer(c, v, call) = CrawlAnswer(c, v, call)
  /\ \A call : Tolerated(call) <=> CrawlTolerated(call)
  /\ Connectors \subseteq {"cisco-cucm", "avaya-aura", "slack", "microsoft-sfb-server",
                           "genesys-cloud", "microsoft-teams", "reference-memory"}

\* What an entry of a log that saw version v alone holds.
AnsweredIn(c, v, entry) ==
  \/ entry.rows = CrawlAnswer(c, v, entry.call) /\ entry.rows # Refused
  \/ entry.call = SmgrUsers /\ entry.rows = <<>>

\* All the kinds a connector extracts.
AllOf(c) == CrawlExtractable(c)

\* A finished crawl of everything that saw version v alone.
QuietLog(c, v, log) ==
  /\ IsRows(log)
  /\ \A i \in DOMAIN log :
       /\ i - 1 < Len(CrawlScript(c, AllOf(c), Prefix(log, i - 1)))
       /\ log[i].call = CrawlScript(c, AllOf(c), Prefix(log, i - 1))[i]
       /\ AnsweredIn(c, v, log[i])
  /\ ~(Len(log) < Len(CrawlScript(c, AllOf(c), log)))

\* A crawl that saw at most one version saw some version alone.
LEMMA OneVersion ==
  ASSUME NEW S, IsFiniteSet(S), S \subseteq Version, Cardinality(S) <= 1
  PROVE  \E v \in Version : S \subseteq {v}
<1>1. CASE S = {}
  BY <1>1, CollectorAssumption
<1>2. CASE S # {}
  <2>1. PICK v \in S : TRUE
    BY <1>2
  <2>2. IsFiniteSet(S \ {v}) /\ Cardinality(S \ {v}) = Cardinality(S) - 1
    BY <2>1, FS_RemoveElement
  <2>3. Cardinality(S \ {v}) \in Nat /\ Cardinality(S) \in Nat
    BY <2>2, FS_CardinalityType
  <2>4. Cardinality(S \ {v}) = 0
    BY <2>2, <2>3
  <2>5. S \ {v} = {}
    BY <2>2, <2>4, FS_EmptySet
  <2>. QED  BY <2>1, <2>5
<1>. QED  BY <1>1, <1>2

\* A quiet job's report is drawn from a finished crawl of one version.
LEMMA QuietCrawl ==
  ASSUME TheConnectors, LogInv, NEW j \in Job, Quiet(j)
  PROVE  \E v \in Version : \E log :
           /\ QuietLog(ConnectorOf[j], v, log)
           /\ snapshots[j].seen \subseteq {v}
           /\ Entities(j) = CrawlAssemble(ConnectorOf[j], AllOf(ConnectorOf[j]), log)
<1>. DEFINE c == ConnectorOf[j]
            w == Wanted(j)
<1>1. PICK log, seen : IsCrawl(snapshots[j], c, w, log, seen)
  BY DEF LogInv, Crawled, Quiet
<1>2. w = AllOf(c)
  BY DEF Quiet, Wanted, TheConnectors, AllOf
<1>3. snapshots[j] = [entities |-> Assemble(c, w, log), seen |-> seen]
  BY <1>1 DEF IsCrawl
<1>4. snapshots[j].seen = seen /\ snapshots[j].entities = Assemble(c, w, log)
  BY <1>3
<1>5. CrawlLog(c, w, log, seen) /\ ~(Len(log) < Len(CrawlScript(c, w, log)))
  BY <1>1 DEF IsCrawl, Finished, TheConnectors
<1>6. PICK v \in Version : seen \subseteq {v}
  <2>1. Cardinality(seen) <= 1
    BY <1>4 DEF Quiet
  <2>. QED  BY <1>5, <2>1, OneVersion DEF CrawlLog
<1>. HIDE DEF c, w
<1>7. ASSUME NEW i \in DOMAIN log
      PROVE  /\ i - 1 < Len(CrawlScript(c, w, Prefix(log, i - 1)))
             /\ log[i].call = CrawlScript(c, w, Prefix(log, i - 1))[i]
             /\ AnsweredIn(c, v, log[i])
  <2>1. Recorded(c, w, log, seen, i)
    BY <1>5 DEF CrawlLog
  <2>2. Answered(c, log[i], seen)
    BY <2>1 DEF Recorded
  <2>3. AnsweredIn(c, v, log[i])
    BY <1>6, <2>2 DEF Answered, AnsweredIn, TheConnectors, CrawlTolerated
  <2>. QED  BY <2>1, <2>3 DEF Recorded, TheConnectors
<1>8. QuietLog(c, v, log)
  BY <1>2, <1>5, <1>7 DEF QuietLog, CrawlLog
<1>9. Entities(j) = CrawlAssemble(c, AllOf(c), log)
  BY <1>2, <1>4 DEF Entities, TheConnectors
<1>. QED  BY <1>4, <1>6, <1>8, <1>9 DEF c

\* A script that asks for the same calls whatever was answered is read to its end.
LEMMA FixedScript ==
  ASSUME NEW c, NEW v, NEW log, QuietLog(c, v, log), NEW calls, IsRows(calls),
         \A l : CrawlScript(c, AllOf(c), l) = calls
  PROVE  /\ DOMAIN log = DOMAIN calls
         /\ \A i \in DOMAIN log : log[i].call = calls[i] /\ AnsweredIn(c, v, log[i])
<1>1. /\ Len(log) \in Nat /\ DOMAIN log = 1..Len(log)
      /\ Len(calls) \in Nat /\ DOMAIN calls = 1..Len(calls)
  BY RowsFacts DEF QuietLog
<1>2. \A i \in DOMAIN log : /\ i - 1 < Len(calls) /\ log[i].call = calls[i]
                            /\ AnsweredIn(c, v, log[i])
  BY DEF QuietLog
<1>3. ~(Len(log) < Len(calls))
  BY DEF QuietLog
<1>4. Len(log) <= Len(calls)
  <2>1. Len(log) # 0 => Len(log) \in DOMAIN log
    BY <1>1
  <2>. QED  BY <1>1, <1>2, <2>1
<1>5. Len(log) = Len(calls)
  <2>1. \A m, n \in Nat : m <= n /\ ~(m < n) => m = n
    OBVIOUS
  <2>. QED  BY <1>1, <1>3, <1>4, <2>1, Zenon
<1>6. DOMAIN log = DOMAIN calls
  BY <1>1, <1>5
<1>. QED  BY <1>2, <1>6

\* A list of one row.
LEMMA SingleRow ==
  ASSUME NEW x
  PROVE  IsRows(<<x>>) /\ Len(<<x>>) = 1 /\ DOMAIN <<x>> = {1} /\ <<x>>[1] = x /\ ToSet(<<x>>) = {x}
<1>1. <<x>> \in Seq({x}) /\ Len(<<x>>) = 1 /\ DOMAIN <<x>> = {1} /\ <<x>>[1] = x
  OBVIOUS
<1>2. IsRows(<<x>>)
  BY <1>1, RowsOfSeq
<1>. QED  BY <1>1, <1>2 DEF ToSet

----------------------------------------------------------------------------
\* The calls of CUCM, each once.
CucmScriptOf(calls) ==
      /\ IsRows(calls)
      /\ \A i \in DOMAIN calls : \E k \in DOMAIN CucmExtractors : calls[i] = CucmExtractors[k]
      /\ \A k \in DOMAIN CucmExtractors : \E i \in DOMAIN calls : calls[i] = CucmExtractors[k]
      /\ \A i, j \in DOMAIN calls : calls[i] = calls[j] => i = j

\* extract of CUCM calls every extractor, in the order of the table.
LEMMA CucmScript == CucmScriptOf(CucmCalls(CucmKinds))
<1>. DEFINE N == 16
            seqs == [k \in 1..N |-> <<CucmExtractors[k]>>]
            calls == CucmCalls(CucmKinds)
<1>1. DOMAIN CucmExtractors = 1..N
  BY DEF CucmExtractors
<1>2. \A k \in 1..N : CucmExtractors[k][1] \in CucmKinds
  BY <1>1 DEF CucmKinds
<1>3. calls = FlattenSeq(seqs)
  <2>1. [k \in DOMAIN CucmExtractors |->
           When(CucmExtractors[k][1] \in CucmKinds, <<CucmExtractors[k]>>)] = seqs
    BY <1>1, <1>2 DEF When
  <2>. HIDE DEF seqs
  <2>. QED  BY <2>1 DEF CucmCalls
<1>4. /\ N \in Nat /\ seqs = [k \in 1..N |-> seqs[k]]
      /\ \A k \in 1..N : seqs[k] = <<CucmExtractors[k]>>
  OBVIOUS
<1>5. \A k \in 1..N : /\ IsRows(seqs[k]) /\ DOMAIN seqs[k] = {1}
                      /\ seqs[k][1] = CucmExtractors[k]
  <2>. SUFFICES ASSUME NEW k \in 1..N
                PROVE  /\ IsRows(seqs[k]) /\ DOMAIN seqs[k] = {1}
                       /\ seqs[k][1] = CucmExtractors[k]
    OBVIOUS
  <2>1. seqs[k] = <<CucmExtractors[k]>>
    BY <1>4
  <2>. HIDE DEF seqs, N
  <2>. QED  BY <2>1, SingleRow
<1>. HIDE DEF seqs, N
<1>6. IsRows(calls) /\ Unfolds(calls, seqs, N)
  BY <1>3, <1>4, <1>5, FlattenUnfolds
<1>. HIDE DEF calls
<1>7. PICK at \in [DOMAIN calls -> Nat \X Nat] :
        /\ \A i \in DOMAIN calls : /\ at[i][1] \in 1..N
                                   /\ at[i][2] \in DOMAIN seqs[at[i][1]]
                                   /\ calls[i] = seqs[at[i][1]][at[i][2]]
        /\ \A i, j \in DOMAIN calls : at[i] = at[j] => i = j
        /\ \A k \in 1..N : \A l \in DOMAIN seqs[k] : \E i \in DOMAIN calls : at[i] = <<k, l>>
  BY <1>6 DEF Unfolds
<1>8. \A i \in DOMAIN calls : /\ at[i][1] \in 1..N /\ at[i] = <<at[i][1], 1>>
                              /\ calls[i] = CucmExtractors[at[i][1]]
  BY <1>5, <1>7
<1>9. \A k \in 1..N : \E i \in DOMAIN calls : calls[i] = CucmExtractors[k]
  <2>. SUFFICES ASSUME NEW k \in 1..N PROVE \E i \in DOMAIN calls : calls[i] = CucmExtractors[k]
    OBVIOUS
  <2>1. PICK i \in DOMAIN calls : at[i] = <<k, 1>>
    BY <1>5, <1>7
  <2>. QED  BY <1>8, <2>1
<1>10. \A k, l \in 1..N : CucmExtractors[k] = CucmExtractors[l] => k = l
  BY DEF CucmExtractors, N
<1>11. \A i, j \in DOMAIN calls : calls[i] = calls[j] => i = j
  BY <1>7, <1>8, <1>10
<1>12. CucmScriptOf(calls)
  BY <1>1, <1>6, <1>8, <1>9, <1>11 DEF CucmScriptOf
<1>. QED  BY <1>12 DEF calls

----------------------------------------------------------------------------
(* CUCM: one entity of each row that is kept. *)

\* s holds f[i] for the i of 1..n that are in K, each once.
SiftsBy(from, s, n, K, f) ==
  /\ from \in [DOMAIN s -> 1..n]
  /\ \A l \in DOMAIN s : from[l] \in K /\ s[l] = f[from[l]]
  /\ \A l, m \in DOMAIN s : from[l] = from[m] => l = m
  /\ \A i \in 1..n : i \in K => \E l \in DOMAIN s : from[l] = i

\* s holds the f[i] of K, whatever the places they come from.
Sifts(s, n, K, f) == \E from : SiftsBy(from, s, n, K, f)

\* Flattening the rows that pass a test holds each of them once.
LEMMA Sifted ==
  ASSUME NEW n \in Nat, NEW K, NEW f, NEW seqs,
         seqs = [i \in 1..n |-> When(i \in K, <<f[i]>>)]
  PROVE  IsRows(FlattenSeq(seqs)) /\ Sifts(FlattenSeq(seqs), n, K, f)
<1>. DEFINE s == FlattenSeq(seqs)
<1>1. ASSUME NEW i \in 1..n, i \in K
      PROVE  IsRows(seqs[i]) /\ DOMAIN seqs[i] = {1} /\ seqs[i][1] = f[i]
  <2>1. seqs[i] = <<f[i]>>
    BY <1>1 DEF When
  <2>. QED  BY <2>1, SingleRow
<1>2. ASSUME NEW i \in 1..n, i \notin K
      PROVE  IsRows(seqs[i]) /\ DOMAIN seqs[i] = {}
  <2>1. seqs[i] = <<>>
    BY <1>2 DEF When
  <2>2. IsRows(<<>>) /\ DOMAIN <<>> = {}
    BY DEF IsRows
  <2>. QED  BY <2>1, <2>2
<1>3. \A i \in 1..n : IsRows(seqs[i])
  BY <1>1, <1>2
<1>4. seqs = [i \in 1..n |-> seqs[i]]
  OBVIOUS
<1>5. IsRows(s) /\ Unfolds(s, seqs, n)
  BY <1>3, <1>4, FlattenUnfolds
<1>. HIDE DEF s
<1>6. PICK at \in [DOMAIN s -> Nat \X Nat] :
        /\ \A i \in DOMAIN s : /\ at[i][1] \in 1..n
                               /\ at[i][2] \in DOMAIN seqs[at[i][1]]
                               /\ s[i] = seqs[at[i][1]][at[i][2]]
        /\ \A i, j \in DOMAIN s : at[i] = at[j] => i = j
        /\ \A k \in 1..n : \A l \in DOMAIN seqs[k] : \E i \in DOMAIN s : at[i] = <<k, l>>
  BY <1>5 DEF Unfolds
<1>7. ASSUME NEW l \in DOMAIN s
      PROVE  /\ at[l][1] \in 1..n /\ at[l][1] \in K /\ at[l] = <<at[l][1], 1>>
             /\ s[l] = f[at[l][1]]
  <2>1. at[l][1] \in 1..n /\ at[l][2] \in DOMAIN seqs[at[l][1]] /\ at[l] \in Nat \X Nat
    BY <1>6
  <2>2. at[l][1] \in K
    BY <1>2, <2>1
  <2>3. at[l][2] = 1 /\ s[l] = f[at[l][1]]
    <3>1. PICK k \in 1..n : k = at[l][1]
      BY <2>1
    <3>2. DOMAIN seqs[k] = {1} /\ seqs[k][1] = f[k]
      BY <1>1, <2>2, <3>1
    <3>3. at[l][2] = 1
      BY <2>1, <3>1, <3>2
    <3>4. s[l] = seqs[k][at[l][2]]
      BY <1>6, <3>1
    <3>. QED  BY <3>1, <3>2, <3>3, <3>4
  <2>4. at[l] = <<at[l][1], at[l][2]>>
    BY <2>1
  <2>. QED  BY <2>1, <2>2, <2>3, <2>4
<1>. DEFINE from == [l \in DOMAIN s |-> at[l][1]]
<1>8. from \in [DOMAIN s -> 1..n] /\ \A l \in DOMAIN s : from[l] = at[l][1]
  BY <1>7
<1>. HIDE DEF from
<1>9. \A l \in DOMAIN s : from[l] \in K /\ s[l] = f[from[l]]
  BY <1>7, <1>8
<1>10. \A l, m \in DOMAIN s : from[l] = from[m] => l = m
  <2>. SUFFICES ASSUME NEW l \in DOMAIN s, NEW m \in DOMAIN s, from[l] = from[m] PROVE l = m
    OBVIOUS
  <2>1. at[l] = at[m]
    BY <1>7, <1>8
  <2>. QED  BY <1>6, <2>1
<1>11. ASSUME NEW i \in 1..n, i \in K PROVE \E l \in DOMAIN s : from[l] = i
  <2>1. 1 \in DOMAIN seqs[i]
    BY <1>1, <1>11
  <2>2. PICK l \in DOMAIN s : at[l] = <<i, 1>>
    BY <1>6, <2>1
  <2>3. from[l] = i
    BY <1>8, <2>2
  <2>. QED  BY <2>3
<1>12. Sifts(s, n, K, f)
  BY <1>8, <1>9, <1>10, <1>11 DEF Sifts, SiftsBy
<1>. QED  BY <1>5, <1>12 DEF s

----------------------------------------------------------------------------
\* The rows the connector makes an entity of.
KeptRows(kind, rows) == {i \in DOMAIN rows : kind = "Extension" => IsExtension(rows[i])}

\* The mapper of a call makes one entity of each row it keeps.
LEMMA CucmMapSifts ==
  ASSUME NEW kind, NEW rows, IsRows(rows), NEW f, f = [i \in DOMAIN rows |-> CucmEntity(kind, rows[i])]
  PROVE  /\ IsRows(CucmMap(kind, rows))
         /\ Sifts(CucmMap(kind, rows), Len(rows), KeptRows(kind, rows), f)
<1>. DEFINE n == Len(rows)
            K == KeptRows(kind, rows)
<1>1. n \in Nat /\ DOMAIN rows = 1..n
  BY RowsFacts
<1>2. CASE kind = "Extension"
  <2>. DEFINE seqs == [i \in 1..n |-> When(i \in K, <<f[i]>>)]
              kept == [i \in 1..n |-> When(IsExtension(rows[i]), <<MapExtension(rows[i])>>)]
  <2>1. ASSUME NEW i \in 1..n
        PROVE  When(i \in K, <<f[i]>>) = When(IsExtension(rows[i]), <<MapExtension(rows[i])>>)
    <3>1. f[i] = MapExtension(rows[i])
      BY <1>1, <1>2 DEF CucmEntity
    <3>2. i \in K <=> IsExtension(rows[i])
      BY <1>1, <1>2 DEF KeptRows
    <3>. QED  BY <3>1, <3>2 DEF When
  <2>2. seqs = kept
    BY <2>1
  <2>3. CucmMap(kind, rows) = FlattenSeq(kept)
    BY <1>1, <1>2 DEF CucmMap, MappedWhen
  <2>. HIDE DEF kept, K, n
  <2>4. IsRows(FlattenSeq(seqs)) /\ Sifts(FlattenSeq(seqs), n, K, f)
    BY <1>1, Sifted
  <2>. HIDE DEF seqs
  <2>. QED  BY <2>2, <2>3, <2>4 DEF K, n
<1>3. CASE kind # "Extension"
  <2>1. CucmMap(kind, rows) = f
    BY <1>3 DEF CucmMap
  <2>2. DOMAIN f = 1..n /\ f = [i \in 1..n |-> f[i]]
    BY <1>1
  <2>3. IsRows(f)
    BY <1>1, <2>2, RowsOfFunction
  <2>4. K = 1..n
    BY <1>1, <1>3 DEF KeptRows
  <2>5. Sifts(f, n, K, f)
    <3>. DEFINE from == [i \in 1..n |-> i]
    <3>1. from \in [DOMAIN f -> 1..n] /\ \A i \in 1..n : from[i] = i
      BY <2>2
    <3>. HIDE DEF from
    <3>. QED  BY <2>2, <2>4, <3>1 DEF Sifts, SiftsBy
  <2>. QED  BY <2>1, <2>3, <2>5
<1>. QED  BY <1>2, <1>3

\* An entity of a kind, as the mappers make it.
IsEntity(e, kind) ==
  e = [kind |-> kind, key |-> e.key, refs |-> e.refs, owner |-> None, fidelity |-> e.fidelity]

\* Entity makes an entity of the kind asked for.
LEMMA EntityIsEntity ==
  ASSUME NEW kind, NEW key, NEW refs, NEW f
  PROVE  /\ IsEntity(Entity(kind, key, refs, f), kind)
         /\ Entity(kind, key, refs, f).kind = kind
         /\ Entity(kind, key, refs, f).key = key
         /\ Entity(kind, key, refs, f).refs = refs
BY DEF IsEntity, Entity

\* The mapper of a kind makes entities of that kind.
LEMMA CucmEntityKind ==
  ASSUME NEW kind \in CucmKinds, NEW r
  PROVE  IsEntity(CucmEntity(kind, r), kind)
<1>. USE EntityIsEntity
<1>1. CASE kind = "Partition"
  BY <1>1 DEF CucmEntity, MapPartition
<1>2. CASE kind = "CallingPermission"
  BY <1>2 DEF CucmEntity, MapCallingPermission
<1>3. CASE kind = "DevicePool"
  BY <1>3 DEF CucmEntity, MapDevicePool
<1>4. CASE kind = "Extension"
  BY <1>4 DEF CucmEntity, MapExtension
<1>5. CASE kind = "Line"
  BY <1>5 DEF CucmEntity, MapLine
<1>6. CASE kind = "User"
  BY <1>6 DEF CucmEntity, MapUser
<1>7. CASE kind = "Device"
  BY <1>7 DEF CucmEntity, MapDevice
<1>8. CASE kind = "DeviceProfile"
  BY <1>8 DEF CucmEntity, MapDeviceProfile
<1>9. CASE kind = "RoutePattern"
  BY <1>9 DEF CucmEntity, MapRoutePattern
<1>10. CASE kind = "TranslationPattern"
  BY <1>10 DEF CucmEntity, MapTranslationPattern
<1>11. CASE kind = "RouteList"
  BY <1>11 DEF CucmEntity, MapRouteList
<1>12. CASE kind = "RouteGroup"
  BY <1>12 DEF CucmEntity, MapRouteGroup
<1>13. CASE kind = "LineGroup"
  BY <1>13 DEF CucmEntity, MapLineGroup
<1>14. CASE kind = "HuntGroup"
  BY <1>14 DEF CucmEntity, MapHuntGroup
<1>15. CASE kind = "PickupGroup"
  BY <1>15 DEF CucmEntity, MapPickupGroup
<1>16. CASE kind = "SIPTrunk"
  BY <1>16 DEF CucmEntity, MapSipTrunk
<1>17. \A k \in DOMAIN CucmExtractors :
         CucmExtractors[k][1] \in {"Partition", "CallingPermission", "DevicePool", "Extension",
           "Line", "User", "Device", "DeviceProfile", "RoutePattern", "TranslationPattern",
           "RouteList", "RouteGroup", "LineGroup", "HuntGroup", "PickupGroup", "SIPTrunk"}
  BY DEF CucmExtractors
<1>. QED  BY <1>1, <1>2, <1>3, <1>4, <1>5, <1>6, <1>7, <1>8, <1>9, <1>10, <1>11, <1>12,
         <1>13, <1>14, <1>15, <1>16, <1>17 DEF CucmKinds

----------------------------------------------------------------------------

\* The rows extractor k is answered in version v.
RowsOf(v, k) == Estate("cisco-cucm", v, CucmExtractors[k][2])

\* The kind extractor k reads.
KindAt(k) == CucmExtractors[k][1]

\* The rows of extractor k that become entities.
KeptAt(v, k) == KeptRows(KindAt(k), RowsOf(v, k))

\* The entity made of row l of extractor k.
EntityAt(v, k, l) == CucmEntity(KindAt(k), RowsOf(v, k)[l])

\* An entry of a log that extractor k was called for.
IsCall(v, e, k) == e.call = CucmExtractors[k] /\ e.rows = RowsOf(v, k)

\* Every extractor is called once and answered in version v.
CucmLogOf(v, log) ==
  /\ IsRows(log)
  /\ \A i \in DOMAIN log : \E k \in DOMAIN CucmExtractors : IsCall(v, log[i], k)
  /\ \A k \in DOMAIN CucmExtractors : \E i \in DOMAIN log : IsCall(v, log[i], k)
  /\ \A i, j \in DOMAIN log : log[i].call = log[j].call => i = j
  /\ \A k \in DOMAIN CucmExtractors : RowsOf(v, k) # Refused

\* Every extractor has a read of the AXL API and a kind of its own.
LEMMA ExtractorFacts ==
  ASSUME NEW k \in DOMAIN CucmExtractors
  PROVE  /\ CucmExtractors[k] # SmgrUsers
         /\ CucmExtractors[k] # <<>>
         /\ CucmExtractors[k][2] \in AxlReads
         /\ KindAt(k) \in CucmKinds
<1>1. CucmExtractors[k][1] # "SMGR"
  BY DEF CucmExtractors
<1>4. CucmExtractors[k] # <<>>
  BY DEF CucmExtractors
<1>5. KindAt(k) \in CucmKinds
  BY DEF CucmKinds, KindAt
<1>2. CucmExtractors[k][2] \in AxlReads
  BY DEF CucmExtractors, AxlReads
<1>3. SmgrUsers[1] = "SMGR"
  BY DEF SmgrUsers
<1>. QED  BY <1>1, <1>2, <1>3, <1>4, <1>5

\* An extractor is answered with the rows of the estate.
LEMMA CucmAnswer ==
  ASSUME NEW v, NEW k \in DOMAIN CucmExtractors
  PROVE  CrawlAnswer("cisco-cucm", v, CucmExtractors[k]) = RowsOf(v, k)
<1>1. Permitted("cisco-cucm", CucmExtractors[k])
  BY ExtractorFacts DEF Permitted, AxlPermits
<1>2. Request("cisco-cucm", CucmExtractors[k]) = CucmExtractors[k][2]
  BY DEF Request
<1>. QED  BY <1>1, <1>2 DEF CrawlAnswer, RowsOf

\* A full crawl of CUCM extracts every kind.
LEMMA CucmAll == AllOf("cisco-cucm") = CucmKinds
BY DEF AllOf, CrawlExtractable

\* The log of a quiet crawl of CUCM has every extractor once, answered.
LEMMA CucmLog ==
  ASSUME NEW v \in Version, NEW log, QuietLog("cisco-cucm", v, log)
  PROVE  CucmLogOf(v, log)
<1>. DEFINE calls == CucmCalls(CucmKinds)
<1>1. CucmScriptOf(calls)
  BY CucmScript
<1>2. \A l : CrawlScript("cisco-cucm", AllOf("cisco-cucm"), l) = calls
  BY CucmAll DEF CrawlScript
<1>. HIDE DEF calls
<1>3. IsRows(calls)
  BY <1>1 DEF CucmScriptOf
<1>4. /\ DOMAIN log = DOMAIN calls
      /\ \A i \in DOMAIN log : log[i].call = calls[i] /\ AnsweredIn("cisco-cucm", v, log[i])
  BY <1>2, <1>3, FixedScript
<1>5. ASSUME NEW i \in DOMAIN log, NEW k \in DOMAIN CucmExtractors, calls[i] = CucmExtractors[k]
      PROVE  IsCall(v, log[i], k) /\ RowsOf(v, k) # Refused
  <2>1. log[i].call = CucmExtractors[k] /\ log[i].call # SmgrUsers
    BY <1>4, <1>5, ExtractorFacts
  <2>2. log[i].rows = RowsOf(v, k) /\ log[i].rows # Refused
    BY <1>4, <2>1, CucmAnswer DEF AnsweredIn
  <2>. QED  BY <2>1, <2>2 DEF IsCall
<1>6. \A i \in DOMAIN log : \E k \in DOMAIN CucmExtractors : IsCall(v, log[i], k)
  BY <1>1, <1>4, <1>5 DEF CucmScriptOf
<1>7. \A k \in DOMAIN CucmExtractors : \E i \in DOMAIN log : IsCall(v, log[i], k)
  BY <1>1, <1>4, <1>5 DEF CucmScriptOf
<1>8. \A i, j \in DOMAIN log : log[i].call = log[j].call => i = j
  BY <1>1, <1>4 DEF CucmScriptOf
<1>9. \A k \in DOMAIN CucmExtractors : RowsOf(v, k) # Refused
  BY <1>1, <1>4, <1>5 DEF CucmScriptOf
<1>10. IsRows(log)
  BY DEF QuietLog
<1>. QED  BY <1>6, <1>7, <1>8, <1>9, <1>10 DEF CucmLogOf

\* The rows of an extractor that answered, and which of them have a partition.
LEMMA CucmRowsFacts ==
  ASSUME NEW v \in Version, NEW k \in DOMAIN CucmExtractors, RowsOf(v, k) # Refused
  PROVE  /\ IsRows(RowsOf(v, k))
         /\ \A r \in ToSet(RowsOf(v, k)) :
              "partition" \in DOMAIN r => CucmExtractors[k][2] \in Partitioned
BY EstateAssumption DEF CucmAnswers, RowsOf

----------------------------------------------------------------------------
\* The entities as extract collects them, before owners are linked.
Collected(log) == FlattenSeq([i \in DOMAIN log |-> CucmMap(log[i].call[1], log[i].rows)])

\* Where each entity collected comes from: its call, and the row of its answer.
PlacedBy(kk, ll, s, v) ==
  /\ \A i \in DOMAIN s : /\ kk[i] \in DOMAIN CucmExtractors
                         /\ ll[i] \in KeptAt(v, kk[i])
                         /\ s[i] = EntityAt(v, kk[i], ll[i])
  /\ \A i, j \in DOMAIN s : kk[i] = kk[j] /\ ll[i] = ll[j] => i = j
  /\ \A k \in DOMAIN CucmExtractors : \A l \in KeptAt(v, k) :
       \E i \in DOMAIN s : kk[i] = k /\ ll[i] = l

\* Every entity collected comes from one kept row, and every kept row has one.
LEMMA CollectedPlaced ==
  ASSUME NEW v \in Version, NEW log, CucmLogOf(v, log)
  PROVE  IsRows(Collected(log)) /\ \E kk, ll : PlacedBy(kk, ll, Collected(log), v)
<1>. DEFINE n == Len(log)
            num == [i \in 1..n |-> CHOOSE k \in DOMAIN CucmExtractors : IsCall(v, log[i], k)]
            made == [i \in 1..n |-> [l \in DOMAIN RowsOf(v, num[i]) |-> EntityAt(v, num[i], l)]]
            seqs == [i \in 1..n |-> CucmMap(log[i].call[1], log[i].rows)]
            by(i, from) == SiftsBy(from, seqs[i], Len(RowsOf(v, num[i])), KeptAt(v, num[i]), made[i])
            frm == [i \in 1..n |-> CHOOSE from : by(i, from)]
            s == Collected(log)
<1>1. n \in Nat /\ DOMAIN log = 1..n
  BY RowsFacts DEF CucmLogOf
<1>2. \A i \in 1..n : num[i] \in DOMAIN CucmExtractors /\ IsCall(v, log[i], num[i])
  BY <1>1 DEF CucmLogOf
<1>3. \A k, l \in DOMAIN CucmExtractors : CucmExtractors[k] = CucmExtractors[l] => k = l
  BY DEF CucmExtractors
<1>. HIDE DEF num
<1>4. ASSUME NEW i \in 1..n
      PROVE  /\ IsRows(RowsOf(v, num[i]))
             /\ DOMAIN RowsOf(v, num[i]) = 1..Len(RowsOf(v, num[i]))
             /\ seqs[i] = CucmMap(KindAt(num[i]), RowsOf(v, num[i]))
  <2>1. IsRows(RowsOf(v, num[i]))
    BY <1>2, CucmRowsFacts DEF CucmLogOf
  <2>2. log[i].call[1] = KindAt(num[i]) /\ log[i].rows = RowsOf(v, num[i])
    BY <1>2 DEF IsCall, KindAt
  <2>. QED  BY <2>1, <2>2, RowsFacts
<1>5. ASSUME NEW i \in 1..n
      PROVE  IsRows(seqs[i]) /\ by(i, frm[i])
  <2>1. made[i] = [l \in DOMAIN RowsOf(v, num[i]) |->
                     CucmEntity(KindAt(num[i]), RowsOf(v, num[i])[l])]
    BY DEF EntityAt
  <2>. HIDE DEF made, seqs
  <2>2. /\ IsRows(seqs[i])
        /\ Sifts(seqs[i], Len(RowsOf(v, num[i])), KeptAt(v, num[i]), made[i])
    BY <1>4, <2>1, CucmMapSifts DEF KeptAt
  <2>3. \E from : by(i, from)
    BY <2>2 DEF Sifts
  <2>. HIDE DEF by
  <2>. QED  BY <2>2, <2>3
<1>6. s = FlattenSeq(seqs)
  BY <1>1 DEF Collected
<1>7. seqs = [i \in 1..n |-> seqs[i]]
  OBVIOUS
<1>8. \A i \in 1..n : \A l \in DOMAIN RowsOf(v, num[i]) : made[i][l] = EntityAt(v, num[i], l)
  OBVIOUS
<1>. HIDE DEF s, seqs, made, frm, n
<1>9. IsRows(s) /\ Unfolds(s, seqs, n)
  BY <1>1, <1>5, <1>6, <1>7, FlattenUnfolds
<1>10. PICK at \in [DOMAIN s -> Nat \X Nat] :
        /\ \A i \in DOMAIN s : /\ at[i][1] \in 1..n
                               /\ at[i][2] \in DOMAIN seqs[at[i][1]]
                               /\ s[i] = seqs[at[i][1]][at[i][2]]
        /\ \A i, j \in DOMAIN s : at[i] = at[j] => i = j
        /\ \A k \in 1..n : \A l \in DOMAIN seqs[k] : \E i \in DOMAIN s : at[i] = <<k, l>>
  BY <1>9 DEF Unfolds
<1>. DEFINE kk == [i \in DOMAIN s |-> num[at[i][1]]]
            ll == [i \in DOMAIN s |-> frm[at[i][1]][at[i][2]]]
<1>11. \A i \in DOMAIN s : kk[i] = num[at[i][1]] /\ ll[i] = frm[at[i][1]][at[i][2]]
  OBVIOUS
<1>. HIDE DEF kk, ll
\* What the entries of call m hold, by the rows they come from.
<1>12. ASSUME NEW m \in 1..n, NEW q \in DOMAIN seqs[m]
       PROVE  /\ frm[m][q] \in KeptAt(v, num[m])
              /\ seqs[m][q] = EntityAt(v, num[m], frm[m][q])
  <2>1. /\ frm[m][q] \in KeptAt(v, num[m])
        /\ seqs[m][q] = made[m][frm[m][q]]
    BY <1>5 DEF SiftsBy
  <2>2. frm[m][q] \in DOMAIN RowsOf(v, num[m])
    BY <2>1 DEF KeptAt, KeptRows
  <2>. QED  BY <1>8, <2>1, <2>2
<1>13. ASSUME NEW i \in DOMAIN s
       PROVE  /\ kk[i] \in DOMAIN CucmExtractors
              /\ ll[i] \in KeptAt(v, kk[i])
              /\ s[i] = EntityAt(v, kk[i], ll[i])
  <2>1. PICK m \in 1..n : m = at[i][1]
    BY <1>10
  <2>2. PICK q \in DOMAIN seqs[m] : q = at[i][2]
    BY <1>10, <2>1
  <2>3. s[i] = seqs[m][q] /\ kk[i] = num[m] /\ ll[i] = frm[m][q]
    BY <1>10, <1>11, <2>1, <2>2
  <2>. QED  BY <1>2, <1>12, <2>3
<1>14. ASSUME NEW i \in DOMAIN s, NEW j \in DOMAIN s, kk[i] = kk[j], ll[i] = ll[j]
       PROVE  i = j
  <2>1. PICK m \in 1..n, o \in 1..n : m = at[i][1] /\ o = at[j][1]
    BY <1>10
  <2>2. num[m] = num[o]
    BY <1>11, <1>14, <2>1
  <2>3. log[m].call = log[o].call
    BY <1>2, <2>2 DEF IsCall
  <2>4. m = o
    BY <1>1, <2>3 DEF CucmLogOf
  <2>5. PICK p \in DOMAIN seqs[m], q \in DOMAIN seqs[m] : p = at[i][2] /\ q = at[j][2]
    BY <1>10, <2>1, <2>4
  <2>6. frm[m][p] = frm[m][q]
    BY <1>11, <1>14, <2>1, <2>4, <2>5
  <2>7. p = q
    BY <1>5, <2>6 DEF SiftsBy
  <2>9. at[i] = <<at[i][1], at[i][2]>> /\ at[j] = <<at[j][1], at[j][2]>>
    BY <1>10
  <2>8. at[i] = at[j]
    BY <2>1, <2>4, <2>5, <2>7, <2>9
  <2>. QED  BY <1>10, <2>8
<1>15. ASSUME NEW k \in DOMAIN CucmExtractors, NEW l \in KeptAt(v, k)
       PROVE  \E i \in DOMAIN s : kk[i] = k /\ ll[i] = l
  <2>1. PICK m \in 1..n : IsCall(v, log[m], k)
    BY <1>1 DEF CucmLogOf
  <2>2. num[m] = k
    BY <1>2, <1>3, <2>1 DEF IsCall
  <2>3. l \in 1..Len(RowsOf(v, num[m]))
    BY <1>4, <2>2 DEF KeptAt, KeptRows
  <2>4. PICK q \in DOMAIN seqs[m] : frm[m][q] = l
    BY <1>5, <2>2, <2>3 DEF SiftsBy
  <2>5. PICK i \in DOMAIN s : at[i] = <<m, q>>
    BY <1>10
  <2>6. at[i][1] = m /\ at[i][2] = q
    BY <2>5
  <2>. QED  BY <1>11, <2>2, <2>4, <2>6
<1>16. PlacedBy(kk, ll, s, v)
  BY <1>13, <1>14, <1>15 DEF PlacedBy
<1>. QED  BY <1>9, <1>16 DEF s

----------------------------------------------------------------------------
(* CUCM: a partition called unused. *)

\* _link_extension_owners gives an owner and changes nothing else.
LEMMA LinkKeeps ==
  ASSUME NEW s, NEW i \in DOMAIN s, NEW kind, IsEntity(s[i], kind)
  PROVE  /\ DOMAIN LinkOwners(s) = DOMAIN s
         /\ LinkOwners(s)[i].kind = s[i].kind
         /\ LinkOwners(s)[i].key = s[i].key
         /\ LinkOwners(s)[i].refs = s[i].refs
<1>. DEFINE e == s[i]
<1>1. \A x : Owned(e, x, s) = e \/ \E o : Owned(e, x, s) = [e EXCEPT !.owner = o]
  BY DEF Owned
<1>2. \A o : /\ [e EXCEPT !.owner = o].kind = e.kind
             /\ [e EXCEPT !.owner = o].key = e.key
             /\ [e EXCEPT !.owner = o].refs = e.refs
  BY DEF IsEntity
<1>3. LinkOwners(s)[i] = e \/ \E x : LinkOwners(s)[i] = Owned(e, x, s)
  BY DEF LinkOwners
<1>4. DOMAIN LinkOwners(s) = DOMAIN s
  BY DEF LinkOwners
<1>. HIDE DEF e
<1>5. /\ LinkOwners(s)[i].kind = e.kind
      /\ LinkOwners(s)[i].key = e.key
      /\ LinkOwners(s)[i].refs = e.refs
  <2>1. CASE LinkOwners(s)[i] = e
    BY <2>1
  <2>2. ASSUME NEW o, LinkOwners(s)[i] = [e EXCEPT !.owner = o]
        PROVE  /\ LinkOwners(s)[i].kind = e.kind
               /\ LinkOwners(s)[i].key = e.key
               /\ LinkOwners(s)[i].refs = e.refs
    BY <1>2, <2>2, Zenon
  <2>. QED  BY <1>1, <1>3, <2>1, <2>2
<1>. QED  BY <1>4, <1>5 DEF e

\* The entities of a quiet crawl, by the rows they come from.
CucmPlaced(kk, ll, ents, v) ==
  /\ IsRows(ents)
  /\ \A i \in DOMAIN ents :
       /\ kk[i] \in DOMAIN CucmExtractors
       /\ ll[i] \in KeptAt(v, kk[i])
       /\ ents[i].kind = KindAt(kk[i])
       /\ ents[i].key = EntityAt(v, kk[i], ll[i]).key
       /\ ents[i].refs = EntityAt(v, kk[i], ll[i]).refs
  /\ \A i, j \in DOMAIN ents : kk[i] = kk[j] /\ ll[i] = ll[j] => i = j
  /\ \A k \in DOMAIN CucmExtractors : \A l \in KeptAt(v, k) :
       \E i \in DOMAIN ents : kk[i] = k /\ ll[i] = l

\* The same of the entities with their owners linked.
LEMMA CucmEntitiesPlaced ==
  ASSUME NEW v \in Version, NEW log, CucmLogOf(v, log)
  PROVE  \E kk, ll : CucmPlaced(kk, ll, CucmEntities(log), v)
<1>. DEFINE s == Collected(log)
            ents == LinkOwners(s)
<1>1. PICK kk, ll : PlacedBy(kk, ll, s, v)
  BY CollectedPlaced
<1>2. IsRows(s)
  BY CollectedPlaced
<1>3. CucmEntities(log) = ents
  BY DEF CucmEntities, Collected
<1>. HIDE DEF s
<1>4. \A i \in DOMAIN s : IsEntity(s[i], KindAt(kk[i]))
  BY <1>1, ExtractorFacts, CucmEntityKind DEF PlacedBy, EntityAt
<1>5. DOMAIN ents = DOMAIN s /\ ents = [i \in DOMAIN s |-> ents[i]]
  BY DEF LinkOwners
<1>6. IsRows(ents)
  BY <1>2, <1>5, RowsFacts, RowsOfFunction
<1>. HIDE DEF ents
<1>7. ASSUME NEW i \in DOMAIN s
      PROVE  /\ ents[i].kind = KindAt(kk[i])
             /\ ents[i].key = EntityAt(v, kk[i], ll[i]).key
             /\ ents[i].refs = EntityAt(v, kk[i], ll[i]).refs
  <2>1. s[i].kind = KindAt(kk[i])
    BY <1>4 DEF IsEntity
  <2>2. s[i] = EntityAt(v, kk[i], ll[i])
    BY <1>1 DEF PlacedBy
  <2>3. ents[i].kind = s[i].kind /\ ents[i].key = s[i].key /\ ents[i].refs = s[i].refs
    BY <1>4, LinkKeeps DEF ents
  <2>. QED  BY <2>1, <2>2, <2>3
<1>8. CucmPlaced(kk, ll, ents, v)
  BY <1>1, <1>5, <1>6, <1>7 DEF CucmPlaced, PlacedBy
<1>. QED  BY <1>3, <1>8

----------------------------------------------------------------------------
\* The kinds whose entities refer to the partition of their row.
Namers == {"Line", "RoutePattern", "TranslationPattern", "HuntGroup", "PickupGroup"}

\* An entity of these kinds refers to its partition.
LEMMA NamersRefer ==
  ASSUME NEW kind \in Namers, NEW r, r.partition # None
  PROVE  Id("Partition", <<r.partition>>) \in CucmEntity(kind, r).refs
<1>1. Id("Partition", <<r.partition>>) \in Ref("Partition", r.partition)
  BY DEF Ref
<1>2. CASE kind = "Line"
  <2>1. CucmEntity(kind, r) = MapLine(r)
    BY <1>2 DEF CucmEntity
  <2>2. Id("Partition", <<r.partition>>) \in MapLine(r).refs
    BY <1>1 DEF MapLine, Entity
  <2>. QED  BY <2>1, <2>2
<1>3. CASE kind = "RoutePattern"
  <2>1. CucmEntity(kind, r) = MapRoutePattern(r)
    BY <1>3 DEF CucmEntity
  <2>2. Id("Partition", <<r.partition>>) \in MapRoutePattern(r).refs
    BY <1>1 DEF MapRoutePattern, Entity
  <2>. QED  BY <2>1, <2>2
<1>4. CASE kind = "TranslationPattern"
  <2>1. CucmEntity(kind, r) = MapTranslationPattern(r)
    BY <1>4 DEF CucmEntity
  <2>2. Id("Partition", <<r.partition>>) \in MapTranslationPattern(r).refs
    BY <1>1 DEF MapTranslationPattern, Entity
  <2>. QED  BY <2>1, <2>2
<1>5. CASE kind = "HuntGroup"
  <2>1. CucmEntity(kind, r) = MapHuntGroup(r)
    BY <1>5 DEF CucmEntity
  <2>2. Id("Partition", <<r.partition>>) \in MapHuntGroup(r).refs
    BY <1>1 DEF MapHuntGroup, Entity
  <2>. QED  BY <2>1, <2>2
<1>6. CASE kind = "PickupGroup"
  <2>1. CucmEntity(kind, r) = MapPickupGroup(r)
    BY <1>6 DEF CucmEntity
  <2>2. Id("Partition", <<r.partition>>) \in MapPickupGroup(r).refs
    BY <1>1 DEF MapPickupGroup, Entity
  <2>. QED  BY <2>1, <2>2
<1>. QED  BY <1>2, <1>3, <1>4, <1>5, <1>6 DEF Namers

\* An object of a partition is read by a call whose rows name it to the model:
\* that of the extensions skips some, and that of the lines reads them all.
LEMMA NamingCall ==
  ASSUME NEW k \in DOMAIN CucmExtractors, CucmExtractors[k][2] \in Partitioned
  PROVE  \E m \in DOMAIN CucmExtractors :
           KindAt(m) \in Namers /\ CucmExtractors[m][2] = CucmExtractors[k][2]
<1>1. KindAt(k) \in Namers \/ (k = 4 /\ CucmExtractors[k][2] = "listLine")
  BY DEF CucmExtractors, Partitioned, Namers, KindAt
<1>2. /\ 5 \in DOMAIN CucmExtractors
      /\ KindAt(5) \in Namers /\ CucmExtractors[5][2] = "listLine"
  BY DEF CucmExtractors, Namers, KindAt
<1>. QED  BY <1>1, <1>2

\* A row of listRoutePartition becomes a partition under its name.
LEMMA PartitionFacts ==
  ASSUME NEW v \in Version, NEW k \in DOMAIN CucmExtractors, KindAt(k) = "Partition",
         RowsOf(v, k) # Refused, NEW r \in ToSet(RowsOf(v, k))
  PROVE  r.name # None /\ CucmEntity("Partition", r).key = <<r.name>>
<1>1. CucmExtractors[k][2] = "listRoutePartition"
  BY DEF CucmExtractors, KindAt
<1>2. CucmAnswers(v)
  BY EstateAssumption
<1>3. r.name # None
  BY <1>1, <1>2 DEF CucmAnswers, RowsOf
<1>4. CucmEntity("Partition", r).key = <<r.name>>
  <2>1. CucmEntity("Partition", r) = MapPartition(r)
    BY DEF CucmEntity
  <2>. QED  BY <2>1 DEF MapPartition, Entity
<1>. QED  BY <1>3, <1>4

\* A partition nothing collected refers to is named by no row of the version:
\* not as the partition of an object, not in a calling search space.
LEMMA CucmUnused ==
  ASSUME NEW v \in Version, NEW log, CucmLogOf(v, log),
         NEW p \in UnusedPartitions(CucmEntities(log)),
         NEW k \in DOMAIN CucmExtractors, NEW r \in ToSet(RowsOf(v, k))
  PROVE  /\ "partition" \in DOMAIN r => r.partition # p
         /\ "members" \in DOMAIN r /\ KindAt(k) = "CallingPermission" => p \notin r.members
<1>. DEFINE ents == CucmEntities(log)
<1>1. PICK kk, ll : CucmPlaced(kk, ll, ents, v)
  BY CucmEntitiesPlaced
<1>2. \A m \in DOMAIN CucmExtractors : RowsOf(v, m) # Refused /\ IsRows(RowsOf(v, m))
  BY CucmRowsFacts DEF CucmLogOf
<1>3. PICK e \in ToSet(ents) : /\ e.kind = "Partition" /\ p = e.key[1]
                               /\ \A x \in ToSet(ents) : IdOf(e) \notin x.refs
  BY DEF UnusedPartitions, OfKind
<1>. HIDE DEF ents
<1>4. p # None /\ IdOf(e) = Id("Partition", <<p>>)
  <2>1. PICK i \in DOMAIN ents : e = ents[i]
    BY <1>3 DEF ToSet
  <2>2. PICK m \in DOMAIN CucmExtractors, l \in {ll[i]} : m = kk[i] /\ l = ll[i]
    BY <1>1 DEF CucmPlaced
  <2>3. /\ l \in DOMAIN RowsOf(v, m) /\ KindAt(m) = "Partition"
        /\ e.key = CucmEntity("Partition", RowsOf(v, m)[l]).key
    BY <1>1, <1>3, <2>1, <2>2 DEF CucmPlaced, KeptAt, KeptRows, EntityAt
  <2>4. RowsOf(v, m)[l] \in ToSet(RowsOf(v, m))
    BY <2>3 DEF ToSet
  <2>5. RowsOf(v, m)[l].name # None /\ e.key = <<RowsOf(v, m)[l].name>>
    BY <1>2, <2>3, <2>4, PartitionFacts
  <2>. QED  BY <1>3, <2>5 DEF IdOf
\* Whatever a row that is kept refers to, the partition is not.
<1>5. ASSUME NEW m \in DOMAIN CucmExtractors, NEW l \in DOMAIN RowsOf(v, m), KindAt(m) # "Extension"
      PROVE  Id("Partition", <<p>>) \notin CucmEntity(KindAt(m), RowsOf(v, m)[l]).refs
  <2>1. l \in KeptAt(v, m)
    BY <1>5 DEF KeptAt, KeptRows
  <2>2. PICK i \in DOMAIN ents : ents[i].refs = EntityAt(v, m, l).refs
    BY <1>1, <2>1 DEF CucmPlaced
  <2>3. ents[i] \in ToSet(ents)
    BY DEF ToSet
  <2>. QED  BY <1>3, <1>4, <2>2, <2>3 DEF EntityAt
<1>6. PICK l \in DOMAIN RowsOf(v, k) : r = RowsOf(v, k)[l]
  BY DEF ToSet
<1>7. ASSUME "partition" \in DOMAIN r, r.partition = p
      PROVE  FALSE
  <2>1. CucmExtractors[k][2] \in Partitioned
    BY <1>2, <1>7, CucmRowsFacts
  <2>2. PICK m \in DOMAIN CucmExtractors :
          KindAt(m) \in Namers /\ CucmExtractors[m][2] = CucmExtractors[k][2]
    BY <2>1, NamingCall
  <2>3. RowsOf(v, m) = RowsOf(v, k)
    BY <2>2 DEF RowsOf
  <2>4. Id("Partition", <<p>>) \in CucmEntity(KindAt(m), r).refs
    BY <1>4, <1>7, <2>2, NamersRefer
  <2>. QED  BY <1>5, <1>6, <2>2, <2>3, <2>4 DEF Namers
<1>8. ASSUME KindAt(k) = "CallingPermission", p \in r.members
      PROVE  FALSE
  <2>1. CucmEntity("CallingPermission", r) = MapCallingPermission(r)
    BY DEF CucmEntity
  <2>2. Id("Partition", <<p>>) \in MapCallingPermission(r).refs
    BY <1>8 DEF MapCallingPermission, Refs, Entity
  <2>. QED  BY <1>5, <1>6, <1>8, <2>1, <2>2
<1>. QED  BY <1>7, <1>8

\* The same of the report on a quiet job.
LEMMA UnusedIsUnused ==
  ASSUME TheConnectors, LogInv
  PROVE  UnusedPartitionsAreUnused
<1>. SUFFICES ASSUME NEW j \in Job, Quiet(j), ConnectorOf[j] = "cisco-cucm",
                     NEW p \in ReportOn(j).unused_partitions, NEW v \in snapshots[j].seen,
                     NEW k \in DOMAIN CucmExtractors,
                     NEW r \in ToSet(CrawlAnswer("cisco-cucm", v, CucmExtractors[k]))
              PROVE  /\ "partition" \in DOMAIN r => r.partition # p
                     /\ "members" \in DOMAIN r /\ CucmExtractors[k][1] = "CallingPermission"
                          => p \notin r.members
  BY DEF UnusedPartitionsAreUnused
<1>1. PICK u, log :
        /\ u \in Version
        /\ QuietLog("cisco-cucm", u, log)
        /\ snapshots[j].seen \subseteq {u}
        /\ Entities(j) = CrawlAssemble("cisco-cucm", AllOf("cisco-cucm"), log)
  BY QuietCrawl
<1>2. u = v
  BY <1>1
<1>3. Entities(j) = CucmEntities(log)
  BY <1>1 DEF CrawlAssemble
<1>4. p \in UnusedPartitions(CucmEntities(log))
  BY <1>3 DEF ReportOn, EstateReport
<1>5. r \in ToSet(RowsOf(v, k))
  BY CucmAnswer
<1>6. CucmLogOf(v, log)
  BY <1>1, <1>2, CucmLog
<1>. QED  BY <1>1, <1>2, <1>4, <1>5, <1>6, CucmUnused DEF KindAt

----------------------------------------------------------------------------
(* Lists of rows and what they hold. *)

\* The empty list of rows.
LEMMA EmptyRows == IsRows(<<>>) /\ ToSet(<<>>) = {}
BY DEF IsRows, ToSet

\* How the places of a concatenation are those of its parts.
Joined(c, s, t) ==
  /\ Len(c) = Len(s) + Len(t)
  /\ \A i \in DOMAIN s : i \in DOMAIN c /\ c[i] = s[i]
  /\ \A i \in DOMAIN t : Len(s) + i \in DOMAIN c /\ c[Len(s) + i] = t[i]
  /\ \A i \in DOMAIN c : i \in DOMAIN s \/ \E k \in DOMAIN t : i = Len(s) + k

\* The concatenation of two lists of rows, with its places.
LEMMA ConcatJoined ==
  ASSUME NEW s, NEW t, IsRows(s), IsRows(t)
  PROVE  /\ IsRows(s \o t)
         /\ ToSet(s \o t) = ToSet(s) \cup ToSet(t)
         /\ Joined(s \o t, s, t)
<1>. DEFINE T == ToSet(s) \cup ToSet(t)
            c == s \o t
<1>1. s \in Seq(T) /\ t \in Seq(T)
  BY DEF IsRows
<1>2. /\ c \in Seq(T) /\ Len(c) = Len(s) + Len(t)
      /\ Len(s) \in Nat /\ Len(t) \in Nat
      /\ DOMAIN s = 1..Len(s) /\ DOMAIN t = 1..Len(t) /\ DOMAIN c = 1..(Len(s) + Len(t))
  BY <1>1
<1>3. \A i \in DOMAIN c : c[i] = IF i <= Len(s) THEN s[i] ELSE t[i - Len(s)]
  BY <1>1
<1>. HIDE DEF T, c
<1>4. IsRows(c)
  BY <1>2, RowsOfSeq
<1>5. \A i \in DOMAIN s : i \in DOMAIN c /\ c[i] = s[i]
  BY <1>2, <1>3
<1>6. ASSUME NEW i \in DOMAIN t PROVE Len(s) + i \in DOMAIN c /\ c[Len(s) + i] = t[i]
  <2>1. i \in Nat /\ i >= 1 /\ i <= Len(t)
    BY <1>2
  <2>2. Len(s) + i \in DOMAIN c /\ ~(Len(s) + i <= Len(s)) /\ (Len(s) + i) - Len(s) = i
    BY <1>2, <2>1
  <2>. QED  BY <1>3, <2>2
<1>7. ASSUME NEW i \in DOMAIN c PROVE i \in DOMAIN s \/ \E k \in DOMAIN t : i = Len(s) + k
  <2>1. CASE i <= Len(s)
    BY <1>2, <2>1
  <2>2. CASE ~(i <= Len(s))
    <3>1. i - Len(s) \in DOMAIN t /\ i = Len(s) + (i - Len(s))
      BY <1>2, <2>2
    <3>. QED  BY <3>1
  <2>. QED  BY <2>1, <2>2
<1>8. ToSet(c) \subseteq ToSet(s) \cup ToSet(t)
  BY <1>5, <1>6, <1>7 DEF ToSet
<1>9. ToSet(s) \cup ToSet(t) \subseteq ToSet(c)
  BY <1>5, <1>6 DEF ToSet
<1>10. ToSet(c) = ToSet(s) \cup ToSet(t)
  BY <1>8, <1>9
<1>11. Joined(c, s, t)
  BY <1>2, <1>5, <1>6, <1>7 DEF Joined
<1>. QED  BY <1>4, <1>10, <1>11 DEF c

\* The same, its places spelled out.
LEMMA ConcatRows ==
  ASSUME NEW s, NEW t, IsRows(s), IsRows(t)
  PROVE  /\ IsRows(s \o t)
         /\ ToSet(s \o t) = ToSet(s) \cup ToSet(t)
         /\ Len(s \o t) = Len(s) + Len(t)
         /\ \A i \in DOMAIN s : i \in DOMAIN (s \o t) /\ (s \o t)[i] = s[i]
         /\ \A i \in DOMAIN t : Len(s) + i \in DOMAIN (s \o t) /\ (s \o t)[Len(s) + i] = t[i]
         /\ \A i \in DOMAIN (s \o t) : i \in DOMAIN s \/ \E k \in DOMAIN t : i = Len(s) + k
<1>. DEFINE T == ToSet(s) \cup ToSet(t)
            c == s \o t
<1>1. s \in Seq(T) /\ t \in Seq(T)
  BY DEF IsRows
<1>2. /\ c \in Seq(T) /\ Len(c) = Len(s) + Len(t)
      /\ Len(s) \in Nat /\ Len(t) \in Nat
      /\ DOMAIN s = 1..Len(s) /\ DOMAIN t = 1..Len(t) /\ DOMAIN c = 1..(Len(s) + Len(t))
  BY <1>1
<1>3. \A i \in DOMAIN c : c[i] = IF i <= Len(s) THEN s[i] ELSE t[i - Len(s)]
  BY <1>1
<1>. HIDE DEF T, c
<1>4. IsRows(c)
  BY <1>2, RowsOfSeq
<1>5. \A i \in DOMAIN s : i \in DOMAIN c /\ c[i] = s[i]
  BY <1>2, <1>3
<1>6. ASSUME NEW i \in DOMAIN t PROVE Len(s) + i \in DOMAIN c /\ c[Len(s) + i] = t[i]
  <2>1. i \in Nat /\ i >= 1 /\ i <= Len(t)
    BY <1>2
  <2>2. Len(s) + i \in DOMAIN c /\ ~(Len(s) + i <= Len(s)) /\ (Len(s) + i) - Len(s) = i
    BY <1>2, <2>1
  <2>. QED  BY <1>3, <2>2
<1>7. ASSUME NEW i \in DOMAIN c PROVE i \in DOMAIN s \/ \E k \in DOMAIN t : i = Len(s) + k
  <2>1. CASE i <= Len(s)
    BY <1>2, <2>1
  <2>2. CASE ~(i <= Len(s))
    <3>1. i - Len(s) \in DOMAIN t /\ i = Len(s) + (i - Len(s))
      BY <1>2, <2>2
    <3>. QED  BY <3>1
  <2>. QED  BY <2>1, <2>2
<1>8. ToSet(c) \subseteq ToSet(s) \cup ToSet(t)
  BY <1>5, <1>6, <1>7 DEF ToSet
<1>9. ToSet(s) \cup ToSet(t) \subseteq ToSet(c)
  BY <1>5, <1>6 DEF ToSet
<1>. QED  BY <1>2, <1>4, <1>5, <1>6, <1>7, <1>8, <1>9 DEF c

\* FlattenSeq holds what its sequences hold.
LEMMA FlattenRows ==
  ASSUME NEW N \in Nat, NEW seqs, seqs = [k \in 1..N |-> seqs[k]],
         \A k \in 1..N : IsRows(seqs[k])
  PROVE  /\ IsRows(FlattenSeq(seqs))
         /\ ToSet(FlattenSeq(seqs)) = UNION {ToSet(seqs[k]) : k \in 1..N}
<1>. DEFINE s == FlattenSeq(seqs)
<1>1. IsRows(s) /\ Unfolds(s, seqs, N)
  BY FlattenUnfolds
<1>. HIDE DEF s
<1>2. PICK at \in [DOMAIN s -> Nat \X Nat] :
        /\ \A i \in DOMAIN s : /\ at[i][1] \in 1..N
                               /\ at[i][2] \in DOMAIN seqs[at[i][1]]
                               /\ s[i] = seqs[at[i][1]][at[i][2]]
        /\ \A i, j \in DOMAIN s : at[i] = at[j] => i = j
        /\ \A k \in 1..N : \A l \in DOMAIN seqs[k] : \E i \in DOMAIN s : at[i] = <<k, l>>
  BY <1>1 DEF Unfolds
<1>3. ASSUME NEW i \in DOMAIN s PROVE \E k \in 1..N : s[i] \in ToSet(seqs[k])
  <2>1. PICK k \in 1..N : k = at[i][1]
    BY <1>2
  <2>2. PICK l \in DOMAIN seqs[k] : l = at[i][2]
    BY <1>2, <2>1
  <2>3. s[i] = seqs[k][l]
    BY <1>2, <2>1, <2>2
  <2>. QED  BY <2>3 DEF ToSet
<1>4. ASSUME NEW k \in 1..N, NEW l \in DOMAIN seqs[k] PROVE seqs[k][l] \in ToSet(s)
  <2>1. PICK i \in DOMAIN s : at[i] = <<k, l>>
    BY <1>2
  <2>2. at[i][1] = k /\ at[i][2] = l
    BY <2>1
  <2>3. s[i] = seqs[k][l]
    BY <1>2, <2>2
  <2>. QED  BY <2>3 DEF ToSet
<1>5. ToSet(s) \subseteq UNION {ToSet(seqs[k]) : k \in 1..N}
  BY <1>3 DEF ToSet
<1>6. UNION {ToSet(seqs[k]) : k \in 1..N} \subseteq ToSet(s)
  BY <1>4 DEF ToSet
<1>. QED  BY <1>1, <1>5, <1>6 DEF s

\* A list of rows mapped one by one holds the images.
LEMMA MappedRows ==
  ASSUME NEW rows, IsRows(rows), NEW f, f = [i \in DOMAIN rows |-> f[i]]
  PROVE  IsRows(f) /\ ToSet(f) = {f[i] : i \in DOMAIN rows}
<1>1. Len(rows) \in Nat /\ DOMAIN rows = 1..Len(rows)
  BY RowsFacts
<1>2. IsRows(f) /\ DOMAIN f = DOMAIN rows
  BY <1>1, RowsOfFunction
<1>. QED  BY <1>2 DEF ToSet

\* A finite set as a list of rows.
LEMMA SetRows ==
  ASSUME NEW S, IsFiniteSet(S)
  PROVE  IsRows(SetToSeq(S)) /\ ToSet(SetToSeq(S)) = S
<1>. DEFINE n == Cardinality(S)
            s == SetToSeq(S)
<1>1. n \in Nat /\ \E f \in [1..n -> S] : IsInjective(f)
  BY FS_CardinalityType DEF ExistsBijection, Bijection, Injection
<1>2. s \in [1..n -> S] /\ IsInjective(s)
  BY <1>1 DEF SetToSeq
<1>. HIDE DEF s
<1>3. IsRows(s) /\ DOMAIN s = 1..n
  BY <1>1, <1>2, RowsOfFunction
<1>4. ToSet(s) \subseteq S
  BY <1>2, <1>3 DEF ToSet
<1>5. Cardinality(1..n) = n /\ IsFiniteSet(1..n)
  BY <1>1, FS_Interval
<1>6. s \in Injection(1..n, S)
  BY <1>2 DEF Injection
<1>7. s \in Surjection(1..n, S)
  BY <1>5, <1>6, FS_Injection
<1>8. S \subseteq ToSet(s)
  BY <1>3, <1>7 DEF Surjection, ToSet
<1>. QED  BY <1>3, <1>4, <1>8 DEF s

\* The image of a finite set is finite.
LEMMA ImageFinite ==
  ASSUME NEW S, IsFiniteSet(S), NEW f, NEW T, T = {f[x] : x \in S}
  PROVE  IsFiniteSet(T)
<1>. DEFINE g == [x \in S |-> f[x]]
<1>1. g \in Surjection(S, T)
  BY DEF Surjection
<1>. HIDE DEF g
<1>. QED  BY <1>1, FS_Surjection

----------------------------------------------------------------------------

\* A list of rows that holds exactly the elements of S, in some order.
Holds(s, S) == IsRows(s) /\ ToSet(s) = S

\* A list of one.
LEMMA HoldsEach ==
  ASSUME NEW x
  PROVE  Holds(<<x>>, {x})
BY SingleRow DEF Holds

\* Two lists, one after the other.
LEMMA HoldsConcat ==
  ASSUME NEW s, NEW S, NEW t, NEW T, Holds(s, S), Holds(t, T)
  PROVE  Holds(s \o t, S \cup T)
BY ConcatRows DEF Holds

\* Four lists, one after the other.
LEMMA HoldsFour ==
  ASSUME NEW s1, NEW T1, Holds(s1, T1), NEW s2, NEW T2, Holds(s2, T2),
         NEW s3, NEW T3, Holds(s3, T3), NEW s4, NEW T4, Holds(s4, T4)
  PROVE  Holds(((s1 \o s2) \o s3) \o s4, ((T1 \cup T2) \cup T3) \cup T4)
<1>1. Holds(s1 \o s2, T1 \cup T2)
  BY HoldsConcat
<1>2. Holds((s1 \o s2) \o s3, (T1 \cup T2) \cup T3)
  BY <1>1, HoldsConcat
<1>. QED  BY <1>2, HoldsConcat

\* Five lists, one after the other.
LEMMA HoldsFive ==
  ASSUME NEW s1, NEW T1, Holds(s1, T1), NEW s2, NEW T2, Holds(s2, T2),
         NEW s3, NEW T3, Holds(s3, T3), NEW s4, NEW T4, Holds(s4, T4),
         NEW s5, NEW T5, Holds(s5, T5)
  PROVE  Holds((((s1 \o s2) \o s3) \o s4) \o s5, (((T1 \cup T2) \cup T3) \cup T4) \cup T5)
<1>1. Holds(((s1 \o s2) \o s3) \o s4, ((T1 \cup T2) \cup T3) \cup T4)
  BY HoldsFour
<1>. QED  BY <1>1, HoldsConcat

\* A list mapped one by one.
LEMMA HoldsMapped ==
  ASSUME NEW rows, IsRows(rows), NEW f, f = [i \in DOMAIN rows |-> f[i]],
         NEW T, T = {f[i] : i \in DOMAIN rows}
  PROVE  Holds(f, T)
BY MappedRows DEF Holds

\* A list of lists, flattened.
LEMMA HoldsFlat ==
  ASSUME NEW rows, IsRows(rows), NEW seqs, seqs = [i \in DOMAIN rows |-> seqs[i]],
         NEW sets, \A i \in DOMAIN rows : Holds(seqs[i], sets[i]),
         NEW T, T = UNION {sets[i] : i \in DOMAIN rows}
  PROVE  Holds(FlattenSeq(seqs), T)
<1>1. Len(rows) \in Nat /\ DOMAIN rows = 1..Len(rows)
  BY RowsFacts
<1>2. \A i \in 1..Len(rows) : IsRows(seqs[i]) /\ ToSet(seqs[i]) = sets[i]
  BY <1>1 DEF Holds
<1>3. /\ IsRows(FlattenSeq(seqs))
      /\ ToSet(FlattenSeq(seqs)) = UNION {ToSet(seqs[k]) : k \in 1..Len(rows)}
  BY <1>1, <1>2, FlattenRows
<1>4. UNION {ToSet(seqs[k]) : k \in 1..Len(rows)} = T
  BY <1>1, <1>2
<1>. QED  BY <1>3, <1>4 DEF Holds

\* A list of sets, each put in some order, flattened.
LEMMA HoldsSets ==
  ASSUME NEW rows, IsRows(rows), NEW sets, \A i \in DOMAIN rows : IsFiniteSet(sets[i]),
         NEW seqs, seqs = [i \in DOMAIN rows |-> SetToSeq(sets[i])],
         NEW T, T = UNION {sets[i] : i \in DOMAIN rows}
  PROVE  Holds(FlattenSeq(seqs), T)
<1>1. seqs = [i \in DOMAIN rows |-> seqs[i]]
  OBVIOUS
<1>2. \A i \in DOMAIN rows : Holds(seqs[i], sets[i])
  BY SetRows DEF Holds
<1>. QED  BY <1>1, <1>2, HoldsFlat

\* The rows that pass a test, mapped one by one.
LEMMA HoldsKept ==
  ASSUME NEW rows, IsRows(rows), NEW K, NEW f, NEW seqs,
         seqs = [i \in DOMAIN rows |-> When(i \in K, <<f[i]>>)],
         NEW T, T = {f[i] : i \in DOMAIN rows \cap K}
  PROVE  Holds(FlattenSeq(seqs), T)
<1>. DEFINE sets == [i \in DOMAIN rows |-> IF i \in K THEN {f[i]} ELSE {}]
<1>1. seqs = [i \in DOMAIN rows |-> seqs[i]]
  OBVIOUS
<1>2. ASSUME NEW i \in DOMAIN rows PROVE Holds(seqs[i], sets[i])
  <2>1. CASE i \in K
    <3>1. seqs[i] = <<f[i]>> /\ sets[i] = {f[i]}
      BY <2>1 DEF When
    <3>. QED  BY <3>1, HoldsEach
  <2>2. CASE i \notin K
    <3>1. seqs[i] = <<>> /\ sets[i] = {}
      BY <2>2 DEF When
    <3>. QED  BY <3>1, EmptyRows DEF Holds
  <2>. QED  BY <2>1, <2>2
<1>3. T = UNION {sets[i] : i \in DOMAIN rows}
  <2>1. ASSUME NEW x \in T PROVE x \in UNION {sets[i] : i \in DOMAIN rows}
    <3>1. PICK i \in DOMAIN rows \cap K : x = f[i]
      OBVIOUS
    <3>2. x \in sets[i]
      BY <3>1
    <3>. QED  BY <3>2
  <2>2. ASSUME NEW i \in DOMAIN rows, NEW x \in sets[i] PROVE x \in T
    OBVIOUS
  <2>. HIDE DEF sets
  <2>. QED  BY <2>1, <2>2
<1>4. IsRows(rows)
  OBVIOUS
<1>. HIDE DEF sets
<1>. QED  BY ONLY <1>1, <1>2, <1>3, <1>4, HoldsFlat

\* A call of a script whose calls are fixed has been answered.
Served(c, v, log, call) ==
  Rows(log, call) = Estate(c, v, call) /\ Rows(log, call) # Refused

\* The connectors whose script asks for the same calls whatever is answered.
Plain == {"slack", "microsoft-sfb-server", "genesys-cloud", "microsoft-teams", "reference-memory"}

\* A call in the log of a quiet crawl was answered from the estate.
LEMMA FoundServed ==
  ASSUME NEW c, c # "cisco-cucm", NEW v, NEW log, NEW call, call # SmgrUsers,
         Permitted(c, call), \A i \in DOMAIN log : AnsweredIn(c, v, log[i]),
         \E i \in DOMAIN log : log[i].call = call
  PROVE  Served(c, v, log, call)
<1>. DEFINE i == CHOOSE j \in DOMAIN log : log[j].call = call
<1>1. i \in DOMAIN log /\ log[i].call = call
  OBVIOUS
<1>2. Rows(log, call) = log[i].rows
  BY DEF Rows
<1>. HIDE DEF i
<1>3. log[i].rows = CrawlAnswer(c, v, call) /\ log[i].rows # Refused
  BY <1>1 DEF AnsweredIn
<1>4. CrawlAnswer(c, v, call) = Estate(c, v, call)
  BY DEF CrawlAnswer, Request
<1>. QED  BY <1>2, <1>3, <1>4 DEF Served

\* The same, for every call of a script that is fixed.
LEMMA FixedServed ==
  ASSUME NEW c \in Plain, NEW v, NEW log, QuietLog(c, v, log), NEW calls, IsRows(calls),
         \A l : CrawlScript(c, AllOf(c), l) = calls,
         NEW call \in ToSet(calls), call # SmgrUsers
  PROVE  Served(c, v, log, call)
<1>1. /\ DOMAIN log = DOMAIN calls
      /\ \A i \in DOMAIN log : log[i].call = calls[i] /\ AnsweredIn(c, v, log[i])
  BY FixedScript
<1>2. c # "cisco-cucm" /\ c # "avaya-aura"
  BY DEF Plain
<1>3. Permitted(c, call)
  BY <1>2 DEF Permitted
<1>4. \E i \in DOMAIN log : log[i].call = call
  BY <1>1 DEF ToSet
<1>. QED  BY <1>1, <1>2, <1>3, <1>4, FoundServed

----------------------------------------------------------------------------
\* What refers to an entity that is there, or by a key known not to be its.
Explained(c, S) ==
  \A e \in S : \A r \in ReferencesOf(e) :
    (\E x \in S : r = IdOf(x)) \/ <<c, e.kind, r[1]>> \in KeyMismatches

\* The parts of an entity that has no owner.
LEMMA EntityFacts ==
  ASSUME NEW kind, NEW key, NEW refs, NEW f
  PROVE  /\ Entity(kind, key, refs, f).kind = kind
         /\ Entity(kind, key, refs, f).key = key
         /\ IdOf(Entity(kind, key, refs, f)) = <<kind, key>>
         /\ ReferencesOf(Entity(kind, key, refs, f)) = refs
BY DEF Entity, IdOf, Id, ReferencesOf

\* A list of two.
LEMMA HoldsPair ==
  ASSUME NEW x, NEW y
  PROVE  Holds(<<x, y>>, {x, y})
<1>1. <<x, y>> \in Seq({x, y}) /\ DOMAIN <<x, y>> = {1, 2} /\ <<x, y>>[1] = x /\ <<x, y>>[2] = y
  OBVIOUS
<1>2. IsRows(<<x, y>>)
  BY <1>1, RowsOfSeq
<1>3. ToSet(<<x, y>>) = {x, y}
  BY <1>1 DEF ToSet
<1>. QED  BY <1>2, <1>3 DEF Holds

\* Every reference is explained, and none of the entities is an extension.
NoExtension(S) == \A e \in S : e.kind # "Extension"

\* What a crawl of a source without extensions of its own can hold.
Sound(c, S) == Explained(c, S) /\ NoExtension(S)

\* A call of these sources has its rows, and their set-valued fields are finite.
LEMMA VendorServed ==
  ASSUME NEW c \in {"slack", "microsoft-sfb-server", "genesys-cloud", "microsoft-teams"},
         NEW v \in Version, NEW log, QuietLog(c, v, log), NEW calls, NEW C, Holds(calls, C),
         \A l : CrawlScript(c, AllOf(c), l) = calls,
         NEW call \in C, call # SmgrUsers
  PROVE  /\ Served(c, v, log, call)
         /\ IsRows(Rows(log, call))
         /\ \A f \in SetFields : f[1] = c /\ f[2] = call =>
              \A r \in ToSet(Rows(log, call)) : IsFiniteSet(r[f[3]])
<1>1. c \in Plain
  BY DEF Plain
<1>2. IsRows(calls) /\ call \in ToSet(calls)
  BY DEF Holds
<1>3. Rows(log, call) = Estate(c, v, call) /\ Rows(log, call) # Refused
  BY <1>1, <1>2, FixedServed DEF Served
<1>4. CrawlScript(c, CrawlExtractable(c), <<>>) = calls
  BY DEF AllOf
<1>5. VendorAnswers(c, v)
  BY EstateAssumption
<1>. QED  BY <1>2, <1>3, <1>4, <1>5 DEF VendorAnswers, Served

----------------------------------------------------------------------------
(* Slack. *)

\* The memberships of a channel.
MembershipsOf(r) ==
  {Entity("ChannelMembership", <<r.name, m>>,
          Ref("ChatChannel", r.name) \cup Ref("User", m), "LOSSLESS") : m \in r.members}

\* The entities of a Slack crawl, from its users, groups and channels.
SlackSet(u, g, c) ==
  {SlackUser(r) : r \in {x \in u : ~x.skipped}}
  \cup {SlackGroup(r) : r \in g}
  \cup {SlackChannel(r) : r \in c}
  \cup (UNION {MembershipsOf(r) : r \in c})
  \cup {SlackArchive(r) : r \in c}

\* Of Slack: memberships refer to the channel, and to users by id.
LEMMA SlackSound ==
  ASSUME NEW u, NEW g, NEW c
  PROVE  Sound("slack", SlackSet(u, g, c))
<1>. DEFINE S == SlackSet(u, g, c)
            Fine(e) == /\ e.kind # "Extension"
                       /\ \A r \in ReferencesOf(e) :
                            (\E x \in S : r = IdOf(x)) \/ <<"slack", e.kind, r[1]>> \in KeyMismatches
<1>1. ASSUME NEW r \in c
      PROVE  /\ \A x \in Ref("ChatChannel", r.name) : \E y \in S : x = IdOf(y)
             /\ \A x \in Ref("MessageArchive", r.name) : \E y \in S : x = IdOf(y)
  <2>1. SlackChannel(r) \in S /\ SlackArchive(r) \in S
    BY DEF SlackSet
  <2>2. /\ IdOf(SlackChannel(r)) = Id("ChatChannel", <<r.name>>)
        /\ IdOf(SlackArchive(r)) = Id("MessageArchive", <<r.name>>)
    BY DEF SlackChannel, SlackArchive, Entity, IdOf
  <2>. HIDE DEF S
  <2>3. ASSUME NEW x \in Ref("ChatChannel", r.name) PROVE \E y \in S : x = IdOf(y)
    <3>1. x = IdOf(SlackChannel(r))
      BY <2>2 DEF Ref
    <3>. QED  BY <2>1, <3>1
  <2>4. ASSUME NEW x \in Ref("MessageArchive", r.name) PROVE \E y \in S : x = IdOf(y)
    <3>1. x = IdOf(SlackArchive(r))
      BY <2>2 DEF Ref
    <3>. QED  BY <2>1, <3>1
  <2>. QED  BY <2>3, <2>4
<1>. HIDE DEF S
<1>2. ASSUME NEW r PROVE Fine(SlackUser(r)) /\ Fine(SlackGroup(r))
  <2>1. SlackUser(r).kind = "User" /\ ReferencesOf(SlackUser(r)) = {}
    BY DEF SlackUser, Entity, ReferencesOf
  <2>2. SlackGroup(r).kind = "Group" /\ ReferencesOf(SlackGroup(r)) = {}
    BY DEF SlackGroup, Entity, ReferencesOf
  <2>. QED  BY <2>1, <2>2
<1>3. ASSUME NEW r \in c PROVE Fine(SlackChannel(r)) /\ Fine(SlackArchive(r))
  <2>1. /\ SlackChannel(r).kind = "ChatChannel"
        /\ ReferencesOf(SlackChannel(r)) = Ref("MessageArchive", r.name)
    BY DEF SlackChannel, Entity, ReferencesOf
  <2>2. /\ SlackArchive(r).kind = "MessageArchive"
        /\ ReferencesOf(SlackArchive(r)) = Ref("ChatChannel", r.name)
    BY DEF SlackArchive, Entity, ReferencesOf
  <2>. QED  BY <1>1, <2>1, <2>2
<1>4. ASSUME NEW r \in c, NEW e \in MembershipsOf(r) PROVE Fine(e)
  <2>1. PICK m : e = Entity("ChannelMembership", <<r.name, m>>,
                            Ref("ChatChannel", r.name) \cup Ref("User", m), "LOSSLESS")
    BY DEF MembershipsOf
  <2>2. e.kind = "ChannelMembership" /\ ReferencesOf(e) = Ref("ChatChannel", r.name) \cup Ref("User", m)
    BY <2>1 DEF Entity, ReferencesOf
  <2>3. \A x \in Ref("User", m) : x[1] = "User"
    BY DEF Ref, Id
  <2>4. <<"slack", "ChannelMembership", "User">> \in KeyMismatches
    BY DEF KeyMismatches
  <2>. QED  BY <1>1, <2>2, <2>3, <2>4
<1>5. \A e \in S : Fine(e)
  <2>. HIDE DEF Fine
  <2>. QED  BY <1>2, <1>3, <1>4 DEF SlackSet, S
<1>. QED  BY <1>5 DEF Sound, Explained, NoExtension, S

\* The calls of a crawl of everything.
LEMMA SlackCalls ==
  \E calls : /\ \A l : CrawlScript("slack", AllOf("slack"), l) = calls
             /\ Holds(calls, {<<"users.list">>, <<"usergroups.list">>, <<"conversations.list">>})
<1>. DEFINE calls == SlackScript(SlackKinds)
            a == << <<"users.list">> >>
            b == << <<"usergroups.list">> >>
            d == << <<"conversations.list">> >>
<1>1. \A l : CrawlScript("slack", AllOf("slack"), l) = calls
  BY DEF CrawlScript, AllOf, CrawlExtractable
<1>2. /\ "User" \in SlackKinds /\ "Group" \in SlackKinds
      /\ SlackKinds \cap SlackChannelKinds # {}
  BY DEF SlackKinds, SlackChannelKinds
<1>3. calls = (a \o b) \o d
  BY <1>2 DEF SlackScript, When
<1>4. /\ Holds(a, {<<"users.list">>}) /\ Holds(b, {<<"usergroups.list">>})
      /\ Holds(d, {<<"conversations.list">>})
  BY HoldsEach
<1>. HIDE DEF a, b, d, calls
<1>5. Holds(a \o b, {<<"users.list">>} \cup {<<"usergroups.list">>})
  BY <1>4, HoldsConcat
<1>6. Holds(calls, ({<<"users.list">>} \cup {<<"usergroups.list">>}) \cup {<<"conversations.list">>})
  BY <1>3, <1>4, <1>5, HoldsConcat
<1>. QED  BY <1>1, <1>6

\* extract of Slack yields these entities.
LEMMA SlackHolds ==
  ASSUME NEW v \in Version, NEW log, QuietLog("slack", v, log)
  PROVE  \E u, g, c : Holds(SlackEntities(SlackKinds, log), SlackSet(u, g, c))
<1>. DEFINE U == <<"users.list">>
            G == <<"usergroups.list">>
            C == <<"conversations.list">>
<1>1. PICK calls : /\ \A l : CrawlScript("slack", AllOf("slack"), l) = calls
                   /\ Holds(calls, {U, G, C})
  BY SlackCalls
<1>2. \A call \in {U, G, C} :
        /\ IsRows(Rows(log, call))
        /\ \A f \in SetFields : f[1] = "slack" /\ f[2] = call =>
             \A r \in ToSet(Rows(log, call)) : IsFiniteSet(r[f[3]])
  <2>1. U # SmgrUsers /\ G # SmgrUsers /\ C # SmgrUsers
    BY DEF SmgrUsers
  <2>. QED  BY <1>1, <2>1, VendorServed
<1>3. \A r \in ToSet(Rows(log, C)) : IsFiniteSet(r.members)
  <2>1. <<"slack", C, "members">> \in SetFields
    BY DEF SetFields
  <2>2. /\ <<"slack", C, "members">>[1] = "slack" /\ <<"slack", C, "members">>[2] = C
        /\ <<"slack", C, "members">>[3] = "members"
    OBVIOUS
  <2>. HIDE DEF C
  <2>. QED  BY <1>2, <2>1, <2>2
<1>. DEFINE u == Rows(log, U)
            g == Rows(log, G)
            c == Rows(log, C)
            s1 == SlackUsers(u)
            s2 == [i \in DOMAIN g |-> SlackGroup(g[i])]
            s3 == [i \in DOMAIN c |-> SlackChannel(c[i])]
            s4 == [i \in DOMAIN c |-> SlackMemberships(c[i])]
            s5 == [i \in DOMAIN c |-> SlackArchive(c[i])]
            T1 == {SlackUser(r) : r \in {x \in ToSet(u) : ~x.skipped}}
            T2 == {SlackGroup(r) : r \in ToSet(g)}
            T3 == {SlackChannel(r) : r \in ToSet(c)}
            T4 == UNION {MembershipsOf(r) : r \in ToSet(c)}
            T5 == {SlackArchive(r) : r \in ToSet(c)}
<1>8. SlackEntities(SlackKinds, log) = (((s1 \o s2) \o s3) \o FlattenSeq(s4)) \o s5
  BY DEF SlackEntities, SlackKinds, When, EntitiesWhen, Mapped
<1>9. SlackSet(ToSet(u), ToSet(g), ToSet(c)) = (((T1 \cup T2) \cup T3) \cup T4) \cup T5
  BY DEF SlackSet
<1>10. IsRows(u) /\ IsRows(g) /\ IsRows(c) /\ \A r \in ToSet(c) : IsFiniteSet(r.members)
  BY <1>2, <1>3
<1>. HIDE DEF u, g, c
<1>11. Holds(s1, T1)
  <2>. DEFINE K == {i \in DOMAIN u : ~u[i].skipped}
              f == [i \in DOMAIN u |-> SlackUser(u[i])]
              seqs == [i \in DOMAIN u |-> When(i \in K, <<f[i]>>)]
              kept == [i \in DOMAIN u |-> When(~u[i].skipped, <<SlackUser(u[i])>>)]
  <2>1. \A i \in DOMAIN u : When(i \in K, <<f[i]>>) = When(~u[i].skipped, <<SlackUser(u[i])>>)
    BY DEF When
  <2>2. s1 = FlattenSeq(kept)
    BY DEF SlackUsers, MappedWhen
  <2>3. seqs = kept
    BY <2>1
  <2>4. T1 = {f[i] : i \in DOMAIN u \cap K}
    BY DEF ToSet
  <2>. HIDE DEF f, K, T1, s1, kept
  <2>5. seqs = [i \in DOMAIN u |-> When(i \in K, <<f[i]>>)]
    OBVIOUS
  <2>. HIDE DEF seqs
  <2>6. Holds(FlattenSeq(seqs), T1)
    BY <1>10, <2>4, <2>5, HoldsKept
  <2>. QED  BY <2>2, <2>3, <2>6
<1>12. Holds(s2, T2)
  <2>1. s2 = [i \in DOMAIN g |-> s2[i]] /\ T2 = {s2[i] : i \in DOMAIN g}
    BY DEF ToSet
  <2>. HIDE DEF s2, T2
  <2>. QED  BY <1>10, <2>1, HoldsMapped
<1>13. Holds(s3, T3)
  <2>1. s3 = [i \in DOMAIN c |-> s3[i]] /\ T3 = {s3[i] : i \in DOMAIN c}
    BY DEF ToSet
  <2>. HIDE DEF s3, T3
  <2>. QED  BY <1>10, <2>1, HoldsMapped
<1>14. Holds(FlattenSeq(s4), T4)
  <2>. DEFINE sets == [i \in DOMAIN c |-> MembershipsOf(c[i])]
  <2>1. ASSUME NEW i \in DOMAIN c PROVE IsFiniteSet(sets[i])
    <3>1. IsFiniteSet(c[i].members)
      BY <1>10 DEF ToSet
    <3>. DEFINE F == [m \in c[i].members |-> Entity("ChannelMembership", <<c[i].name, m>>,
                        Ref("ChatChannel", c[i].name) \cup Ref("User", m), "LOSSLESS")]
    <3>2. sets[i] = {F[m] : m \in c[i].members}
      BY DEF MembershipsOf
    <3>. HIDE DEF F, sets
    <3>. QED  BY <3>1, <3>2, ImageFinite
  <2>2. T4 = UNION {sets[i] : i \in DOMAIN c}
    <3>1. \A i \in DOMAIN c : sets[i] = MembershipsOf(c[i])
      OBVIOUS
    <3>. HIDE DEF sets
    <3>. QED  BY <3>1 DEF ToSet
  <2>3. s4 = [i \in DOMAIN c |-> SetToSeq(sets[i])]
    BY DEF SlackMemberships, MembershipsOf
  <2>. HIDE DEF sets, T4, s4
  <2>. QED  BY <1>10, <2>1, <2>2, <2>3, HoldsSets
<1>15. Holds(s5, T5)
  <2>1. s5 = [i \in DOMAIN c |-> s5[i]] /\ T5 = {s5[i] : i \in DOMAIN c}
    BY DEF ToSet
  <2>. HIDE DEF s5, T5
  <2>. QED  BY <1>10, <2>1, HoldsMapped
<1>. HIDE DEF s1, s2, s3, s4, s5, T1, T2, T3, T4, T5
<1>16. Holds((((s1 \o s2) \o s3) \o FlattenSeq(s4)) \o s5, (((T1 \cup T2) \cup T3) \cup T4) \cup T5)
  BY <1>11, <1>12, <1>13, <1>14, <1>15, HoldsFive
<1>. QED  BY <1>8, <1>9, <1>16

----------------------------------------------------------------------------
(* Genesys Cloud. *)

\* The greatest of some numbers is one of them.
LEMMA MaxIn ==
  ASSUME NEW n \in Nat, NEW S, S \subseteq 1..n, S # {}
  PROVE  Max(S) \in S
<1>. DEFINE T == {n - x : x \in S}
<1>1. T \subseteq Nat /\ T # {}
  <2>1. \A x \in S : n - x \in Nat
    OBVIOUS
  <2>. QED  BY <2>1
<1>2. PICK m \in T : \A k \in T : m <= k
  <2>. HIDE DEF T
  <2>. QED  BY <1>1, LeastNatural
<1>3. PICK x \in S : m = n - x
  BY <1>2
<1>4. \A y \in S : x >= y
  <2>. SUFFICES ASSUME NEW y \in S PROVE x >= y
    OBVIOUS
  <2>1. n - x <= n - y
    BY <1>2, <1>3
  <2>2. x \in Nat /\ y \in Nat
    OBVIOUS
  <2>. QED  BY <2>1, <2>2
<1>. QED  BY <1>3, <1>4 DEF Max

----------------------------------------------------------------------------
\* The entities of a Genesys crawl, from its skills, queues, codes, agents, policies.
GenesysSet(k, q, w, a, p) ==
  {GenesysSkill(r) : r \in k}
  \cup {GenesysQueue(r) : r \in q}
  \cup {GenesysWrapUp(r) : r \in w}
  \cup {GenesysAgent(r) : r \in a}
  \cup {GenesysRecording(r) : r \in p}

\* Of Genesys: agents alone refer to anything, and to users nobody extracts here.
LEMMA GenesysSound ==
  ASSUME NEW k, NEW q, NEW w, NEW a, NEW p
  PROVE  Sound("genesys-cloud", GenesysSet(k, q, w, a, p))
<1>. DEFINE S == GenesysSet(k, q, w, a, p)
            Fine(e) == /\ e.kind # "Extension"
                       /\ \A r \in ReferencesOf(e) :
                            (\E x \in S : r = IdOf(x))
                              \/ <<"genesys-cloud", e.kind, r[1]>> \in KeyMismatches
<1>. HIDE DEF S
<1>1. ASSUME NEW r
      PROVE  /\ Fine(GenesysSkill(r)) /\ Fine(GenesysQueue(r)) /\ Fine(GenesysWrapUp(r))
             /\ Fine(GenesysRecording(r))
  <2>1. GenesysSkill(r).kind = "Skill" /\ ReferencesOf(GenesysSkill(r)) = {}
    BY DEF GenesysSkill, Entity, ReferencesOf
  <2>2. GenesysQueue(r).kind = "Queue" /\ ReferencesOf(GenesysQueue(r)) = {}
    BY DEF GenesysQueue, Entity, ReferencesOf
  <2>3. GenesysWrapUp(r).kind = "WrapUpCode" /\ ReferencesOf(GenesysWrapUp(r)) = {}
    BY DEF GenesysWrapUp, Entity, ReferencesOf
  <2>4. GenesysRecording(r).kind = "RecordingPolicy" /\ ReferencesOf(GenesysRecording(r)) = {}
    BY DEF GenesysRecording, Entity, ReferencesOf
  <2>. QED  BY <2>1, <2>2, <2>3, <2>4
<1>2. ASSUME NEW r PROVE Fine(GenesysAgent(r))
  <2>1. /\ GenesysAgent(r).kind = "AgentProfile"
        /\ ReferencesOf(GenesysAgent(r)) = Ref("User", r.email)
    BY DEF GenesysAgent, Entity, ReferencesOf
  <2>2. \A x \in Ref("User", r.email) : x[1] = "User"
    BY DEF Ref, Id
  <2>3. <<"genesys-cloud", "AgentProfile", "User">> \in KeyMismatches
    BY DEF KeyMismatches
  <2>. QED  BY <2>1, <2>2, <2>3
<1>3. \A e \in S : Fine(e)
  <2>. HIDE DEF Fine
  <2>. QED  BY <1>1, <1>2 DEF GenesysSet, S
<1>. QED  BY <1>3 DEF Sound, Explained, NoExtension, S

\* The calls of a crawl of everything.
LEMMA GenesysCalls ==
  \E calls : /\ \A l : CrawlScript("genesys-cloud", AllOf("genesys-cloud"), l) = calls
             /\ Holds(calls, {<<"skills">>, <<"queues">>, <<"wrapupcodes">>, <<"users">>,
                              <<"mediaretentionpolicies">>})
<1>. DEFINE calls == GenesysScript(GenesysKinds)
            a == << <<"skills">> >>
            b == << <<"queues">> >>
            c == << <<"wrapupcodes">> >>
            d == << <<"users">> >>
            e == << <<"mediaretentionpolicies">> >>
<1>1. \A l : CrawlScript("genesys-cloud", AllOf("genesys-cloud"), l) = calls
  BY DEF CrawlScript, AllOf, CrawlExtractable
<1>2. {"Queue", "WrapUpCode", "AgentProfile", "RecordingPolicy"} \subseteq GenesysKinds
  BY DEF GenesysKinds
<1>3. calls = (((a \o b) \o c) \o d) \o e
  BY <1>2 DEF GenesysScript, When
<1>4. /\ Holds(a, {<<"skills">>}) /\ Holds(b, {<<"queues">>}) /\ Holds(c, {<<"wrapupcodes">>})
      /\ Holds(d, {<<"users">>}) /\ Holds(e, {<<"mediaretentionpolicies">>})
  BY HoldsEach
<1>. HIDE DEF a, b, c, d, e, calls
<1>5. Holds(calls, ((({<<"skills">>} \cup {<<"queues">>}) \cup {<<"wrapupcodes">>})
                      \cup {<<"users">>}) \cup {<<"mediaretentionpolicies">>})
  BY <1>3, <1>4, HoldsFive
<1>. QED  BY <1>1, <1>5

\* extract of Genesys yields these entities.
LEMMA GenesysHolds ==
  ASSUME NEW v \in Version, NEW log, QuietLog("genesys-cloud", v, log)
  PROVE  \E k, q, w, a, p : Holds(GenesysEntities(GenesysKinds, log), GenesysSet(k, q, w, a, p))
<1>. DEFINE K == <<"skills">>
            Q == <<"queues">>
            W == <<"wrapupcodes">>
            A == <<"users">>
            P == <<"mediaretentionpolicies">>
<1>1. PICK calls : /\ \A l : CrawlScript("genesys-cloud", AllOf("genesys-cloud"), l) = calls
                   /\ Holds(calls, {K, Q, W, A, P})
  BY GenesysCalls
<1>2. \A call \in {K, Q, W, A, P} : IsRows(Rows(log, call))
  <2>1. \A call \in {K, Q, W, A, P} : call # SmgrUsers
    BY DEF SmgrUsers
  <2>. QED  BY <1>1, <2>1, VendorServed
<1>. DEFINE k == Rows(log, K)
            q == Rows(log, Q)
            w == Rows(log, W)
            a == Rows(log, A)
            p == Rows(log, P)
            s1 == [i \in DOMAIN k |-> GenesysSkill(k[i])]
            s2 == [i \in DOMAIN q |-> GenesysQueue(q[i])]
            s3 == [i \in DOMAIN w |-> GenesysWrapUp(w[i])]
            s4 == [i \in DOMAIN a |-> GenesysAgent(a[i])]
            s5 == [i \in DOMAIN p |-> GenesysRecording(p[i])]
            T1 == {GenesysSkill(r) : r \in ToSet(k)}
            T2 == {GenesysQueue(r) : r \in ToSet(q)}
            T3 == {GenesysWrapUp(r) : r \in ToSet(w)}
            T4 == {GenesysAgent(r) : r \in ToSet(a)}
            T5 == {GenesysRecording(r) : r \in ToSet(p)}
<1>3. GenesysEntities(GenesysKinds, log) = (((s1 \o s2) \o s3) \o s4) \o s5
  BY DEF GenesysEntities, GenesysKinds, EntitiesWhen, Mapped
<1>4. GenesysSet(ToSet(k), ToSet(q), ToSet(w), ToSet(a), ToSet(p))
        = (((T1 \cup T2) \cup T3) \cup T4) \cup T5
  BY DEF GenesysSet
<1>5. IsRows(k) /\ IsRows(q) /\ IsRows(w) /\ IsRows(a) /\ IsRows(p)
  BY <1>2
<1>. HIDE DEF k, q, w, a, p
<1>6. Holds(s1, T1)
  <2>1. s1 = [i \in DOMAIN k |-> s1[i]] /\ T1 = {s1[i] : i \in DOMAIN k}
    BY DEF ToSet
  <2>. HIDE DEF s1, T1
  <2>. QED  BY <1>5, <2>1, HoldsMapped
<1>7. Holds(s2, T2)
  <2>1. s2 = [i \in DOMAIN q |-> s2[i]] /\ T2 = {s2[i] : i \in DOMAIN q}
    BY DEF ToSet
  <2>. HIDE DEF s2, T2
  <2>. QED  BY <1>5, <2>1, HoldsMapped
<1>8. Holds(s3, T3)
  <2>1. s3 = [i \in DOMAIN w |-> s3[i]] /\ T3 = {s3[i] : i \in DOMAIN w}
    BY DEF ToSet
  <2>. HIDE DEF s3, T3
  <2>. QED  BY <1>5, <2>1, HoldsMapped
<1>9. Holds(s4, T4)
  <2>1. s4 = [i \in DOMAIN a |-> s4[i]] /\ T4 = {s4[i] : i \in DOMAIN a}
    BY DEF ToSet
  <2>. HIDE DEF s4, T4
  <2>. QED  BY <1>5, <2>1, HoldsMapped
<1>10. Holds(s5, T5)
  <2>1. s5 = [i \in DOMAIN p |-> s5[i]] /\ T5 = {s5[i] : i \in DOMAIN p}
    BY DEF ToSet
  <2>. HIDE DEF s5, T5
  <2>. QED  BY <1>5, <2>1, HoldsMapped
<1>. HIDE DEF s1, s2, s3, s4, s5, T1, T2, T3, T4, T5
<1>11. Holds((((s1 \o s2) \o s3) \o s4) \o s5, (((T1 \cup T2) \cup T3) \cup T4) \cup T5)
  BY <1>6, <1>7, <1>8, <1>9, <1>10, HoldsFive
<1>. QED  BY <1>3, <1>4, <1>11

----------------------------------------------------------------------------
(* Skype for Business. *)

\* The normalisation rules of a dial plan.
RulesOf(plan) ==
  {Entity("DigitManipulationRule", <<plan.name, rule>>, {}, "LOSSLESS") : rule \in plan.rules}

\* The entities of a Skype crawl, from its policies, plans, upgrades, users, queues, workflows.
SfbSet(p, d, up, u, qs, w) ==
  {SfbPolicy(r) : r \in p}
  \cup (UNION {RulesOf(r) : r \in d})
  \cup {SfbUser(up, r) : r \in u}
  \cup {SfbCallQueue(qs, r) : r \in w}

\* Of Skype for Business: queues alone refer to anything, and to groups nobody extracts.
LEMMA SfbSound ==
  ASSUME NEW p, NEW d, NEW up, NEW u, NEW qs, NEW w
  PROVE  Sound("microsoft-sfb-server", SfbSet(p, d, up, u, qs, w))
<1>. DEFINE S == SfbSet(p, d, up, u, qs, w)
            Fine(e) == /\ e.kind # "Extension"
                       /\ \A r \in ReferencesOf(e) :
                            (\E x \in S : r = IdOf(x))
                              \/ <<"microsoft-sfb-server", e.kind, r[1]>> \in KeyMismatches
<1>. HIDE DEF S
<1>1. ASSUME NEW r PROVE Fine(SfbPolicy(r)) /\ Fine(SfbUser(up, r))
  <2>1. SfbPolicy(r).kind = "CallingPolicy" /\ ReferencesOf(SfbPolicy(r)) = {}
    BY DEF SfbPolicy, Entity, ReferencesOf
  <2>2. SfbUser(up, r).kind = "User" /\ ReferencesOf(SfbUser(up, r)) = {}
    BY DEF SfbUser, Entity, ReferencesOf
  <2>. QED  BY <2>1, <2>2
<1>2. ASSUME NEW r, NEW e \in RulesOf(r) PROVE Fine(e)
  <2>1. PICK m : e = Entity("DigitManipulationRule", <<r.name, m>>, {}, "LOSSLESS")
    BY DEF RulesOf
  <2>2. e.kind = "DigitManipulationRule" /\ ReferencesOf(e) = {}
    BY <2>1 DEF Entity, ReferencesOf
  <2>. QED  BY <2>2
<1>3. ASSUME NEW r PROVE Fine(SfbCallQueue(qs, r))
  <2>1. \E names : /\ SfbCallQueue(qs, r).kind = "CallQueue"
                   /\ ReferencesOf(SfbCallQueue(qs, r)) \subseteq Refs("Group", names)
    <3>. DEFINE named == {i \in DOMAIN qs : qs[i].id = r.queue}
                refs == IF named = {} THEN {} ELSE Refs("Group", qs[Max(named)].groups)
    <3>1. SfbCallQueue(qs, r) = Entity("CallQueue", <<r.name>>, refs, "DEGRADED")
      BY DEF SfbCallQueue
    <3>2. refs \subseteq Refs("Group", qs[Max(named)].groups)
      OBVIOUS
    <3>. HIDE DEF refs
    <3>3. /\ SfbCallQueue(qs, r).kind = "CallQueue"
          /\ ReferencesOf(SfbCallQueue(qs, r)) = refs
      BY <3>1 DEF Entity, ReferencesOf
    <3>. QED  BY <3>2, <3>3
  <2>2. \A names : \A x \in Refs("Group", names) : x[1] = "Group"
    BY DEF Refs, Id
  <2>3. <<"microsoft-sfb-server", "CallQueue", "Group">> \in KeyMismatches
    BY DEF KeyMismatches
  <2>. QED  BY <2>1, <2>2, <2>3
<1>4. \A e \in S : Fine(e)
  <2>. HIDE DEF Fine
  <2>. QED  BY <1>1, <1>2, <1>3 DEF SfbSet, S
<1>. QED  BY <1>4 DEF Sound, Explained, NoExtension, S

\* The calls of a crawl of everything.
LEMMA SfbCalls ==
  \E calls : /\ \A l : CrawlScript("microsoft-sfb-server", AllOf("microsoft-sfb-server"), l) = calls
             /\ Holds(calls, {<<"Get-CsVoicePolicy">>, <<"Get-CsDialPlan">>,
                              <<"Get-CsTeamsUpgradePolicy">>, <<"Get-CsUser">>,
                              <<"Get-CsRgsQueue">>, <<"Get-CsRgsWorkflow">>})
<1>. DEFINE calls == SfbScript(SfbKinds)
            a == << <<"Get-CsVoicePolicy">> >>
            b == << <<"Get-CsDialPlan">> >>
            c == << <<"Get-CsTeamsUpgradePolicy">>, <<"Get-CsUser">> >>
            d == << <<"Get-CsRgsQueue">>, <<"Get-CsRgsWorkflow">> >>
<1>1. \A l : CrawlScript("microsoft-sfb-server", AllOf("microsoft-sfb-server"), l) = calls
  BY DEF CrawlScript, AllOf, CrawlExtractable
<1>2. {"CallingPolicy", "DigitManipulationRule", "User", "CallQueue"} \subseteq SfbKinds
  BY DEF SfbKinds
<1>3. calls = ((a \o b) \o c) \o d
  BY <1>2 DEF SfbScript, When
<1>4. /\ Holds(a, {<<"Get-CsVoicePolicy">>}) /\ Holds(b, {<<"Get-CsDialPlan">>})
      /\ Holds(c, {<<"Get-CsTeamsUpgradePolicy">>, <<"Get-CsUser">>})
      /\ Holds(d, {<<"Get-CsRgsQueue">>, <<"Get-CsRgsWorkflow">>})
  BY HoldsEach, HoldsPair
<1>. HIDE DEF a, b, c, d, calls
<1>5. Holds(calls, (({<<"Get-CsVoicePolicy">>} \cup {<<"Get-CsDialPlan">>})
                      \cup {<<"Get-CsTeamsUpgradePolicy">>, <<"Get-CsUser">>})
                      \cup {<<"Get-CsRgsQueue">>, <<"Get-CsRgsWorkflow">>})
  BY <1>3, <1>4, HoldsFour
<1>. QED  BY <1>1, <1>5

\* extract of Skype for Business yields these entities.
LEMMA SfbHolds ==
  ASSUME NEW v \in Version, NEW log, QuietLog("microsoft-sfb-server", v, log)
  PROVE  \E p, d, up, u, qs, w : Holds(SfbEntities(SfbKinds, log), SfbSet(p, d, up, u, qs, w))
<1>. DEFINE P == <<"Get-CsVoicePolicy">>
            D == <<"Get-CsDialPlan">>
            V == <<"Get-CsTeamsUpgradePolicy">>
            U == <<"Get-CsUser">>
            Q == <<"Get-CsRgsQueue">>
            W == <<"Get-CsRgsWorkflow">>
<1>1. PICK calls :
        /\ \A l : CrawlScript("microsoft-sfb-server", AllOf("microsoft-sfb-server"), l) = calls
        /\ Holds(calls, {P, D, V, U, Q, W})
  BY SfbCalls
<1>2. \A call \in {P, D, U, W} :
        /\ IsRows(Rows(log, call))
        /\ \A f \in SetFields : f[1] = "microsoft-sfb-server" /\ f[2] = call =>
             \A r \in ToSet(Rows(log, call)) : IsFiniteSet(r[f[3]])
  <2>1. \A call \in {P, D, V, U, Q, W} : call # SmgrUsers
    BY DEF SmgrUsers
  <2>2. \A call \in {P, D, V, U, Q, W} :
          /\ IsRows(Rows(log, call))
          /\ \A f \in SetFields : f[1] = "microsoft-sfb-server" /\ f[2] = call =>
               \A r \in ToSet(Rows(log, call)) : IsFiniteSet(r[f[3]])
    BY <1>1, <2>1, VendorServed
  <2>. QED  BY <2>2
<1>3. \A r \in ToSet(Rows(log, D)) : IsFiniteSet(r.rules)
  <2>. DEFINE f == <<"microsoft-sfb-server", D, "rules">>
  <2>1. f \in SetFields
    BY DEF SetFields
  <2>2. f[1] = "microsoft-sfb-server" /\ f[2] = D /\ f[3] = "rules"
    OBVIOUS
  <2>. HIDE DEF D, f
  <2>. QED  BY <1>2, <2>1, <2>2
<1>. DEFINE p == Rows(log, P)
            d == Rows(log, D)
            up == Rows(log, V)
            u == Rows(log, U)
            qs == Rows(log, Q)
            w == Rows(log, W)
            s1 == [i \in DOMAIN p |-> SfbPolicy(p[i])]
            s2 == [i \in DOMAIN d |-> SfbRules(d[i])]
            s3 == [i \in DOMAIN u |-> SfbUser(up, u[i])]
            s4 == [i \in DOMAIN w |-> SfbCallQueue(qs, w[i])]
            T1 == {SfbPolicy(r) : r \in ToSet(p)}
            T2 == UNION {RulesOf(r) : r \in ToSet(d)}
            T3 == {SfbUser(up, r) : r \in ToSet(u)}
            T4 == {SfbCallQueue(qs, r) : r \in ToSet(w)}
<1>4. SfbEntities(SfbKinds, log) = ((s1 \o FlattenSeq(s2)) \o s3) \o s4
  BY DEF SfbEntities, SfbKinds, EntitiesWhen, Mapped
<1>5. SfbSet(ToSet(p), ToSet(d), up, ToSet(u), qs, ToSet(w)) = ((T1 \cup T2) \cup T3) \cup T4
  BY DEF SfbSet
<1>6. /\ IsRows(p) /\ IsRows(d) /\ IsRows(u) /\ IsRows(w)
      /\ \A r \in ToSet(d) : IsFiniteSet(r.rules)
  BY <1>2, <1>3
<1>. HIDE DEF p, d, up, u, qs, w
<1>7. Holds(s1, T1)
  <2>1. s1 = [i \in DOMAIN p |-> s1[i]] /\ T1 = {s1[i] : i \in DOMAIN p}
    BY DEF ToSet
  <2>. HIDE DEF s1, T1
  <2>. QED  BY <1>6, <2>1, HoldsMapped
<1>8. Holds(FlattenSeq(s2), T2)
  <2>. DEFINE sets == [i \in DOMAIN d |-> RulesOf(d[i])]
  <2>1. ASSUME NEW i \in DOMAIN d PROVE IsFiniteSet(sets[i])
    <3>1. IsFiniteSet(d[i].rules)
      BY <1>6 DEF ToSet
    <3>. DEFINE F == [m \in d[i].rules |->
                        Entity("DigitManipulationRule", <<d[i].name, m>>, {}, "LOSSLESS")]
    <3>2. sets[i] = {F[m] : m \in d[i].rules}
      BY DEF RulesOf
    <3>. HIDE DEF F, sets
    <3>. QED  BY <3>1, <3>2, ImageFinite
  <2>2. T2 = UNION {sets[i] : i \in DOMAIN d}
    <3>1. \A i \in DOMAIN d : sets[i] = RulesOf(d[i])
      OBVIOUS
    <3>. HIDE DEF sets
    <3>. QED  BY <3>1 DEF ToSet
  <2>3. s2 = [i \in DOMAIN d |-> SetToSeq(sets[i])]
    BY DEF SfbRules, RulesOf
  <2>. HIDE DEF sets, T2, s2
  <2>. QED  BY <1>6, <2>1, <2>2, <2>3, HoldsSets
<1>9. Holds(s3, T3)
  <2>1. s3 = [i \in DOMAIN u |-> s3[i]] /\ T3 = {s3[i] : i \in DOMAIN u}
    BY DEF ToSet
  <2>. HIDE DEF s3, T3
  <2>. QED  BY <1>6, <2>1, HoldsMapped
<1>10. Holds(s4, T4)
  <2>1. s4 = [i \in DOMAIN w |-> s4[i]] /\ T4 = {s4[i] : i \in DOMAIN w}
    BY DEF ToSet
  <2>. HIDE DEF s4, T4
  <2>. QED  BY <1>6, <2>1, HoldsMapped
<1>. HIDE DEF s1, s2, s3, s4, T1, T2, T3, T4
<1>11. Holds(((s1 \o FlattenSeq(s2)) \o s3) \o s4, ((T1 \cup T2) \cup T3) \cup T4)
  BY <1>7, <1>8, <1>9, <1>10, HoldsFour
<1>. QED  BY <1>4, <1>5, <1>11

----------------------------------------------------------------------------
(* Microsoft Teams. *)

\* The licences of a user.
LicencesOf(r) ==
  {Entity("LicenseAssignment", <<r.upn, sku>>, Ref("User", r.upn), "LOSSLESS")
     : sku \in r.licences}

\* The entities of a Teams crawl, from its locations, numbers, policies, voice rows and users.
TeamsSet(l, n, p, voice, u) ==
  {TeamsLocation(r) : r \in l}
  \cup {TeamsNumber(r) : r \in n}
  \cup {TeamsPolicy(r) : r \in p}
  \cup {TeamsUser(voice, r) : r \in u}
  \cup (UNION {LicencesOf(r) : r \in u})

\* The numbers of the voice rows are among those listed.
VoiceOf(voice, n) ==
  \A i \in DOMAIN voice : {voice[i].line, voice[i].onprem} \subseteq {r.number : r \in n} \cup {None}

\* A user of Teams refers to numbers of its voice row, all of them listed.
LEMMA TeamsUserFacts ==
  ASSUME NEW voice, IsRows(voice), NEW n, VoiceOf(voice, n), NEW r
  PROVE  /\ TeamsUser(voice, r).kind = "User" /\ TeamsUser(voice, r).key = <<r.upn>>
         /\ \A x \in ReferencesOf(TeamsUser(voice, r)) :
              \E m \in n : x = Id("E164Number", <<m.number>>)
<1>. DEFINE mine == {i \in DOMAIN voice : voice[i].upn = r.upn}
            line == IF mine = {} THEN None ELSE voice[Max(mine)].line
            onprem == IF mine = {} THEN None ELSE voice[Max(mine)].onprem
            name == IF line # None THEN line ELSE onprem
            f == Assess(r, onprem # None /\ line = None)
<1>1. TeamsUser(voice, r) = Entity("User", <<r.upn>>, Ref("E164Number", name), f)
  BY DEF TeamsUser
<1>2. line \in {m.number : m \in n} \cup {None} /\ onprem \in {m.number : m \in n} \cup {None}
  <2>1. CASE mine = {}
    BY <2>1
  <2>2. CASE mine # {}
    <3>1. Len(voice) \in Nat /\ DOMAIN voice = 1..Len(voice)
      BY RowsFacts
    <3>2. Max(mine) \in mine
      <4>1. mine \subseteq 1..Len(voice)
        BY <3>1
      <4>. HIDE DEF mine
      <4>. QED  BY <2>2, <3>1, <4>1, MaxIn
    <3>3. Max(mine) \in DOMAIN voice
      BY <3>2
    <3>. HIDE DEF mine
    <3>4. line = voice[Max(mine)].line /\ onprem = voice[Max(mine)].onprem
      BY <2>2
    <3>. HIDE DEF line, onprem
    <3>. QED  BY <3>3, <3>4 DEF VoiceOf
  <2>. QED  BY <2>1, <2>2
<1>. HIDE DEF mine, line, onprem, f
<1>3. name \in {m.number : m \in n} \cup {None}
  BY <1>2
<1>. HIDE DEF name
<1>4. /\ TeamsUser(voice, r).kind = "User" /\ TeamsUser(voice, r).key = <<r.upn>>
      /\ ReferencesOf(TeamsUser(voice, r)) = Ref("E164Number", name)
  BY <1>1 DEF Entity, ReferencesOf
<1>5. \A x \in Ref("E164Number", name) : \E m \in n : x = Id("E164Number", <<m.number>>)
  BY <1>3 DEF Ref
<1>. QED  BY <1>4, <1>5

\* Teams has no extensions.
LEMMA TeamsNoExtension ==
  ASSUME NEW l, NEW n, NEW p, NEW voice, NEW u
  PROVE  NoExtension(TeamsSet(l, n, p, voice, u))
<1>1. \A r : TeamsLocation(r).kind = "EmergencyLocation"
  BY DEF TeamsLocation, Entity
<1>2. \A r : TeamsNumber(r).kind = "E164Number"
  BY DEF TeamsNumber, Entity
<1>3. \A r : TeamsPolicy(r).kind = "VoiceRoutingPolicy"
  BY DEF TeamsPolicy, Entity
<1>4. \A r : TeamsUser(voice, r).kind = "User"
  BY DEF TeamsUser, Entity
<1>5. \A r : \A e \in LicencesOf(r) : e.kind = "LicenseAssignment"
  BY DEF LicencesOf, Entity
<1>. QED  BY <1>1, <1>2, <1>3, <1>4, <1>5 DEF TeamsSet, NoExtension

\* Of Teams: users refer to numbers that are there, licences to users.
LEMMA TeamsExplained ==
  ASSUME NEW l, NEW n, NEW p, NEW voice, IsRows(voice), NEW u, VoiceOf(voice, n)
  PROVE  Explained("microsoft-teams", TeamsSet(l, n, p, voice, u))
<1>. DEFINE S == TeamsSet(l, n, p, voice, u)
            Fine(e) == \A r \in ReferencesOf(e) :
                         (\E x \in S : r = IdOf(x))
                           \/ <<"microsoft-teams", e.kind, r[1]>> \in KeyMismatches
<1>0. /\ \A r \in n : TeamsNumber(r) \in S
      /\ \A r \in u : TeamsUser(voice, r) \in S
  BY DEF TeamsSet
<1>. HIDE DEF S
<1>1. ASSUME NEW r PROVE Fine(TeamsLocation(r))
  <2>1. TeamsLocation(r).kind = "EmergencyLocation" /\ ReferencesOf(TeamsLocation(r)) = {}
    BY DEF TeamsLocation, Entity, ReferencesOf
  <2>. QED  BY <2>1
<1>2. ASSUME NEW r PROVE Fine(TeamsNumber(r))
  <2>1. /\ TeamsNumber(r).kind = "E164Number"
        /\ ReferencesOf(TeamsNumber(r))
             = Ref("User", r.assigned) \cup Ref("EmergencyLocation", r.location)
    BY DEF TeamsNumber, Entity, ReferencesOf
  <2>2. /\ \A x \in Ref("User", r.assigned) : x[1] = "User"
        /\ \A x \in Ref("EmergencyLocation", r.location) : x[1] = "EmergencyLocation"
    BY DEF Ref, Id
  <2>3. /\ <<"microsoft-teams", "E164Number", "User">> \in KeyMismatches
        /\ <<"microsoft-teams", "E164Number", "EmergencyLocation">> \in KeyMismatches
    BY DEF KeyMismatches
  <2>. QED  BY <2>1, <2>2, <2>3
<1>3. ASSUME NEW r PROVE Fine(TeamsPolicy(r))
  <2>1. /\ TeamsPolicy(r).kind = "VoiceRoutingPolicy"
        /\ ReferencesOf(TeamsPolicy(r)) = Refs("PSTNUsage", r.usages)
    BY DEF TeamsPolicy, Entity, ReferencesOf
  <2>2. \A x \in Refs("PSTNUsage", r.usages) : x[1] = "PSTNUsage"
    BY DEF Refs, Id
  <2>3. <<"microsoft-teams", "VoiceRoutingPolicy", "PSTNUsage">> \in KeyMismatches
    BY DEF KeyMismatches
  <2>. QED  BY <2>1, <2>2, <2>3
<1>4. ASSUME NEW r PROVE Fine(TeamsUser(voice, r))
  <2>1. ASSUME NEW x \in ReferencesOf(TeamsUser(voice, r)) PROVE \E y \in S : x = IdOf(y)
    <3>1. PICK m \in n : x = Id("E164Number", <<m.number>>)
      BY TeamsUserFacts
    <3>2. IdOf(TeamsNumber(m)) = Id("E164Number", <<m.number>>)
      BY DEF TeamsNumber, Entity, IdOf
    <3>. QED  BY <1>0, <3>1, <3>2
  <2>2. TeamsUser(voice, r).kind = "User"
    BY TeamsUserFacts
  <2>. QED  BY <2>1, <2>2
<1>5. ASSUME NEW r \in u, NEW e \in LicencesOf(r) PROVE Fine(e)
  <2>1. PICK sku : e = Entity("LicenseAssignment", <<r.upn, sku>>, Ref("User", r.upn), "LOSSLESS")
    BY DEF LicencesOf
  <2>2. e.kind = "LicenseAssignment" /\ ReferencesOf(e) = Ref("User", r.upn)
    BY <2>1 DEF Entity, ReferencesOf
  <2>3. IdOf(TeamsUser(voice, r)) = Id("User", <<r.upn>>)
    BY TeamsUserFacts DEF IdOf
  <2>4. ASSUME NEW x \in Ref("User", r.upn) PROVE \E y \in S : x = IdOf(y)
    <3>1. x = Id("User", <<r.upn>>)
      BY DEF Ref
    <3>. QED  BY <1>0, <2>3, <3>1
  <2>. QED  BY <2>2, <2>4
<1>6. \A e \in S : Fine(e)
  <2>. HIDE DEF Fine
  <2>. QED  BY <1>1, <1>2, <1>3, <1>4, <1>5 DEF TeamsSet, S
<1>. QED  BY <1>6 DEF Explained, S

\* The calls of a crawl of everything.
LEMMA TeamsCalls ==
  \E calls : /\ \A l : CrawlScript("microsoft-teams", AllOf("microsoft-teams"), l) = calls
             /\ Holds(calls, {<<"Get-CsOnlineLisLocation">>, <<"Get-CsPhoneNumberAssignment">>,
                              <<"Get-CsOnlineVoiceRoutingPolicy">>, <<"Graph", "users">>,
                              <<"Get-CsOnlineUser">>, <<"Graph", "subscribedSkus">>})
<1>. DEFINE calls == TeamsScript(TeamsKinds)
            a == << <<"Get-CsOnlineLisLocation">> >>
            b == << <<"Get-CsPhoneNumberAssignment">> >>
            c == << <<"Get-CsOnlineVoiceRoutingPolicy">> >>
            d == << <<"Graph", "users">> >>
            e == << <<"Get-CsOnlineUser">> >>
            g == << <<"Graph", "subscribedSkus">> >>
<1>1. \A l : CrawlScript("microsoft-teams", AllOf("microsoft-teams"), l) = calls
  BY DEF CrawlScript, AllOf, CrawlExtractable
<1>2. /\ {"EmergencyLocation", "E164Number", "User", "LicenseAssignment", "VoiceRoutingPolicy"}
           \subseteq TeamsKinds
      /\ TeamsKinds \cap {"User", "LicenseAssignment"} # {}
  BY DEF TeamsKinds
<1>3. calls = ((((a \o b) \o c) \o d) \o e) \o g
  BY <1>2 DEF TeamsScript, When
<1>4. /\ Holds(a, {<<"Get-CsOnlineLisLocation">>}) /\ Holds(b, {<<"Get-CsPhoneNumberAssignment">>})
      /\ Holds(c, {<<"Get-CsOnlineVoiceRoutingPolicy">>}) /\ Holds(d, {<<"Graph", "users">>})
      /\ Holds(e, {<<"Get-CsOnlineUser">>}) /\ Holds(g, {<<"Graph", "subscribedSkus">>})
  BY HoldsEach
<1>. HIDE DEF a, b, c, d, e, g, calls
<1>. DEFINE first == ((({<<"Get-CsOnlineLisLocation">>} \cup {<<"Get-CsPhoneNumberAssignment">>})
                      \cup {<<"Get-CsOnlineVoiceRoutingPolicy">>}) \cup {<<"Graph", "users">>})
                      \cup {<<"Get-CsOnlineUser">>}
<1>5. Holds((((a \o b) \o c) \o d) \o e, first)
  BY <1>4, HoldsFive
<1>. HIDE DEF first
<1>6. Holds(calls, first \cup {<<"Graph", "subscribedSkus">>})
  BY <1>3, <1>4, <1>5, HoldsConcat
<1>. QED  BY <1>1, <1>6 DEF first

\* extract of Teams yields these entities.
LEMMA TeamsHolds ==
  ASSUME NEW v \in Version, NEW log, QuietLog("microsoft-teams", v, log)
  PROVE  \E l, n, p, voice, u :
           /\ Holds(TeamsEntities(TeamsKinds, log), TeamsSet(l, n, p, voice, u))
           /\ IsRows(voice) /\ (TeamsWhole(v) => VoiceOf(voice, n))
<1>. DEFINE L == <<"Get-CsOnlineLisLocation">>
            N == <<"Get-CsPhoneNumberAssignment">>
            P == <<"Get-CsOnlineVoiceRoutingPolicy">>
            U == <<"Graph", "users">>
            V == <<"Get-CsOnlineUser">>
            K == <<"Graph", "subscribedSkus">>
<1>1. PICK calls :
        /\ \A l : CrawlScript("microsoft-teams", AllOf("microsoft-teams"), l) = calls
        /\ Holds(calls, {L, N, P, U, V, K})
  BY TeamsCalls
<1>2. \A call \in {L, N, P, U, V, K} :
        /\ Served("microsoft-teams", v, log, call)
        /\ IsRows(Rows(log, call))
        /\ \A f \in SetFields : f[1] = "microsoft-teams" /\ f[2] = call =>
             \A r \in ToSet(Rows(log, call)) : IsFiniteSet(r[f[3]])
  <2>1. \A call \in {L, N, P, U, V, K} : call # SmgrUsers
    BY DEF SmgrUsers
  <2>. QED  BY <1>1, <2>1, VendorServed
<1>3. \A r \in ToSet(Rows(log, U)) : IsFiniteSet(r.licences)
  <2>. DEFINE f == <<"microsoft-teams", U, "licences">>
  <2>1. f \in SetFields
    BY DEF SetFields
  <2>2. f[1] = "microsoft-teams" /\ f[2] = U /\ f[3] = "licences"
    OBVIOUS
  <2>. HIDE DEF U, f
  <2>. QED  BY <1>2, <2>1, <2>2
<1>. DEFINE l == Rows(log, L)
            n == Rows(log, N)
            p == Rows(log, P)
            u == Rows(log, U)
            voice == Rows(log, V)
            s1 == [i \in DOMAIN l |-> TeamsLocation(l[i])]
            s2 == [i \in DOMAIN n |-> TeamsNumber(n[i])]
            s3 == [i \in DOMAIN p |-> TeamsPolicy(p[i])]
            s4 == [i \in DOMAIN u |-> TeamsUser(voice, u[i])]
            s5 == [i \in DOMAIN u |-> TeamsLicences(u[i])]
            T1 == {TeamsLocation(r) : r \in ToSet(l)}
            T2 == {TeamsNumber(r) : r \in ToSet(n)}
            T3 == {TeamsPolicy(r) : r \in ToSet(p)}
            T4 == {TeamsUser(voice, r) : r \in ToSet(u)}
            T5 == UNION {LicencesOf(r) : r \in ToSet(u)}
<1>4. TeamsEntities(TeamsKinds, log) = (((s1 \o s2) \o s3) \o s4) \o FlattenSeq(s5)
  BY DEF TeamsEntities, TeamsKinds, EntitiesWhen, Mapped
<1>5. TeamsSet(ToSet(l), ToSet(n), ToSet(p), voice, ToSet(u))
        = (((T1 \cup T2) \cup T3) \cup T4) \cup T5
  BY DEF TeamsSet
<1>6. /\ IsRows(l) /\ IsRows(n) /\ IsRows(p) /\ IsRows(u) /\ IsRows(voice)
      /\ \A r \in ToSet(u) : IsFiniteSet(r.licences)
  BY <1>2, <1>3
<1>7. ASSUME TeamsWhole(v) PROVE VoiceOf(voice, ToSet(n))
  <2>1. /\ Estate("microsoft-teams", v, V) = voice /\ voice # Refused
        /\ Estate("microsoft-teams", v, N) = n /\ n # Refused
    BY <1>2 DEF Served
  <2>2. Objects("microsoft-teams", v, V) = ToSet(voice)
        /\ Objects("microsoft-teams", v, N) = ToSet(n)
    BY <2>1 DEF Objects
  <2>3. \A r \in Objects("microsoft-teams", v, V) :
          {r.line, r.onprem} \subseteq {x.number : x \in Objects("microsoft-teams", v, N)} \cup {None}
    BY <1>7 DEF TeamsWhole
  <2>4. \A i \in DOMAIN voice : voice[i] \in ToSet(voice)
    BY DEF ToSet
  <2>. HIDE DEF voice, n, V, N
  <2>. QED  BY <2>2, <2>3, <2>4 DEF VoiceOf
<1>. HIDE DEF l, n, p, u, voice
<1>8. Holds(s1, T1)
  <2>1. s1 = [i \in DOMAIN l |-> s1[i]] /\ T1 = {s1[i] : i \in DOMAIN l}
    BY DEF ToSet
  <2>. HIDE DEF s1, T1
  <2>. QED  BY <1>6, <2>1, HoldsMapped
<1>9. Holds(s2, T2)
  <2>1. s2 = [i \in DOMAIN n |-> s2[i]] /\ T2 = {s2[i] : i \in DOMAIN n}
    BY DEF ToSet
  <2>. HIDE DEF s2, T2
  <2>. QED  BY <1>6, <2>1, HoldsMapped
<1>10. Holds(s3, T3)
  <2>1. s3 = [i \in DOMAIN p |-> s3[i]] /\ T3 = {s3[i] : i \in DOMAIN p}
    BY DEF ToSet
  <2>. HIDE DEF s3, T3
  <2>. QED  BY <1>6, <2>1, HoldsMapped
<1>11. Holds(s4, T4)
  <2>1. s4 = [i \in DOMAIN u |-> s4[i]] /\ T4 = {s4[i] : i \in DOMAIN u}
    BY DEF ToSet
  <2>. HIDE DEF s4, T4
  <2>. QED  BY <1>6, <2>1, HoldsMapped
<1>12. Holds(FlattenSeq(s5), T5)
  <2>. DEFINE sets == [i \in DOMAIN u |-> LicencesOf(u[i])]
  <2>1. ASSUME NEW i \in DOMAIN u PROVE IsFiniteSet(sets[i])
    <3>1. IsFiniteSet(u[i].licences)
      BY <1>6 DEF ToSet
    <3>. DEFINE F == [m \in u[i].licences |->
                        Entity("LicenseAssignment", <<u[i].upn, m>>, Ref("User", u[i].upn), "LOSSLESS")]
    <3>2. sets[i] = {F[m] : m \in u[i].licences}
      BY DEF LicencesOf
    <3>. HIDE DEF F, sets
    <3>. QED  BY <3>1, <3>2, ImageFinite
  <2>2. T5 = UNION {sets[i] : i \in DOMAIN u}
    <3>1. \A i \in DOMAIN u : sets[i] = LicencesOf(u[i])
      OBVIOUS
    <3>. HIDE DEF sets
    <3>. QED  BY <3>1 DEF ToSet
  <2>3. s5 = [i \in DOMAIN u |-> SetToSeq(sets[i])]
    BY DEF TeamsLicences, LicencesOf
  <2>. HIDE DEF sets, T5, s5
  <2>. QED  BY <1>6, <2>1, <2>2, <2>3, HoldsSets
<1>. HIDE DEF s1, s2, s3, s4, s5, T1, T2, T3, T4, T5
<1>13. Holds((((s1 \o s2) \o s3) \o s4) \o FlattenSeq(s5), (((T1 \cup T2) \cup T3) \cup T4) \cup T5)
  BY <1>8, <1>9, <1>10, <1>11, <1>12, HoldsFive
<1>. QED  BY <1>4, <1>5, <1>6, <1>7, <1>13

----------------------------------------------------------------------------
(* The reference platform. *)

\* The entities of a crawl of the reference platform, from its sites, numbers, users and lines.
MemorySet(s, n, u, l) ==
  {ReferenceSite(r) : r \in s}
  \cup {ReferenceNumber(r) : r \in n}
  \cup {ReferenceUser(r) : r \in u}
  \cup {ReferenceLine(r) : r \in l}

\* The names of the estate are those of its sites, numbers and users.
MemoryOf(s, n, u, l) ==
  LET numbers == {r.number : r \in n} \cup {None}
      users   == {r.user : r \in u} \cup {None}
      sites   == {r.site : r \in s} \cup {None}
  IN /\ \A r \in s : r.elin \in numbers
     /\ \A r \in n : r.user \in users /\ r.site \in sites
     /\ \A r \in u : r.did \in numbers
     /\ \A r \in l : r.user \in users /\ r.did \in numbers

\* The reference platform has no extensions.
LEMMA MemoryNoExtension ==
  ASSUME NEW s, NEW n, NEW u, NEW l
  PROVE  NoExtension(MemorySet(s, n, u, l))
<1>1. \A r : ReferenceSite(r).kind = "EmergencyLocation"
  BY DEF ReferenceSite, Entity
<1>2. \A r : ReferenceNumber(r).kind = "E164Number"
  BY DEF ReferenceNumber, Entity
<1>3. \A r : ReferenceUser(r).kind = "User"
  BY DEF ReferenceUser, Entity
<1>4. \A r : ReferenceLine(r).kind = "Line"
  BY DEF ReferenceLine, Entity
<1>. QED  BY <1>1, <1>2, <1>3, <1>4 DEF MemorySet, NoExtension

\* Of the reference platform: its names are those of its own objects.
LEMMA MemoryExplained ==
  ASSUME NEW s, NEW n, NEW u, NEW l, MemoryOf(s, n, u, l)
  PROVE  Explained("reference-memory", MemorySet(s, n, u, l))
<1>. DEFINE S == MemorySet(s, n, u, l)
            There(refs) == \A x \in refs : \E y \in S : x = IdOf(y)
            Fine(e) == There(ReferencesOf(e))
<1>0. /\ \A r \in s : ReferenceSite(r) \in S
      /\ \A r \in n : ReferenceNumber(r) \in S
      /\ \A r \in u : ReferenceUser(r) \in S
  BY DEF MemorySet
<1>. HIDE DEF S
<1>1. ASSUME NEW name \in {r.number : r \in n} \cup {None} PROVE There(Ref("E164Number", name))
  <2>1. \A r : IdOf(ReferenceNumber(r)) = Id("E164Number", <<r.number>>)
    BY DEF ReferenceNumber, Entity, IdOf
  <2>2. name # None => \E r \in n : name = r.number
    OBVIOUS
  <2>3. name # None => \E y \in S : IdOf(y) = Id("E164Number", <<name>>)
    BY <1>0, <2>1, <2>2
  <2>. QED  BY <2>3 DEF Ref
<1>2. ASSUME NEW name \in {r.user : r \in u} \cup {None} PROVE There(Ref("User", name))
  <2>1. \A r : IdOf(ReferenceUser(r)) = Id("User", <<r.user>>)
    BY DEF ReferenceUser, Entity, IdOf
  <2>2. name # None => \E r \in u : name = r.user
    OBVIOUS
  <2>3. name # None => \E y \in S : IdOf(y) = Id("User", <<name>>)
    BY <1>0, <2>1, <2>2
  <2>. QED  BY <2>3 DEF Ref
<1>3. ASSUME NEW name \in {r.site : r \in s} \cup {None}
      PROVE  There(Ref("EmergencyLocation", name))
  <2>1. \A r : IdOf(ReferenceSite(r)) = Id("EmergencyLocation", <<r.site>>)
    BY DEF ReferenceSite, Entity, IdOf
  <2>2. name # None => \E r \in s : name = r.site
    OBVIOUS
  <2>3. name # None => \E y \in S : IdOf(y) = Id("EmergencyLocation", <<name>>)
    BY <1>0, <2>1, <2>2
  <2>. QED  BY <2>3 DEF Ref
<1>4. \A a, b : There(a) /\ There(b) => There(a \cup b)
  OBVIOUS
<1>. HIDE DEF There
<1>5. ASSUME NEW r \in s PROVE Fine(ReferenceSite(r))
  <2>1. r.elin \in {x.number : x \in n} \cup {None}
    BY DEF MemoryOf
  <2>2. ReferencesOf(ReferenceSite(r)) = Ref("E164Number", r.elin)
    BY DEF ReferenceSite, Entity, ReferencesOf
  <2>. QED  BY <1>1, <2>1, <2>2
<1>6. ASSUME NEW r \in n PROVE Fine(ReferenceNumber(r))
  <2>1. r.user \in {x.user : x \in u} \cup {None} /\ r.site \in {x.site : x \in s} \cup {None}
    BY DEF MemoryOf
  <2>2. ReferencesOf(ReferenceNumber(r)) = Ref("User", r.user) \cup Ref("EmergencyLocation", r.site)
    BY DEF ReferenceNumber, Entity, ReferencesOf
  <2>. QED  BY <1>2, <1>3, <1>4, <2>1, <2>2
<1>7. ASSUME NEW r \in u PROVE Fine(ReferenceUser(r))
  <2>1. r.did \in {x.number : x \in n} \cup {None}
    BY DEF MemoryOf
  <2>2. ReferencesOf(ReferenceUser(r)) = Ref("E164Number", r.did)
    BY DEF ReferenceUser, Entity, ReferencesOf
  <2>. QED  BY <1>1, <2>1, <2>2
<1>8. ASSUME NEW r \in l PROVE Fine(ReferenceLine(r))
  <2>1. r.user \in {x.user : x \in u} \cup {None} /\ r.did \in {x.number : x \in n} \cup {None}
    BY DEF MemoryOf
  <2>2. ReferencesOf(ReferenceLine(r)) = Ref("User", r.user) \cup Ref("E164Number", r.did)
    BY DEF ReferenceLine, Entity, ReferencesOf
  <2>. QED  BY <1>1, <1>2, <1>4, <2>1, <2>2
<1>9. \A e \in S : Fine(e)
  <2>. HIDE DEF Fine
  <2>. QED  BY <1>5, <1>6, <1>7, <1>8 DEF MemorySet, S
<1>. QED  BY <1>9 DEF Explained, There, S

\* extract of the reference connector yields these entities.
LEMMA MemoryHolds ==
  ASSUME NEW v \in Version, NEW log, QuietLog("reference-memory", v, log)
  PROVE  \E s, n, u, l : /\ Holds(ReferenceEntities(ReferenceKinds, log), MemorySet(s, n, u, l))
                         /\ MemoryWhole(v) => MemoryOf(s, n, u, l)
<1>. DEFINE call == <<"list_records">>
            calls == <<call>>
            rows == Rows(log, call)
            estate == Head(rows)
<1>1. Served("reference-memory", v, log, call)
  <2>1. /\ \A l : CrawlScript("reference-memory", AllOf("reference-memory"), l) = calls
        /\ "reference-memory" \in Plain /\ call # SmgrUsers
    BY DEF CrawlScript, ReferenceScript, Plain, SmgrUsers
  <2>2. IsRows(calls) /\ call \in ToSet(calls)
    <3>. HIDE DEF call
    <3>. QED  BY SingleRow
  <2>. HIDE DEF calls, call
  <2>. QED  BY <2>1, <2>2, FixedServed
<1>2. Estate("reference-memory", v, call) = rows /\ rows # Refused
  BY <1>1 DEF Served
<1>. DEFINE s == estate.sites
            n == estate.numbers
            u == estate.users
            l == estate.lines
            s1 == [i \in DOMAIN s |-> ReferenceSite(s[i])]
            s2 == [i \in DOMAIN n |-> ReferenceNumber(n[i])]
            s3 == [i \in DOMAIN u |-> ReferenceUser(u[i])]
            s4 == [i \in DOMAIN l |-> ReferenceLine(l[i])]
            T1 == {ReferenceSite(r) : r \in ToSet(s)}
            T2 == {ReferenceNumber(r) : r \in ToSet(n)}
            T3 == {ReferenceUser(r) : r \in ToSet(u)}
            T4 == {ReferenceLine(r) : r \in ToSet(l)}
<1>3. ReferenceEntities(ReferenceKinds, log) = ((s1 \o s2) \o s3) \o s4
  BY DEF ReferenceEntities, ReferenceKinds, When, Mapped
<1>4. MemorySet(ToSet(s), ToSet(n), ToSet(u), ToSet(l)) = ((T1 \cup T2) \cup T3) \cup T4
  BY DEF MemorySet
<1>5. IsRows(s) /\ IsRows(n) /\ IsRows(u) /\ IsRows(l)
  <2>1. MemoryAnswers(v)
    BY EstateAssumption
  <2>2. LET a == Estate("reference-memory", v, call)
        IN a # Refused => /\ IsRows(Head(a).sites) /\ IsRows(Head(a).numbers)
                          /\ IsRows(Head(a).users) /\ IsRows(Head(a).lines)
    BY <2>1 DEF MemoryAnswers
  <2>. QED  BY <1>2, <2>2
<1>6. ASSUME MemoryWhole(v) PROVE MemoryOf(ToSet(s), ToSet(n), ToSet(u), ToSet(l))
  <2>. DEFINE a == Estate("reference-memory", v, call)
  <2>1. a # Refused =>
          MemoryOf(ToSet(Head(a).sites), ToSet(Head(a).numbers), ToSet(Head(a).users),
                   ToSet(Head(a).lines))
    BY <1>6 DEF MemoryWhole, MemoryOf
  <2>. QED  BY <1>2, <2>1
<1>. HIDE DEF s, n, u, l
<1>7. Holds(s1, T1)
  <2>1. s1 = [i \in DOMAIN s |-> s1[i]] /\ T1 = {s1[i] : i \in DOMAIN s}
    BY DEF ToSet
  <2>. HIDE DEF s1, T1
  <2>. QED  BY <1>5, <2>1, HoldsMapped
<1>8. Holds(s2, T2)
  <2>1. s2 = [i \in DOMAIN n |-> s2[i]] /\ T2 = {s2[i] : i \in DOMAIN n}
    BY DEF ToSet
  <2>. HIDE DEF s2, T2
  <2>. QED  BY <1>5, <2>1, HoldsMapped
<1>9. Holds(s3, T3)
  <2>1. s3 = [i \in DOMAIN u |-> s3[i]] /\ T3 = {s3[i] : i \in DOMAIN u}
    BY DEF ToSet
  <2>. HIDE DEF s3, T3
  <2>. QED  BY <1>5, <2>1, HoldsMapped
<1>10. Holds(s4, T4)
  <2>1. s4 = [i \in DOMAIN l |-> s4[i]] /\ T4 = {s4[i] : i \in DOMAIN l}
    BY DEF ToSet
  <2>. HIDE DEF s4, T4
  <2>. QED  BY <1>5, <2>1, HoldsMapped
<1>. HIDE DEF s1, s2, s3, s4, T1, T2, T3, T4
<1>11. Holds(((s1 \o s2) \o s3) \o s4, ((T1 \cup T2) \cup T3) \cup T4)
  BY <1>7, <1>8, <1>9, <1>10, HoldsFour
<1>. QED  BY <1>3, <1>4, <1>6, <1>11

----------------------------------------------------------------------------
(* Avaya Aura: the calls follow from the stations. *)

\* The distinct values of a field of the rows, without the absent one.
LEMMA DistinctRows ==
  ASSUME NEW rows, IsRows(rows), NEW F, DOMAIN F = ToSet(rows), NEW S,
         S = {F[r] : r \in ToSet(rows)} \ {None}
  PROVE  IsRows(SetToSeq(S)) /\ ToSet(SetToSeq(S)) = S
<1>1. IsFiniteSet(ToSet(rows))
  <2>1. Len(rows) \in Nat /\ DOMAIN rows = 1..Len(rows)
    BY RowsFacts
  <2>2. IsFiniteSet(DOMAIN rows)
    BY <2>1, FS_Interval
  <2>3. ToSet(rows) = {rows[i] : i \in DOMAIN rows}
    BY DEF ToSet
  <2>. QED  BY <2>2, <2>3, ImageFinite
<1>2. IsFiniteSet({F[r] : r \in ToSet(rows)})
  BY <1>1, ImageFinite
<1>3. IsFiniteSet(S)
  BY <1>2, FS_Subset
<1>. QED  BY <1>3, SetRows

\* The classes of restriction the stations name.
LEMMA CorsRows ==
  ASSUME NEW rows, IsRows(rows)
  PROVE  Holds(Cors(rows), {r.cor : r \in ToSet(rows)} \ {None})
<1>. DEFINE F == [r \in ToSet(rows) |-> r.cor]
            S == {r.cor : r \in ToSet(rows)} \ {None}
<1>1. S = {F[r] : r \in ToSet(rows)} \ {None} /\ DOMAIN F = ToSet(rows)
  OBVIOUS
<1>2. Cors(rows) = SetToSeq(S)
  BY DEF Cors, Distinct
<1>. HIDE DEF F, S
<1>3. IsRows(SetToSeq(S)) /\ ToSet(SetToSeq(S)) = S
  BY <1>1, DistinctRows
<1>. QED  BY <1>2, <1>3 DEF Holds, S

\* The coverage paths the stations name.
LEMMA PathsRows ==
  ASSUME NEW rows, IsRows(rows)
  PROVE  Holds(CoveragePaths(rows), {r.path : r \in ToSet(rows)} \ {None})
<1>. DEFINE F == [r \in ToSet(rows) |-> r.path]
            S == {r.path : r \in ToSet(rows)} \ {None}
<1>1. S = {F[r] : r \in ToSet(rows)} \ {None} /\ DOMAIN F = ToSet(rows)
  OBVIOUS
<1>2. CoveragePaths(rows) = SetToSeq(S)
  BY DEF CoveragePaths, Distinct
<1>. HIDE DEF F, S
<1>3. IsRows(SetToSeq(S)) /\ ToSet(SetToSeq(S)) = S
  BY <1>1, DistinctRows
<1>. QED  BY <1>2, <1>3 DEF Holds, S

\* The calls of a full crawl, once the stations are known.
AuraCalls(st) ==
  {ListStation} \cup {DisplayStation(st[i].ext) : i \in DOMAIN st}
    \cup {DisplayCoverage(CoveragePaths(st)[i]) : i \in DOMAIN CoveragePaths(st)}
    \cup {ListHuntGroup} \cup {SmgrUsers}

\* The same calls, in the order they are made.
AuraScript(st) ==
  (((<<ListStation>>
     \o [i \in DOMAIN st |-> DisplayStation(st[i].ext)])
     \o [i \in DOMAIN CoveragePaths(st) |-> DisplayCoverage(CoveragePaths(st)[i])])
     \o <<ListHuntGroup>>) \o <<SmgrUsers>>

\* It is those calls, and it begins with the stations.
LEMMA AuraScriptHolds ==
  ASSUME NEW st, IsRows(st)
  PROVE  /\ Holds(AuraScript(st), AuraCalls(st))
         /\ AuraScript(st)[1] = ListStation
<1>. DEFINE paths == CoveragePaths(st)
            s1 == <<ListStation>>
            s2 == [i \in DOMAIN st |-> DisplayStation(st[i].ext)]
            s3 == [i \in DOMAIN paths |-> DisplayCoverage(paths[i])]
            s4 == <<ListHuntGroup>>
            s5 == <<SmgrUsers>>
            T2 == {DisplayStation(st[i].ext) : i \in DOMAIN st}
            T3 == {DisplayCoverage(paths[i]) : i \in DOMAIN paths}
<1>1. Holds(s1, {ListStation}) /\ Holds(s4, {ListHuntGroup}) /\ Holds(s5, {SmgrUsers})
  BY HoldsEach
<1>2. IsRows(paths)
  BY PathsRows DEF Holds
<1>3. AuraScript(st) = (((s1 \o s2) \o s3) \o s4) \o s5
  BY DEF AuraScript
<1>4. AuraCalls(st) = ((({ListStation} \cup T2) \cup T3) \cup {ListHuntGroup}) \cup {SmgrUsers}
  BY DEF AuraCalls
<1>5. s1[1] = ListStation /\ DOMAIN s1 = {1}
  BY SingleRow
<1>. HIDE DEF paths, s1, s4, s5
<1>6. Holds(s2, T2)
  <2>1. s2 = [i \in DOMAIN st |-> s2[i]] /\ T2 = {s2[i] : i \in DOMAIN st}
    OBVIOUS
  <2>. HIDE DEF s2, T2
  <2>. QED  BY <2>1, HoldsMapped
<1>7. Holds(s3, T3)
  <2>1. s3 = [i \in DOMAIN paths |-> s3[i]] /\ T3 = {s3[i] : i \in DOMAIN paths}
    OBVIOUS
  <2>. HIDE DEF s3, T3
  <2>. QED  BY <1>2, <2>1, HoldsMapped
<1>. HIDE DEF s2, T2, s3, T3
<1>8. Holds((((s1 \o s2) \o s3) \o s4) \o s5,
            ((({ListStation} \cup T2) \cup T3) \cup {ListHuntGroup}) \cup {SmgrUsers})
  BY <1>1, <1>6, <1>7, HoldsFive
<1>9. ((((s1 \o s2) \o s3) \o s4) \o s5)[1] = ListStation
  <2>1. /\ IsRows(s1) /\ IsRows(s2) /\ IsRows(s3) /\ IsRows(s4) /\ IsRows(s5)
    BY <1>1, <1>6, <1>7 DEF Holds
  <2>2. IsRows(s1 \o s2) /\ 1 \in DOMAIN (s1 \o s2) /\ (s1 \o s2)[1] = ListStation
    BY <1>5, <2>1, ConcatRows
  <2>3. /\ IsRows((s1 \o s2) \o s3) /\ 1 \in DOMAIN ((s1 \o s2) \o s3)
        /\ ((s1 \o s2) \o s3)[1] = ListStation
    BY <2>1, <2>2, ConcatRows
  <2>4. /\ IsRows(((s1 \o s2) \o s3) \o s4) /\ 1 \in DOMAIN (((s1 \o s2) \o s3) \o s4)
        /\ (((s1 \o s2) \o s3) \o s4)[1] = ListStation
    BY <2>1, <2>3, ConcatRows
  <2>. QED  BY <2>1, <2>4, ConcatRows
<1>. QED  BY <1>3, <1>4, <1>8, <1>9

----------------------------------------------------------------------------
\* A crawl of Aura lists the stations first, and all it asks for follows from them.
LEMMA AuraLog ==
  ASSUME NEW v \in Version, NEW log, QuietLog("avaya-aura", v, log)
  PROVE  \E st : /\ IsRows(st)
                 /\ st = Estate("avaya-aura", v, ListStation) /\ st # Refused
                 /\ \A call \in AuraCalls(st) : \E i \in DOMAIN log : log[i].call = call
<1>. DEFINE c == "avaya-aura"
            st == Estate(c, v, ListStation)
            S == AuraScript(st)
<1>1. /\ IsRows(log) /\ Len(log) \in Nat /\ DOMAIN log = 1..Len(log)
      /\ \A i \in DOMAIN log :
           /\ i - 1 < Len(AvayaScript(AvayaKinds, Prefix(log, i - 1)))
           /\ log[i].call = AvayaScript(AvayaKinds, Prefix(log, i - 1))[i]
           /\ AnsweredIn(c, v, log[i])
      /\ ~(Len(log) < Len(AvayaScript(AvayaKinds, log)))
  BY RowsFacts DEF QuietLog, AllOf, CrawlExtractable, CrawlScript
<1>2. /\ AvayaScript(AvayaKinds, <<>>) = <<ListStation>>
      /\ Len(<<ListStation>>) = 1 /\ <<ListStation>>[1] = ListStation
  BY SingleRow DEF AvayaScript
<1>3. Prefix(log, 0) = <<>>
  BY DEF Prefix
<1>4. 1 \in DOMAIN log /\ log[1].call = ListStation
  <2>1. Len(log) # 0
    <3>1. SUFFICES ASSUME Len(log) = 0 PROVE FALSE
      OBVIOUS
    <3>2. log = <<>>
      BY <1>1, <3>1
    <3>. QED  BY <1>1, <1>2, <3>1, <3>2
  <2>2. 1 \in DOMAIN log
    BY <1>1, <2>1
  <2>. QED  BY <1>1, <1>2, <1>3, <2>2
<1>5. ListStation # SmgrUsers /\ Permitted(c, ListStation)
  BY DEF ListStation, SmgrUsers, Permitted, SatReads
<1>6. ASSUME NEW m \in 1..Len(log)
      PROVE  Served(c, v, Prefix(log, m), ListStation) /\ Prefix(log, m) # <<>>
  <2>. DEFINE p == Prefix(log, m)
  <2>1. DOMAIN p = 1..m /\ 1 \in DOMAIN p /\ \A i \in DOMAIN p : i \in DOMAIN log /\ p[i] = log[i]
    BY <1>1 DEF Prefix
  <2>. HIDE DEF p
  <2>2. \A i \in DOMAIN p : AnsweredIn(c, v, p[i])
    BY <1>1, <2>1
  <2>3. \E i \in DOMAIN p : p[i].call = ListStation
    BY <1>4, <2>1
  <2>4. Served(c, v, p, ListStation)
    BY <1>5, <2>2, <2>3, FoundServed
  <2>5. p # <<>>
    BY <2>1
  <2>. QED  BY <2>4, <2>5 DEF p
<1>7. Prefix(log, Len(log)) = log /\ Len(log) \in 1..Len(log)
  BY <1>1, <1>4, PrefixWhole
<1>8. st # Refused
  BY <1>6, <1>7 DEF Served
<1>9. IsRows(st)
  <2>1. AvayaAnswers(v)
    BY EstateAssumption
  <2>. QED  BY <1>8, <2>1 DEF AvayaAnswers
<1>10. ASSUME NEW m \in 1..Len(log) PROVE AvayaScript(AvayaKinds, Prefix(log, m)) = S
  <2>. DEFINE p == Prefix(log, m)
  <2>1. p # <<>> /\ Rows(p, ListStation) = st
    BY <1>6 DEF Served
  <2>2. "ForwardingRule" \in AvayaKinds /\ "HuntGroup" \in AvayaKinds /\ "User" \in AvayaKinds
    BY DEF AvayaKinds
  <2>. HIDE DEF p, st
  <2>3. AvayaScript(AvayaKinds, p) = AuraScript(st)
    BY <2>1, <2>2 DEF AvayaScript, AuraScript, When
  <2>. QED  BY <2>3 DEF p
<1>. HIDE DEF st, S
<1>11. Holds(S, AuraCalls(st)) /\ S[1] = ListStation
  BY <1>9, AuraScriptHolds DEF S
<1>12. Len(S) \in Nat /\ DOMAIN S = 1..Len(S) /\ ToSet(S) = AuraCalls(st)
  BY <1>11, RowsFacts DEF Holds
<1>13. \A i \in DOMAIN log : log[i].call = S[i]
  <2>1. SUFFICES ASSUME NEW i \in DOMAIN log PROVE log[i].call = S[i]
    OBVIOUS
  <2>2. CASE i = 1
    BY <1>4, <1>11, <2>2
  <2>3. CASE i # 1
    <3>1. i - 1 \in 1..Len(log)
      BY <1>1, <2>3
    <3>2. AvayaScript(AvayaKinds, Prefix(log, i - 1)) = S
      BY <1>10, <3>1
    <3>. QED  BY <1>1, <3>2
  <2>. QED  BY <2>2, <2>3
<1>14. DOMAIN S \subseteq DOMAIN log
  <2>1. ~(Len(log) < Len(S))
    BY <1>1, <1>7, <1>10
  <2>2. \A m, n \in Nat : ~(m < n) => 1..n \subseteq 1..m
    OBVIOUS
  <2>. QED  BY <1>1, <1>12, <2>1, <2>2
<1>15. \A call \in AuraCalls(st) : \E i \in DOMAIN log : log[i].call = call
  BY <1>12, <1>13, <1>14 DEF ToSet
<1>. QED  BY <1>8, <1>9, <1>15 DEF st

----------------------------------------------------------------------------
(* Extensions that collapse, and the entities of a station. *)

\* An extension that two entities of a list share is a number two of its lines share.
TwoLines(s, number) ==
  \E m, n \in DOMAIN s :
    /\ m # n
    /\ s[m].kind = "Line" /\ s[n].kind = "Line"
    /\ s[m].key[1] = number /\ s[n].key[1] = number

\* The extensions that collapse in a list are all shared by two of its lines.
CollapsesReported(s) ==
  \A i, j \in DOMAIN s :
    /\ i # j
    /\ s[i].kind = "Extension" /\ s[j].kind = "Extension"
    /\ s[i].key = s[j].key
    => TwoLines(s, s[i].key[1])

\* Without extensions, none collapse.
LEMMA NoneCollapse ==
  ASSUME NEW s, NoExtension(ToSet(s))
  PROVE  CollapsesReported(s)
<1>1. \A i \in DOMAIN s : s[i] \in ToSet(s)
  BY DEF ToSet
<1>. QED  BY <1>1 DEF NoExtension, CollapsesReported

\* Entities before that are no extensions change nothing.
LEMMA CollapseLeft ==
  ASSUME NEW s, NEW t, IsRows(s), IsRows(t), NoExtension(ToSet(s)), CollapsesReported(t)
  PROVE  CollapsesReported(s \o t)
<1>. DEFINE c == s \o t
<1>1. Joined(c, s, t)
  BY ConcatJoined
<1>2. \A i \in DOMAIN s : s[i].kind # "Extension"
  BY DEF NoExtension, ToSet
<1>3. Len(s) \in Nat /\ DOMAIN t \subseteq Nat
  BY RowsFacts
<1>. HIDE DEF c
<1>4. ASSUME NEW i \in DOMAIN c, NEW j \in DOMAIN c, i # j,
             c[i].kind = "Extension", c[j].kind = "Extension", c[i].key = c[j].key
      PROVE  TwoLines(c, c[i].key[1])
  <2>1. PICK k \in DOMAIN t, l \in DOMAIN t : i = Len(s) + k /\ j = Len(s) + l
    BY <1>1, <1>2, <1>4 DEF Joined
  <2>2. k # l /\ c[i] = t[k] /\ c[j] = t[l]
    BY <1>1, <1>4, <2>1 DEF Joined
  <2>3. TwoLines(t, t[k].key[1])
    BY <1>4, <2>2 DEF CollapsesReported
  <2>4. PICK m \in DOMAIN t, n \in DOMAIN t :
          /\ m # n
          /\ t[m].kind = "Line" /\ t[n].kind = "Line"
          /\ t[m].key[1] = t[k].key[1] /\ t[n].key[1] = t[k].key[1]
    BY <2>3 DEF TwoLines
  <2>5. Len(s) + m # Len(s) + n
    BY <1>3, <2>4
  <2>6. /\ Len(s) + m \in DOMAIN c /\ c[Len(s) + m] = t[m]
        /\ Len(s) + n \in DOMAIN c /\ c[Len(s) + n] = t[n]
    BY <1>1 DEF Joined
  <2>. QED  BY <2>2, <2>4, <2>5, <2>6 DEF TwoLines
<1>5. CollapsesReported(c)
  BY <1>4 DEF CollapsesReported
<1>. QED  BY <1>5 DEF c

\* Nor do such entities after.
LEMMA CollapseRight ==
  ASSUME NEW s, NEW t, IsRows(s), IsRows(t), CollapsesReported(s), NoExtension(ToSet(t))
  PROVE  CollapsesReported(s \o t)
<1>. DEFINE c == s \o t
<1>1. Joined(c, s, t)
  BY ConcatJoined
<1>2. \A i \in DOMAIN t : t[i].kind # "Extension"
  BY DEF NoExtension, ToSet
<1>. HIDE DEF c
<1>4. ASSUME NEW i \in DOMAIN c, NEW j \in DOMAIN c, i # j,
             c[i].kind = "Extension", c[j].kind = "Extension", c[i].key = c[j].key
      PROVE  TwoLines(c, c[i].key[1])
  <2>1. i \in DOMAIN s /\ j \in DOMAIN s
    BY <1>1, <1>2, <1>4 DEF Joined
  <2>2. c[i] = s[i] /\ c[j] = s[j]
    BY <1>1, <2>1 DEF Joined
  <2>3. TwoLines(s, s[i].key[1])
    BY <1>4, <2>1, <2>2 DEF CollapsesReported
  <2>4. PICK m \in DOMAIN s, n \in DOMAIN s :
          /\ m # n
          /\ s[m].kind = "Line" /\ s[n].kind = "Line"
          /\ s[m].key[1] = s[i].key[1] /\ s[n].key[1] = s[i].key[1]
    BY <2>3 DEF TwoLines
  <2>5. m \in DOMAIN c /\ c[m] = s[m] /\ n \in DOMAIN c /\ c[n] = s[n]
    BY <1>1 DEF Joined
  <2>. QED  BY <2>2, <2>4, <2>5 DEF TwoLines
<1>5. CollapsesReported(c)
  BY <1>4 DEF CollapsesReported
<1>. QED  BY <1>5 DEF c

----------------------------------------------------------------------------
\* The device of a station.
AuraDevice(ext, form) ==
  Entity("Device", <<ext>>, {Id("Line", <<ext, None>>)},
         Assess(form, form.type \in {"analogue", "legacy"}))

\* The device of a station whose form names a type.
DevicesOf(ext, form) == IF form.type = None THEN {} ELSE {AuraDevice(ext, form)}

\* The entities of one station.
StationOf(ext, form) ==
  ({AvayaExtension(ext)} \cup {AvayaLine(ext, form)}) \cup DevicesOf(ext, form)

\* What the entities of a station are, and what they refer to.
LEMMA StationKinds ==
  ASSUME NEW ext, NEW form
  PROVE  /\ AvayaExtension(ext).kind = "Extension" /\ AvayaExtension(ext).key = <<ext>>
         /\ ReferencesOf(AvayaExtension(ext)) = {}
         /\ AvayaLine(ext, form).kind = "Line" /\ AvayaLine(ext, form).key = <<ext, None>>
         /\ ReferencesOf(AvayaLine(ext, form))
              = Ref("Extension", ext)
                  \cup (IF form.cor = None THEN {} ELSE Ref("CallingPermission", CorName(form.cor)))
         /\ AuraDevice(ext, form).kind = "Device"
         /\ ReferencesOf(AuraDevice(ext, form)) = {Id("Line", <<ext, None>>)}
<1>1. /\ AvayaExtension(ext).kind = "Extension" /\ AvayaExtension(ext).key = <<ext>>
      /\ ReferencesOf(AvayaExtension(ext)) = {}
  BY DEF AvayaExtension, Entity, ReferencesOf
<1>2. /\ AvayaLine(ext, form).kind = "Line" /\ AvayaLine(ext, form).key = <<ext, None>>
      /\ ReferencesOf(AvayaLine(ext, form))
              = Ref("Extension", ext)
                  \cup (IF form.cor = None THEN {} ELSE Ref("CallingPermission", CorName(form.cor)))
  BY DEF AvayaLine, Entity, ReferencesOf
<1>3. /\ AuraDevice(ext, form).kind = "Device"
      /\ ReferencesOf(AuraDevice(ext, form)) = {Id("Line", <<ext, None>>)}
  BY DEF AuraDevice, Entity, ReferencesOf
<1>. QED  BY <1>1, <1>2, <1>3

\* A station yields its extension, its line and perhaps its device, in this order.
StationRows(s, ext, form) ==
  /\ Holds(s, StationOf(ext, form))
  /\ 1 \in DOMAIN s /\ s[1] = AvayaExtension(ext)
  /\ 2 \in DOMAIN s /\ s[2] = AvayaLine(ext, form)
  /\ \A l \in DOMAIN s : s[l].kind = "Extension" => l = 1

\* _map_station yields these, in this order.
LEMMA StationIsRows ==
  ASSUME NEW ext, NEW form
  PROVE  StationRows(AvayaStation(AvayaKinds, ext, form), ext, form)
<1>. DEFINE x == AvayaExtension(ext)
            y == AvayaLine(ext, form)
            a == <<x>>
            b == <<y>>
            d == AvayaDevice(ext, form)
            D == DevicesOf(ext, form)
<1>1. AvayaStation(AvayaKinds, ext, form) = (a \o b) \o d
  BY DEF AvayaStation, AvayaKinds, When
<1>2. Holds(d, D)
  <2>1. CASE form.type = None
    <3>1. d = <<>> /\ D = {}
      BY <2>1 DEF AvayaDevice, DevicesOf
    <3>. QED  BY <3>1, EmptyRows DEF Holds
  <2>2. CASE form.type # None
    <3>1. d = <<AuraDevice(ext, form)>> /\ D = {AuraDevice(ext, form)}
      BY <2>2 DEF AvayaDevice, DevicesOf, AuraDevice
    <3>. QED  BY <3>1, HoldsEach
  <2>. QED  BY <2>1, <2>2
<1>3. \A e \in D : e.kind = "Device"
  BY StationKinds DEF DevicesOf
<1>4. x.kind = "Extension" /\ y.kind = "Line"
  BY StationKinds
<1>5. StationOf(ext, form) = ({x} \cup {y}) \cup D
  BY DEF StationOf
<1>. HIDE DEF x, y, d, D
<1>6. /\ Holds(a, {x}) /\ Holds(b, {y})
      /\ DOMAIN a = {1} /\ a[1] = x /\ Len(a) = 1 /\ DOMAIN b = {1} /\ b[1] = y
  BY SingleRow, HoldsEach
<1>. HIDE DEF a, b
<1>. DEFINE ab == a \o b
<1>7. /\ Holds(ab, {x} \cup {y})
      /\ Len(ab) = 2 /\ DOMAIN ab = {1, 2} /\ ab[1] = x /\ ab[2] = y
  <2>1. Holds(ab, {x} \cup {y})
    BY <1>6, HoldsConcat
  <2>2. IsRows(a) /\ IsRows(b) /\ Len(b) = 1
    BY <1>6, RowsFacts DEF Holds
  <2>3. Joined(ab, a, b)
    BY <2>2, ConcatJoined
  <2>. HIDE DEF ab
  <2>4. Len(ab) = 2 /\ DOMAIN ab = 1..2
    BY <1>6, <2>1, <2>2, <2>3, RowsFacts DEF Holds, Joined
  <2>5. ab[1] = x /\ ab[1 + 1] = y
    BY <1>6, <2>3 DEF Joined
  <2>6. 1..2 = {1, 2} /\ 1 + 1 = 2
    OBVIOUS
  <2>. QED  BY <2>1, <2>4, <2>5, <2>6
<1>. HIDE DEF ab
<1>. DEFINE s == ab \o d
<1>8. Holds(s, ({x} \cup {y}) \cup D)
  BY <1>2, <1>7, HoldsConcat
<1>9. Joined(s, ab, d)
  BY <1>2, <1>7, ConcatJoined DEF Holds
<1>. HIDE DEF s
<1>10. \A k \in DOMAIN d : d[k].kind = "Device"
  BY <1>2, <1>3 DEF Holds, ToSet
<1>11. ASSUME NEW l \in DOMAIN s, s[l].kind = "Extension" PROVE l = 1
  <2>1. l \in DOMAIN ab
    BY <1>9, <1>10, <1>11 DEF Joined
  <2>2. s[l] = ab[l]
    BY <1>9, <2>1 DEF Joined
  <2>3. l # 2
    BY <1>4, <1>7, <1>11, <2>2
  <2>. QED  BY <1>7, <2>1, <2>3
<1>12. 1 \in DOMAIN s /\ s[1] = x /\ 2 \in DOMAIN s /\ s[2] = y
  BY <1>7, <1>9 DEF Joined
<1>13. AvayaStation(AvayaKinds, ext, form) = s
  BY <1>1 DEF s, ab
<1>14. StationRows(s, ext, form)
  BY <1>5, <1>8, <1>11, <1>12 DEF StationRows, x, y
<1>. QED  BY <1>13, <1>14

----------------------------------------------------------------------------

\* The entities of the stations: what is said of each holds of all of them.
StationsAt(st, ext, form) == UNION {StationOf(ext[i], form[i]) : i \in DOMAIN st}

\* The stations one after the other: an extension of two stations has two lines.
LEMMA StationsRows ==
  ASSUME NEW st, IsRows(st), NEW ext, NEW form, NEW seqs, seqs = [i \in DOMAIN st |-> seqs[i]],
         \A i \in DOMAIN st : StationRows(seqs[i], ext[i], form[i]),
         NEW T, T = StationsAt(st, ext, form)
  PROVE  Holds(FlattenSeq(seqs), T) /\ CollapsesReported(FlattenSeq(seqs))
<1>. DEFINE N == Len(st)
            s == FlattenSeq(seqs)
            sets == [i \in DOMAIN st |-> StationOf(ext[i], form[i])]
<1>1. N \in Nat /\ DOMAIN st = 1..N
  BY RowsFacts
<1>2. Holds(s, T)
  <2>1. \A i \in DOMAIN st : Holds(seqs[i], sets[i])
    BY DEF StationRows
  <2>2. T = UNION {sets[i] : i \in DOMAIN st}
    BY DEF StationsAt
  <2>3. IsRows(st) /\ seqs = [i \in DOMAIN st |-> seqs[i]]
    OBVIOUS
  <2>. HIDE DEF sets
  <2>. QED  BY ONLY <2>1, <2>2, <2>3, HoldsFlat
<1>3. Unfolds(s, seqs, N)
  <2>1. \A i \in 1..N : IsRows(seqs[i])
    BY <1>1 DEF StationRows, Holds
  <2>2. seqs = [i \in 1..N |-> seqs[i]]
    BY <1>1
  <2>. HIDE DEF N
  <2>. QED  BY <1>1, <2>1, <2>2, FlattenUnfolds
<1>. HIDE DEF s
<1>4. PICK at \in [DOMAIN s -> Nat \X Nat] :
        /\ \A i \in DOMAIN s : /\ at[i][1] \in 1..N
                               /\ at[i][2] \in DOMAIN seqs[at[i][1]]
                               /\ s[i] = seqs[at[i][1]][at[i][2]]
        /\ \A i, j \in DOMAIN s : at[i] = at[j] => i = j
        /\ \A k \in 1..N : \A l \in DOMAIN seqs[k] : \E i \in DOMAIN s : at[i] = <<k, l>>
  BY <1>3 DEF Unfolds
<1>5. \A k \in 1..N : /\ 1 \in DOMAIN seqs[k] /\ seqs[k][1] = AvayaExtension(ext[k])
                      /\ 2 \in DOMAIN seqs[k] /\ seqs[k][2] = AvayaLine(ext[k], form[k])
                      /\ \A l \in DOMAIN seqs[k] : seqs[k][l].kind = "Extension" => l = 1
  BY <1>1 DEF StationRows
<1>6. ASSUME NEW i \in DOMAIN s, s[i].kind = "Extension"
      PROVE  \E k \in 1..N : at[i] = <<k, 1>> /\ s[i] = AvayaExtension(ext[k])
  <2>1. PICK k \in 1..N : k = at[i][1]
    BY <1>4
  <2>2. PICK l \in DOMAIN seqs[k] : l = at[i][2]
    BY <1>4, <2>1
  <2>3. s[i] = seqs[k][l]
    BY <1>4, <2>1, <2>2
  <2>4. l = 1
    <3>1. \A x \in DOMAIN seqs[k] : seqs[k][x].kind = "Extension" => x = 1
      BY <1>5
    <3>2. seqs[k][l].kind = "Extension"
      BY <1>6, <2>3
    <3>. HIDE DEF N
    <3>. QED  BY ONLY <3>1, <3>2, l \in DOMAIN seqs[k]
  <2>5. at[i] = <<k, 1>>
    <3>1. at[i] \in Nat \X Nat
      OBVIOUS
    <3>2. \A x \in Nat \X Nat : x = <<x[1], x[2]>>
      OBVIOUS
    <3>. QED  BY ONLY <2>1, <2>2, <2>4, <3>1, <3>2
  <2>6. s[i] = AvayaExtension(ext[k])
    BY <1>5, <2>3, <2>4
  <2>. QED  BY <2>5, <2>6
<1>7. ASSUME NEW k \in 1..N
      PROVE  \E m \in DOMAIN s : at[m] = <<k, 2>> /\ s[m] = AvayaLine(ext[k], form[k])
  <2>1. PICK m \in DOMAIN s : at[m] = <<k, 2>>
    BY <1>4, <1>5
  <2>2. at[m][1] = k /\ at[m][2] = 2
    BY <2>1
  <2>3. s[m] = seqs[k][2]
    BY <1>4, <2>2
  <2>. QED  BY <1>5, <2>1, <2>3
<1>8. ASSUME NEW i \in DOMAIN s, NEW j \in DOMAIN s, i # j,
             s[i].kind = "Extension", s[j].kind = "Extension", s[i].key = s[j].key
      PROVE  TwoLines(s, s[i].key[1])
  <2>1. PICK k \in 1..N : at[i] = <<k, 1>> /\ s[i] = AvayaExtension(ext[k])
    BY <1>6, <1>8
  <2>2. PICK h \in 1..N : at[j] = <<h, 1>> /\ s[j] = AvayaExtension(ext[h])
    BY <1>6, <1>8
  <2>3. k # h
    BY <1>4, <1>8, <2>1, <2>2
  <2>4. PICK m \in DOMAIN s : at[m] = <<k, 2>> /\ s[m] = AvayaLine(ext[k], form[k])
    BY <1>7
  <2>5. PICK n \in DOMAIN s : at[n] = <<h, 2>> /\ s[n] = AvayaLine(ext[h], form[h])
    BY <1>7
  <2>6. m # n
    <3>1. at[m][1] = k /\ at[n][1] = h
      BY <2>4, <2>5
    <3>. QED  BY <2>3, <3>1
  <2>7. s[i].key = <<ext[k]>> /\ s[j].key = <<ext[h]>>
    <3>1. \A x : AvayaExtension(x).key = <<x>>
      BY StationKinds
    <3>. QED  BY ONLY <2>1, <2>2, <3>1
  <2>8. /\ s[m].kind = "Line" /\ s[m].key = <<ext[k], None>>
        /\ s[n].kind = "Line" /\ s[n].key = <<ext[h], None>>
    <3>1. \A x, y : AvayaLine(x, y).kind = "Line" /\ AvayaLine(x, y).key = <<x, None>>
      BY StationKinds
    <3>. QED  BY ONLY <2>4, <2>5, <3>1
  <2>9. s[i].key[1] = ext[k] /\ s[j].key[1] = ext[h] /\ s[m].key[1] = ext[k] /\ s[n].key[1] = ext[h]
    <3>1. \A x, y : <<x>>[1] = x /\ <<x, y>>[1] = x
      OBVIOUS
    <3>. QED  BY ONLY <2>7, <2>8, <3>1
  <2>10. ext[k] = ext[h]
    BY <1>8, <2>9
  <2>. QED  BY <2>6, <2>8, <2>9, <2>10 DEF TwoLines
<1>9. CollapsesReported(s)
  BY <1>8 DEF CollapsesReported
<1>. QED  BY <1>2, <1>9 DEF s

----------------------------------------------------------------------------
\* The rules of coverage refer to nothing.
AreRules(F) == \A e \in F : e.kind = "ForwardingRule" /\ ReferencesOf(e) = {}

\* The entities of a crawl of Aura, from its stations with their forms, and the rest.
CorsOf(st) == {AvayaCor(c) : c \in {r.cor : r \in ToSet(st)} \ {None}}

\* The entities of all the stations.
StationsOf(st, form) == UNION {StationOf(st[i].ext, form[i]) : i \in DOMAIN st}

\* The entities of a crawl of Aura.
AvayaSet(st, form, F, h, u) ==
  (((CorsOf(st) \cup StationsOf(st, form)) \cup F) \cup {AvayaHuntGroup(r) : r \in h})
    \cup {AvayaUser(r) : r \in u}

\* The names of the forms and of the users are those of the stations.
AvayaOf(st, form, u) ==
  /\ \A i \in DOMAIN st : form[i].cor \in {r.cor : r \in ToSet(st)} \cup {None}
  /\ \A r \in u : r.ext \in {s.ext : s \in ToSet(st)} \cup {None}

\* Of Aura: in a whole estate, devices, lines and users refer to stations
\* and restrictions that are there, and nothing else refers to anything.
LEMMA AvayaExplained ==
  ASSUME NEW st, NEW form, NEW F, AreRules(F), NEW h, NEW u, AvayaOf(st, form, u)
  PROVE  Explained("avaya-aura", AvayaSet(st, form, F, h, u))
<1>. DEFINE S == AvayaSet(st, form, F, h, u)
            There(refs) == \A x \in refs : \E y \in S : x = IdOf(y)
            Fine(e) == There(ReferencesOf(e))
<1>1. /\ \A i \in DOMAIN st : /\ AvayaExtension(st[i].ext) \in S
                              /\ AvayaLine(st[i].ext, form[i]) \in S
      /\ \A c \in {r.cor : r \in ToSet(st)} \ {None} : AvayaCor(c) \in S
  BY DEF AvayaSet, StationsOf, StationOf, CorsOf
<1>. HIDE DEF S
<1>2. ASSUME NEW i \in DOMAIN st PROVE There(Ref("Extension", st[i].ext))
  <2>1. IdOf(AvayaExtension(st[i].ext)) = Id("Extension", <<st[i].ext>>)
    BY DEF AvayaExtension, Entity, IdOf
  <2>. QED  BY <1>1, <2>1 DEF Ref
<1>3. ASSUME NEW name \in {s.ext : s \in ToSet(st)} \cup {None}
      PROVE  There(Ref("Extension", name))
  <2>1. CASE name = None
    BY <2>1 DEF Ref
  <2>2. CASE name # None
    <3>1. PICK i \in DOMAIN st : name = st[i].ext
      BY <2>2 DEF ToSet
    <3>. QED  BY <1>2, <3>1
  <2>. QED  BY <2>1, <2>2
<1>4. ASSUME NEW c \in {r.cor : r \in ToSet(st)} \ {None}
      PROVE  There(Ref("CallingPermission", CorName(c)))
  <2>1. IdOf(AvayaCor(c)) = Id("CallingPermission", <<CorName(c)>>)
    BY DEF AvayaCor, Entity, IdOf
  <2>. QED  BY <1>1, <2>1 DEF Ref
<1>5. ASSUME NEW i \in DOMAIN st PROVE There({Id("Line", <<st[i].ext, None>>)})
  <2>1. IdOf(AvayaLine(st[i].ext, form[i])) = Id("Line", <<st[i].ext, None>>)
    BY DEF AvayaLine, Entity, IdOf
  <2>. QED  BY <1>1, <2>1
<1>6. There({}) /\ \A a, b : There(a) /\ There(b) => There(a \cup b)
  OBVIOUS
<1>. HIDE DEF There
<1>7. ASSUME NEW i \in DOMAIN st, NEW e \in StationOf(st[i].ext, form[i]) PROVE Fine(e)
  <2>1. Fine(AvayaExtension(st[i].ext))
    <3>1. ReferencesOf(AvayaExtension(st[i].ext)) = {}
      BY StationKinds
    <3>. QED  BY <1>6, <3>1
  <2>2. Fine(AvayaLine(st[i].ext, form[i]))
    <3>1. ReferencesOf(AvayaLine(st[i].ext, form[i]))
            = Ref("Extension", st[i].ext)
                \cup (IF form[i].cor = None THEN {}
                      ELSE Ref("CallingPermission", CorName(form[i].cor)))
      BY StationKinds
    <3>2. form[i].cor # None => form[i].cor \in {r.cor : r \in ToSet(st)} \ {None}
      BY DEF AvayaOf
    <3>3. There(IF form[i].cor = None THEN {} ELSE Ref("CallingPermission", CorName(form[i].cor)))
      BY <1>4, <1>6, <3>2
    <3>. QED  BY <1>2, <1>6, <3>1, <3>3
  <2>3. Fine(AuraDevice(st[i].ext, form[i]))
    <3>1. ReferencesOf(AuraDevice(st[i].ext, form[i])) = {Id("Line", <<st[i].ext, None>>)}
      BY StationKinds
    <3>. QED  BY <1>5, <3>1
  <2>. HIDE DEF Fine
  <2>. QED  BY <2>1, <2>2, <2>3 DEF StationOf, DevicesOf
<1>8. ASSUME NEW c PROVE Fine(AvayaCor(c))
  <2>1. ReferencesOf(AvayaCor(c)) = {}
    BY DEF AvayaCor, Entity, ReferencesOf
  <2>. QED  BY <1>6, <2>1
<1>9. ASSUME NEW r PROVE Fine(AvayaHuntGroup(r))
  <2>1. ReferencesOf(AvayaHuntGroup(r)) = {}
    BY DEF AvayaHuntGroup, Entity, ReferencesOf
  <2>. QED  BY <1>6, <2>1
<1>10. ASSUME NEW r \in u PROVE Fine(AvayaUser(r))
  <2>1. ReferencesOf(AvayaUser(r)) = Ref("Extension", r.ext)
    BY DEF AvayaUser, Entity, ReferencesOf
  <2>2. r.ext \in {s.ext : s \in ToSet(st)} \cup {None}
    BY DEF AvayaOf
  <2>. QED  BY <1>3, <2>1, <2>2
<1>11. ASSUME NEW e \in F PROVE Fine(e)
  BY <1>6, <1>11 DEF AreRules
<1>12. \A e \in S : Fine(e)
  <2>. HIDE DEF Fine
  <2>. QED  BY <1>7, <1>8, <1>9, <1>10, <1>11 DEF AvayaSet, CorsOf, StationsOf, S
<1>. QED  BY <1>12 DEF Explained, There, S

----------------------------------------------------------------------------

\* What a crawl of Aura asked for, its rows are the estate's.
LEMMA AuraServed ==
  ASSUME NEW v \in Version, NEW log, QuietLog("avaya-aura", v, log), NEW call,
         call # SmgrUsers, Permitted("avaya-aura", call), \E i \in DOMAIN log : log[i].call = call
  PROVE  Served("avaya-aura", v, log, call)
<1>1. \A i \in DOMAIN log : AnsweredIn("avaya-aura", v, log[i])
  BY DEF QuietLog
<1>. QED  BY <1>1, FoundServed

\* The users are read from the System Manager, or not at all.
LEMMA AuraUsers ==
  ASSUME NEW v \in Version, NEW log, QuietLog("avaya-aura", v, log),
         \E i \in DOMAIN log : log[i].call = SmgrUsers
  PROVE  /\ IsRows(Rows(log, SmgrUsers))
         /\ ToSet(Rows(log, SmgrUsers)) \subseteq Objects("avaya-aura", v, SmgrUsers)
<1>. DEFINE i == CHOOSE j \in DOMAIN log : log[j].call = SmgrUsers
            rows == Estate("avaya-aura", v, SmgrUsers)
<1>1. i \in DOMAIN log /\ log[i].call = SmgrUsers
  OBVIOUS
<1>2. Rows(log, SmgrUsers) = log[i].rows
  BY DEF Rows
<1>. HIDE DEF i
<1>3. CrawlAnswer("avaya-aura", v, SmgrUsers) = rows
  BY DEF CrawlAnswer, Request, Permitted
<1>4. \/ log[i].rows = rows /\ rows # Refused
      \/ log[i].rows = <<>>
  BY <1>1, <1>3 DEF AnsweredIn, QuietLog
<1>5. rows # Refused => IsRows(rows)
  <2>1. AvayaAnswers(v)
    BY EstateAssumption
  <2>. QED  BY <2>1 DEF AvayaAnswers
<1>6. rows # Refused => Objects("avaya-aura", v, SmgrUsers) = ToSet(rows)
  BY DEF Objects
<1>. HIDE DEF rows
<1>. QED  BY <1>2, <1>4, <1>5, <1>6, EmptyRows

\* The terminal's commands are reads, and none is the System Manager's.
LEMMA AuraReads ==
  /\ \A x : /\ DisplayStation(x) # SmgrUsers /\ Permitted("avaya-aura", DisplayStation(x))
            /\ DisplayCoverage(x) # SmgrUsers /\ Permitted("avaya-aura", DisplayCoverage(x))
  /\ ListHuntGroup # SmgrUsers /\ Permitted("avaya-aura", ListHuntGroup)
  /\ ListStation # SmgrUsers /\ Permitted("avaya-aura", ListStation)
BY DEF DisplayStation, DisplayCoverage, ListHuntGroup, ListStation, SmgrUsers, Permitted, SatReads

----------------------------------------------------------------------------
\* The rules of one coverage path.
RuleSet(path, criteria) == {Entity("ForwardingRule", <<path, c>>, {}, "DEGRADED") : c \in criteria}

\* They are rules, and finitely many.
LEMMA RuleSetFacts ==
  ASSUME NEW path, NEW criteria
  PROVE  /\ AreRules(RuleSet(path, criteria))
         /\ IsFiniteSet(criteria) => IsFiniteSet(RuleSet(path, criteria))
<1>1. AreRules(RuleSet(path, criteria))
  BY DEF RuleSet, AreRules, Entity, ReferencesOf
<1>2. ASSUME IsFiniteSet(criteria) PROVE IsFiniteSet(RuleSet(path, criteria))
  <2>. DEFINE f == [c \in criteria |-> Entity("ForwardingRule", <<path, c>>, {}, "DEGRADED")]
  <2>1. RuleSet(path, criteria) = {f[c] : c \in criteria}
    BY DEF RuleSet
  <2>. HIDE DEF f
  <2>. QED  BY <1>2, <2>1, ImageFinite
<1>. QED  BY <1>1, <1>2

\* The rules of the coverage paths, in whatever order.
LEMMA RulesHold ==
  ASSUME NEW paths, IsRows(paths), NEW form,
         \A i \in DOMAIN paths : IsFiniteSet(form[i].criteria)
  PROVE  \E F : /\ AreRules(F)
                /\ Holds(FlattenSeq([i \in DOMAIN paths |-> AvayaCoverage(paths[i], form[i])]), F)
<1>. DEFINE seqs == [i \in DOMAIN paths |-> AvayaCoverage(paths[i], form[i])]
            sets == [i \in DOMAIN paths |-> RuleSet(paths[i], form[i].criteria)]
            F == UNION {sets[i] : i \in DOMAIN paths}
<1>1. \A i \in DOMAIN paths : sets[i] = RuleSet(paths[i], form[i].criteria)
  OBVIOUS
<1>2. seqs = [i \in DOMAIN paths |-> SetToSeq(sets[i])]
  BY DEF AvayaCoverage, RuleSet
<1>. HIDE DEF sets
<1>3. \A i \in DOMAIN paths : AreRules(sets[i]) /\ IsFiniteSet(sets[i])
  BY <1>1, RuleSetFacts
<1>4. AreRules(F)
  BY <1>3 DEF AreRules
<1>5. IsRows(paths)
  OBVIOUS
<1>6. Holds(FlattenSeq(seqs), F)
  <2>. HIDE DEF seqs
  <2>. QED  BY ONLY <1>2, <1>3, <1>5, HoldsSets
<1>. HIDE DEF F
<1>. QED  BY <1>4, <1>6

----------------------------------------------------------------------------

\* The classes of restriction of a crawl.
LEMMA CorsHold ==
  ASSUME NEW st, IsRows(st)
  PROVE  Holds([i \in DOMAIN Cors(st) |-> AvayaCor(Cors(st)[i])], CorsOf(st))
<1>. DEFINE rows == Cors(st)
            f == [i \in DOMAIN rows |-> AvayaCor(rows[i])]
            T == CorsOf(st)
<1>1. IsRows(rows) /\ ToSet(rows) = {r.cor : r \in ToSet(st)} \ {None}
  BY CorsRows DEF Holds
<1>. HIDE DEF rows
<1>2. f = [i \in DOMAIN rows |-> f[i]]
  OBVIOUS
<1>3. T = {AvayaCor(c) : c \in ToSet(rows)}
  BY <1>1 DEF CorsOf
<1>4. T = {f[i] : i \in DOMAIN rows}
  BY <1>3 DEF ToSet
<1>. HIDE DEF f, T
<1>5. Holds(f, T)
  BY <1>1, <1>2, <1>4, HoldsMapped
<1>. QED  BY <1>5 DEF f, T, rows

\* The hunt groups of a crawl.
LEMMA HuntsHold ==
  ASSUME NEW h, IsRows(h)
  PROVE  Holds([i \in DOMAIN h |-> AvayaHuntGroup(h[i])], {AvayaHuntGroup(r) : r \in ToSet(h)})
<1>. DEFINE f == [i \in DOMAIN h |-> AvayaHuntGroup(h[i])]
            T == {AvayaHuntGroup(r) : r \in ToSet(h)}
<1>1. f = [i \in DOMAIN h |-> f[i]] /\ T = {f[i] : i \in DOMAIN h}
  BY DEF ToSet
<1>. HIDE DEF f, T
<1>2. Holds(f, T)
  BY <1>1, HoldsMapped
<1>. QED  BY <1>2 DEF f, T

\* The users of a crawl.
LEMMA UsersHold ==
  ASSUME NEW u, IsRows(u)
  PROVE  Holds([i \in DOMAIN u |-> AvayaUser(u[i])], {AvayaUser(r) : r \in ToSet(u)})
<1>. DEFINE f == [i \in DOMAIN u |-> AvayaUser(u[i])]
            T == {AvayaUser(r) : r \in ToSet(u)}
<1>1. f = [i \in DOMAIN u |-> f[i]] /\ T = {f[i] : i \in DOMAIN u}
  BY DEF ToSet
<1>. HIDE DEF f, T
<1>2. Holds(f, T)
  BY <1>1, HoldsMapped
<1>. QED  BY <1>2 DEF f, T

\* What is known of the entities of the stations.
StationsRead(B, st, form) == Holds(B, StationsOf(st, form)) /\ CollapsesReported(B)

\* The stations of a crawl.
LEMMA StationsHold ==
  ASSUME NEW st, IsRows(st), NEW form
  PROVE  StationsRead(FlattenSeq([i \in DOMAIN st |-> AvayaStation(AvayaKinds, st[i].ext, form[i])]),
                      st, form)
<1>. DEFINE ext == [i \in DOMAIN st |-> st[i].ext]
            seqs == [i \in DOMAIN st |-> AvayaStation(AvayaKinds, st[i].ext, form[i])]
            T == StationsOf(st, form)
<1>1. \A i \in DOMAIN st : ext[i] = st[i].ext
  OBVIOUS
<1>2. \A i \in DOMAIN st : StationRows(seqs[i], ext[i], form[i])
  <2>1. \A i \in DOMAIN st : seqs[i] = AvayaStation(AvayaKinds, ext[i], form[i])
    OBVIOUS
  <2>. HIDE DEF seqs, ext
  <2>. QED  BY <2>1, StationIsRows
<1>3. T = StationsAt(st, ext, form)
  BY DEF StationsOf, StationsAt
<1>4. seqs = [i \in DOMAIN st |-> seqs[i]]
  OBVIOUS
<1>5. IsRows(st)
  OBVIOUS
<1>6. Holds(FlattenSeq(seqs), T) /\ CollapsesReported(FlattenSeq(seqs))
  <2>. HIDE DEF ext, seqs, T
  <2>. QED  BY ONLY <1>2, <1>3, <1>4, <1>5, StationsRows
<1>7. StationsRead(FlattenSeq(seqs), st, form)
  BY <1>6 DEF StationsRead
<1>. QED  BY <1>7

----------------------------------------------------------------------------
\* The parts of a crawl of Aura, in the order they are read in.
LEMMA AuraParts ==
  ASSUME NEW A, NEW TA, Holds(A, TA), NoExtension(TA),
         NEW B, NEW TB, Holds(B, TB), CollapsesReported(B),
         NEW C, NEW TC, Holds(C, TC), NoExtension(TC),
         NEW D, NEW TD, Holds(D, TD), NoExtension(TD),
         NEW E, NEW TE, Holds(E, TE), NoExtension(TE)
  PROVE  /\ Holds((((A \o B) \o C) \o D) \o E, (((TA \cup TB) \cup TC) \cup TD) \cup TE)
         /\ CollapsesReported((((A \o B) \o C) \o D) \o E)
<1>1. Holds(A \o B, TA \cup TB) /\ CollapsesReported(A \o B)
  BY HoldsConcat, CollapseLeft DEF Holds
<1>. DEFINE ab == A \o B
            Tab == TA \cup TB
<1>. HIDE DEF ab, Tab
<1>2. Holds(ab, Tab) /\ CollapsesReported(ab)
  BY <1>1 DEF ab, Tab
<1>3. Holds(ab \o C, Tab \cup TC) /\ CollapsesReported(ab \o C)
  BY <1>2, HoldsConcat, CollapseRight DEF Holds
<1>. DEFINE abc == ab \o C
            Tabc == Tab \cup TC
<1>. HIDE DEF abc, Tabc
<1>4. Holds(abc, Tabc) /\ CollapsesReported(abc)
  BY <1>3 DEF abc, Tabc
<1>5. Holds(abc \o D, Tabc \cup TD) /\ CollapsesReported(abc \o D)
  BY <1>4, HoldsConcat, CollapseRight DEF Holds
<1>. DEFINE abcd == abc \o D
            Tabcd == Tabc \cup TD
<1>. HIDE DEF abcd, Tabcd
<1>6. Holds(abcd, Tabcd) /\ CollapsesReported(abcd)
  BY <1>5 DEF abcd, Tabcd
<1>7. Holds(abcd \o E, Tabcd \cup TE) /\ CollapsesReported(abcd \o E)
  BY <1>6, HoldsConcat, CollapseRight DEF Holds
<1>. QED  BY <1>7 DEF abcd, Tabcd, abc, Tabc, ab, Tab

\* extract of Aura yields these entities, each number of two stations with two lines.
LEMMA AvayaHolds ==
  ASSUME NEW v \in Version, NEW log, QuietLog("avaya-aura", v, log)
  PROVE  \E st, form, F, h, u :
           /\ Holds(AvayaEntities(AvayaKinds, log), AvayaSet(st, form, F, h, u))
           /\ CollapsesReported(AvayaEntities(AvayaKinds, log))
           /\ AreRules(F)
           /\ AvayaWhole(v) => AvayaOf(st, form, u)
<1>1. PICK st : /\ IsRows(st)
                /\ st = Estate("avaya-aura", v, ListStation) /\ st # Refused
                /\ \A call \in AuraCalls(st) : \E i \in DOMAIN log : log[i].call = call
  BY AuraLog
<1>. DEFINE paths == CoveragePaths(st)
            form == [i \in DOMAIN st |-> Head(Rows(log, DisplayStation(st[i].ext)))]
            pform == [i \in DOMAIN paths |-> Head(Rows(log, DisplayCoverage(paths[i])))]
            h == Rows(log, ListHuntGroup)
            u == Rows(log, SmgrUsers)
            A == [i \in DOMAIN Cors(st) |-> AvayaCor(Cors(st)[i])]
            bs == [i \in DOMAIN st |-> AvayaStation(AvayaKinds, st[i].ext, form[i])]
            cs == [i \in DOMAIN paths |-> AvayaCoverage(paths[i], pform[i])]
            D == [i \in DOMAIN h |-> AvayaHuntGroup(h[i])]
            E == [i \in DOMAIN u |-> AvayaUser(u[i])]
<1>2. Served("avaya-aura", v, log, ListStation)
  <2>1. ListStation \in AuraCalls(st)
    BY DEF AuraCalls
  <2>. QED  BY <1>1, <2>1, AuraReads, AuraServed
<1>3. Rows(log, ListStation) = st
  BY <1>1, <1>2 DEF Served
<1>4. \A i \in DOMAIN st : Served("avaya-aura", v, log, DisplayStation(st[i].ext))
  <2>1. \A i \in DOMAIN st : DisplayStation(st[i].ext) \in AuraCalls(st)
    BY DEF AuraCalls
  <2>. QED  BY <1>1, <2>1, AuraReads, AuraServed
<1>5. \A i \in DOMAIN paths : Served("avaya-aura", v, log, DisplayCoverage(paths[i]))
  <2>1. \A i \in DOMAIN paths : DisplayCoverage(paths[i]) \in AuraCalls(st)
    BY DEF AuraCalls
  <2>. QED  BY <1>1, <2>1, AuraReads, AuraServed
<1>6. IsRows(h)
  <2>1. ListHuntGroup \in AuraCalls(st)
    BY DEF AuraCalls
  <2>2. Served("avaya-aura", v, log, ListHuntGroup)
    BY <1>1, <2>1, AuraReads, AuraServed
  <2>3. AvayaAnswers(v)
    BY EstateAssumption
  <2>. QED  BY <2>2, <2>3 DEF Served, AvayaAnswers
<1>7. IsRows(u) /\ ToSet(u) \subseteq Objects("avaya-aura", v, SmgrUsers)
  <2>1. SmgrUsers \in AuraCalls(st)
    BY DEF AuraCalls
  <2>. QED  BY <1>1, <2>1, AuraUsers
<1>8. IsRows(paths) /\ ToSet(paths) = {r.path : r \in ToSet(st)} \ {None}
  BY <1>1, PathsRows DEF Holds
<1>9. \A i \in DOMAIN paths : IsFiniteSet(pform[i].criteria)
  <2>1. SUFFICES ASSUME NEW i \in DOMAIN paths PROVE IsFiniteSet(pform[i].criteria)
    OBVIOUS
  <2>. DEFINE p == paths[i]
              a == Estate("avaya-aura", v, DisplayCoverage(p))
  <2>2. PICK r \in ToSet(st) : p = r.path /\ p # None
    BY <1>8 DEF ToSet
  <2>3. a = Rows(log, DisplayCoverage(p)) /\ a # Refused
    BY <1>5 DEF Served
  <2>4. AvayaAnswers(v)
    BY EstateAssumption
  <2>5. r.path # None /\ Estate("avaya-aura", v, DisplayCoverage(r.path)) # Refused
          => IsFiniteSet(Head(Estate("avaya-aura", v, DisplayCoverage(r.path))).criteria)
    BY <1>1, <2>2, <2>4 DEF AvayaAnswers
  <2>6. IsFiniteSet(Head(a).criteria)
    BY <2>2, <2>3, <2>5
  <2>7. pform[i] = Head(a)
    BY <2>3
  <2>. QED  BY <2>6, <2>7
<1>10. AvayaEntities(AvayaKinds, log) = (((A \o FlattenSeq(bs)) \o FlattenSeq(cs)) \o D) \o E
  <2>1. /\ "CallingPermission" \in AvayaKinds /\ "ForwardingRule" \in AvayaKinds
        /\ "HuntGroup" \in AvayaKinds /\ "User" \in AvayaKinds
    BY DEF AvayaKinds
  <2>2. bs = [i \in DOMAIN st |-> AvayaStation(AvayaKinds, st[i].ext,
                                      Head(Rows(log, DisplayStation(st[i].ext))))]
    OBVIOUS
  <2>3. cs = [i \in DOMAIN paths |-> AvayaCoverage(paths[i],
                                      Head(Rows(log, DisplayCoverage(paths[i]))))]
    OBVIOUS
  <2>. HIDE DEF bs, cs
  <2>. QED  BY <1>3, <2>1, <2>2, <2>3 DEF AvayaEntities, When, EntitiesWhen, Mapped
<1>11. PICK F : AreRules(F) /\ Holds(FlattenSeq(cs), F)
  <2>. HIDE DEF pform, paths
  <2>. QED  BY <1>8, <1>9, RulesHold
<1>12. AvayaSet(st, form, F, ToSet(h), ToSet(u))
        = (((CorsOf(st) \cup StationsOf(st, form)) \cup F)
             \cup {AvayaHuntGroup(r) : r \in ToSet(h)}) \cup {AvayaUser(r) : r \in ToSet(u)}
  BY DEF AvayaSet
<1>13. AvayaWhole(v) => AvayaOf(st, form, ToSet(u))
  <2>1. SUFFICES ASSUME AvayaWhole(v) PROVE AvayaOf(st, form, ToSet(u))
    OBVIOUS
  <2>2. Objects("avaya-aura", v, ListStation) = ToSet(st)
    BY <1>1 DEF Objects
  <2>3. ASSUME NEW i \in DOMAIN st
        PROVE  form[i].cor \in {r.cor : r \in ToSet(st)} \cup {None}
    <3>. DEFINE a == Estate("avaya-aura", v, DisplayStation(st[i].ext))
    <3>1. a = Rows(log, DisplayStation(st[i].ext)) /\ a # Refused
      BY <1>4 DEF Served
    <3>2. form[i] = Head(a)
      BY <3>1
    <3>3. st[i] \in ToSet(st)
      BY DEF ToSet
    <3>4. a # Refused => Head(a).cor \in {s.cor : s \in ToSet(st)} \cup {None}
      BY <2>1, <2>2, <3>3 DEF AvayaWhole
    <3>. HIDE DEF a, form
    <3>. QED  BY <3>1, <3>2, <3>4
  <2>4. \A r \in ToSet(u) : r.ext \in {s.ext : s \in ToSet(st)} \cup {None}
    BY <1>7, <2>1, <2>2 DEF AvayaWhole
  <2>. HIDE DEF form, u
  <2>. QED  BY <2>3, <2>4 DEF AvayaOf
<1>14. Holds(A, CorsOf(st)) /\ NoExtension(CorsOf(st))
  <2>1. \A c : AvayaCor(c).kind = "CallingPermission"
    BY DEF AvayaCor, Entity
  <2>. HIDE DEF A
  <2>2. NoExtension(CorsOf(st))
    BY <2>1 DEF CorsOf, NoExtension
  <2>. QED  BY <1>1, <2>2, CorsHold DEF A
<1>. HIDE DEF form
<1>15. Holds(FlattenSeq(bs), StationsOf(st, form)) /\ CollapsesReported(FlattenSeq(bs))
  BY <1>1, StationsHold DEF StationsRead
<1>16. NoExtension(F)
  BY <1>11 DEF AreRules, NoExtension
<1>17. /\ Holds(D, {AvayaHuntGroup(r) : r \in ToSet(h)})
       /\ NoExtension({AvayaHuntGroup(r) : r \in ToSet(h)})
  <2>1. \A r : AvayaHuntGroup(r).kind = "HuntGroup"
    BY DEF AvayaHuntGroup, Entity
  <2>. HIDE DEF h
  <2>2. NoExtension({AvayaHuntGroup(r) : r \in ToSet(h)})
    BY <2>1 DEF NoExtension
  <2>. QED  BY <1>6, <2>2, HuntsHold
<1>18. /\ Holds(E, {AvayaUser(r) : r \in ToSet(u)})
       /\ NoExtension({AvayaUser(r) : r \in ToSet(u)})
  <2>1. \A r : AvayaUser(r).kind = "User"
    BY DEF AvayaUser, Entity
  <2>. HIDE DEF u
  <2>2. NoExtension({AvayaUser(r) : r \in ToSet(u)})
    BY <2>1 DEF NoExtension
  <2>. QED  BY <1>7, <2>2, UsersHold
<1>. HIDE DEF A, bs, cs, D, E, h, u
<1>. DEFINE B == FlattenSeq(bs)
            C == FlattenSeq(cs)
            TD == {AvayaHuntGroup(r) : r \in ToSet(h)}
            TE == {AvayaUser(r) : r \in ToSet(u)}
<1>19. /\ Holds((((A \o B) \o C) \o D) \o E,
                (((CorsOf(st) \cup StationsOf(st, form)) \cup F) \cup TD) \cup TE)
       /\ CollapsesReported((((A \o B) \o C) \o D) \o E)
  <2>. HIDE DEF B, C, TD, TE
  <2>. QED  BY <1>11, <1>14, <1>15, <1>16, <1>17, <1>18, AuraParts DEF B, C, TD, TE
<1>. QED  BY <1>10, <1>11, <1>12, <1>13, <1>19

----------------------------------------------------------------------------
(* CUCM: the extensions that collapse, and what refers to nothing. *)

\* The extensions and the lines are read by the same call, and by no other.
LEMMA LineFacts ==
  /\ 4 \in DOMAIN CucmExtractors /\ KindAt(4) = "Extension"
  /\ 5 \in DOMAIN CucmExtractors /\ KindAt(5) = "Line"
  /\ \A v : RowsOf(v, 4) = RowsOf(v, 5)
  /\ \A k \in DOMAIN CucmExtractors : KindAt(k) = "Extension" => k = 4
<1>1. /\ 4 \in DOMAIN CucmExtractors /\ CucmExtractors[4] = <<"Extension", "listLine">>
      /\ 5 \in DOMAIN CucmExtractors /\ CucmExtractors[5] = <<"Line", "listLine">>
  BY DEF CucmExtractors
<1>2. \A k \in DOMAIN CucmExtractors : CucmExtractors[k][1] = "Extension" => k = 4
  BY DEF CucmExtractors
<1>. QED  BY <1>1, <1>2 DEF KindAt, RowsOf

\* Two extensions that collapse come from two lines of one pattern: both lines
\* are collected, and their number is shared.
LEMMA CucmCollapses ==
  ASSUME NEW v \in Version, NEW log, CucmLogOf(v, log)
  PROVE  CollapsesReported(CucmEntities(log))
<1>. DEFINE ents == CucmEntities(log)
<1>1. PICK kk, ll : CucmPlaced(kk, ll, ents, v)
  BY CucmEntitiesPlaced
<1>. HIDE DEF ents
<1>2. ASSUME NEW i \in DOMAIN ents, ents[i].kind = "Extension"
      PROVE  /\ kk[i] = 4 /\ ll[i] \in DOMAIN RowsOf(v, 5)
             /\ ents[i].key = <<RowsOf(v, 5)[ll[i]].pattern>>
  <2>1. kk[i] \in DOMAIN CucmExtractors /\ KindAt(kk[i]) = "Extension" /\ ll[i] \in KeptAt(v, kk[i])
    BY <1>1, <1>2 DEF CucmPlaced
  <2>2. kk[i] = 4
    BY <2>1, LineFacts
  <2>3. ll[i] \in DOMAIN RowsOf(v, 5)
    BY <2>1, <2>2, LineFacts DEF KeptAt, KeptRows
  <2>4. ents[i].key = CucmEntity("Extension", RowsOf(v, 5)[ll[i]]).key
    BY <1>1, <2>2, LineFacts DEF CucmPlaced, EntityAt
  <2>5. \A r : CucmEntity("Extension", r).key = <<r.pattern>>
    BY DEF CucmEntity, MapExtension, Entity
  <2>. QED  BY <2>2, <2>3, <2>4, <2>5
<1>3. ASSUME NEW l \in DOMAIN RowsOf(v, 5)
      PROVE  \E m \in DOMAIN ents :
               /\ ll[m] = l /\ ents[m].kind = "Line"
               /\ ents[m].key = <<RowsOf(v, 5)[l].pattern, RowsOf(v, 5)[l].partition>>
  <2>1. l \in KeptAt(v, 5)
    BY LineFacts DEF KeptAt, KeptRows
  <2>2. PICK m \in DOMAIN ents : kk[m] = 5 /\ ll[m] = l
    BY <1>1, <2>1, LineFacts DEF CucmPlaced
  <2>3. ents[m].kind = "Line" /\ ents[m].key = CucmEntity("Line", RowsOf(v, 5)[l]).key
    BY <1>1, <2>2, LineFacts DEF CucmPlaced, EntityAt
  <2>4. \A r : CucmEntity("Line", r).key = <<r.pattern, r.partition>>
    BY DEF CucmEntity, MapLine, Entity
  <2>. QED  BY <2>2, <2>3, <2>4
<1>4. ASSUME NEW i \in DOMAIN ents, NEW j \in DOMAIN ents, i # j,
             ents[i].kind = "Extension", ents[j].kind = "Extension", ents[i].key = ents[j].key
      PROVE  TwoLines(ents, ents[i].key[1])
  <2>. DEFINE p == RowsOf(v, 5)[ll[i]].pattern
              q == RowsOf(v, 5)[ll[j]].pattern
  <2>1. /\ kk[i] = 4 /\ ll[i] \in DOMAIN RowsOf(v, 5) /\ ents[i].key = <<p>>
        /\ kk[j] = 4 /\ ll[j] \in DOMAIN RowsOf(v, 5) /\ ents[j].key = <<q>>
    BY <1>2, <1>4
  <2>2. ll[i] # ll[j]
    BY <1>1, <1>4, <2>1 DEF CucmPlaced
  <2>3. PICK m, x : /\ m \in DOMAIN ents
                      /\ ll[m] = ll[i] /\ ents[m].kind = "Line" /\ ents[m].key = <<p, x>>
    <3>1. PICK l \in DOMAIN RowsOf(v, 5) : l = ll[i]
      BY <2>1
    <3>2. PICK h \in DOMAIN ents :
            /\ ll[h] = l /\ ents[h].kind = "Line"
            /\ ents[h].key = <<RowsOf(v, 5)[l].pattern, RowsOf(v, 5)[l].partition>>
      BY <1>3
    <3>. QED  BY <3>1, <3>2
  <2>4. PICK n, y : /\ n \in DOMAIN ents
                      /\ ll[n] = ll[j] /\ ents[n].kind = "Line" /\ ents[n].key = <<q, y>>
    <3>1. PICK l \in DOMAIN RowsOf(v, 5) : l = ll[j]
      BY <2>1
    <3>2. PICK h \in DOMAIN ents :
            /\ ll[h] = l /\ ents[h].kind = "Line"
            /\ ents[h].key = <<RowsOf(v, 5)[l].pattern, RowsOf(v, 5)[l].partition>>
      BY <1>3
    <3>. QED  BY <3>1, <3>2
  <2>. HIDE DEF p, q
  <2>5. /\ ents[i].key[1] = p /\ ents[j].key[1] = q
        /\ ents[m].key[1] = p /\ ents[n].key[1] = q
    <3>1. \A a, b : <<a>>[1] = a /\ <<a, b>>[1] = a
      OBVIOUS
    <3>. QED  BY ONLY <2>1, <2>3, <2>4, <3>1
  <2>6. m # n
    BY <2>2, <2>3, <2>4
  <2>7. p = q
    BY <1>4, <2>5
  <2>. QED  BY <2>3, <2>4, <2>5, <2>6, <2>7 DEF TwoLines
<1>5. CollapsesReported(ents)
  BY <1>4 DEF CollapsesReported
<1>. QED  BY <1>5 DEF ents

----------------------------------------------------------------------------
\* Every row that is kept has its entity.
CucmIds(I, v) ==
  \A k \in DOMAIN CucmExtractors : \A r \in ToSet(RowsOf(v, k)) :
    (KindAt(k) = "Extension" => IsExtension(r))
      => Id(KindAt(k), CucmEntity(KindAt(k), r).key) \in I

\* The rows of an AXL list in a version.
Listed(v, operation) == Objects("cisco-cucm", v, operation)

\* What the rows name themselves is collected under that name.
CucmNamed(I, v) ==
  /\ \A r \in Listed(v, "listRoutePartition") : Id("Partition", <<r.name>>) \in I
  /\ \A r \in Listed(v, "listCss") : Id("CallingPermission", <<r.name>>) \in I
  /\ \A r \in Listed(v, "listDevicePool") : Id("DevicePool", <<r.name>>) \in I
  /\ \A r \in Listed(v, "listLine") : IsExtension(r) => Id("Extension", <<r.pattern>>) \in I
  /\ \A r \in Listed(v, "listUser") : Id("User", <<r.userid>>) \in I
  /\ \A r \in Listed(v, "listRouteGroup") : Id("RouteGroup", <<r.name>>) \in I

\* A crawl that collects every kept row collects their names.
LEMMA CucmNames ==
  ASSUME NEW v, NEW I, CucmIds(I, v), \A k \in DOMAIN CucmExtractors : RowsOf(v, k) # Refused
  PROVE  CucmNamed(I, v)
<1>1. /\ 1 \in DOMAIN CucmExtractors /\ CucmExtractors[1] = <<"Partition", "listRoutePartition">>
      /\ 2 \in DOMAIN CucmExtractors /\ CucmExtractors[2] = <<"CallingPermission", "listCss">>
      /\ 3 \in DOMAIN CucmExtractors /\ CucmExtractors[3] = <<"DevicePool", "listDevicePool">>
      /\ 4 \in DOMAIN CucmExtractors /\ CucmExtractors[4] = <<"Extension", "listLine">>
      /\ 6 \in DOMAIN CucmExtractors /\ CucmExtractors[6] = <<"User", "listUser">>
      /\ 12 \in DOMAIN CucmExtractors /\ CucmExtractors[12] = <<"RouteGroup", "listRouteGroup">>
  BY DEF CucmExtractors
<1>2. /\ KindAt(1) = "Partition" /\ KindAt(2) = "CallingPermission" /\ KindAt(3) = "DevicePool"
      /\ KindAt(4) = "Extension" /\ KindAt(6) = "User" /\ KindAt(12) = "RouteGroup"
  BY <1>1 DEF KindAt
<1>3. \A k \in DOMAIN CucmExtractors : Listed(v, CucmExtractors[k][2]) = ToSet(RowsOf(v, k))
  BY DEF Listed, Objects, RowsOf
<1>4. /\ Listed(v, "listRoutePartition") = ToSet(RowsOf(v, 1))
      /\ Listed(v, "listCss") = ToSet(RowsOf(v, 2))
      /\ Listed(v, "listDevicePool") = ToSet(RowsOf(v, 3))
      /\ Listed(v, "listLine") = ToSet(RowsOf(v, 4))
      /\ Listed(v, "listUser") = ToSet(RowsOf(v, 6))
      /\ Listed(v, "listRouteGroup") = ToSet(RowsOf(v, 12))
  <2>1. /\ CucmExtractors[1][2] = "listRoutePartition" /\ CucmExtractors[2][2] = "listCss"
        /\ CucmExtractors[3][2] = "listDevicePool" /\ CucmExtractors[4][2] = "listLine"
        /\ CucmExtractors[6][2] = "listUser" /\ CucmExtractors[12][2] = "listRouteGroup"
    BY <1>1
  <2>. QED  BY <1>1, <1>3, <2>1
<1>5. \A r \in Listed(v, "listRoutePartition") : Id("Partition", <<r.name>>) \in I
  <2>1. \A r : CucmEntity("Partition", r).key = <<r.name>>
    BY DEF CucmEntity, MapPartition, Entity
  <2>. QED  BY <1>1, <1>2, <1>4, <2>1 DEF CucmIds
<1>6. \A r \in Listed(v, "listCss") : Id("CallingPermission", <<r.name>>) \in I
  <2>1. \A r : CucmEntity("CallingPermission", r).key = <<r.name>>
    BY DEF CucmEntity, MapCallingPermission, Entity
  <2>. QED  BY <1>1, <1>2, <1>4, <2>1 DEF CucmIds
<1>7. \A r \in Listed(v, "listDevicePool") : Id("DevicePool", <<r.name>>) \in I
  <2>1. \A r : CucmEntity("DevicePool", r).key = <<r.name>>
    BY DEF CucmEntity, MapDevicePool, Entity
  <2>. QED  BY <1>1, <1>2, <1>4, <2>1 DEF CucmIds
<1>8. \A r \in Listed(v, "listLine") : IsExtension(r) => Id("Extension", <<r.pattern>>) \in I
  <2>1. \A r : CucmEntity("Extension", r).key = <<r.pattern>>
    BY DEF CucmEntity, MapExtension, Entity
  <2>. QED  BY <1>1, <1>2, <1>4, <2>1 DEF CucmIds
<1>9. \A r \in Listed(v, "listUser") : Id("User", <<r.userid>>) \in I
  <2>1. \A r : CucmEntity("User", r).key = <<r.userid>>
    BY DEF CucmEntity, MapUser, Entity
  <2>. QED  BY <1>1, <1>2, <1>4, <2>1 DEF CucmIds
<1>10. \A r \in Listed(v, "listRouteGroup") : Id("RouteGroup", <<r.name>>) \in I
  <2>1. \A r : CucmEntity("RouteGroup", r).key = <<r.name>>
    BY DEF CucmEntity, MapRouteGroup, Entity
  <2>. QED  BY <1>1, <1>2, <1>4, <2>1 DEF CucmIds
<1>. QED  BY <1>5, <1>6, <1>7, <1>8, <1>9, <1>10 DEF CucmNamed

----------------------------------------------------------------------------

\* In a whole estate, what the rows refer to is collected.
CucmRefer(I, v) ==
  /\ \A operation \in Partitioned : \A r \in Listed(v, operation) :
       Ref("Partition", r.partition) \subseteq I
  /\ \A r \in Listed(v, "listCss") : Refs("Partition", r.members) \subseteq I
  /\ \A operation \in {"listDevicePool", "listTransPattern", "listSipTrunk"} :
       \A r \in Listed(v, operation) : Ref("CallingPermission", r.css) \subseteq I
  /\ \A operation \in {"listPhone", "listSipTrunk"} :
       \A r \in Listed(v, operation) : Ref("DevicePool", r.pool) \subseteq I
  /\ \A r \in Listed(v, "listPhone") : Ref("User", r.owner) \subseteq I
  /\ \A r \in Listed(v, "listUser") : Ref("Extension", r.primary) \subseteq I
  /\ \A r \in Listed(v, "listRouteList") : Refs("RouteGroup", r.members) \subseteq I
  /\ \A r \in Listed(v, "listLine") : r.pattern \in Digits => Ref("Extension", r.pattern) \subseteq I

\* What the rows of a whole estate refer to is therefore collected.
LEMMA CucmRefers ==
  ASSUME NEW v, NEW I, CucmNamed(I, v), CucmWhole(v)
  PROVE  CucmRefer(I, v)
<1>. DEFINE partitions == {r.name : r \in Listed(v, "listRoutePartition")}
            spaces     == {r.name : r \in Listed(v, "listCss")}
            pools      == {r.name : r \in Listed(v, "listDevicePool")}
            users      == {r.userid : r \in Listed(v, "listUser")}
            groups     == {r.name : r \in Listed(v, "listRouteGroup")}
            extensions == {r.pattern : r \in {x \in Listed(v, "listLine") : IsExtension(x)}}
<1>1. /\ \A operation \in Partitioned : \A r \in Listed(v, operation) :
           r.partition \in partitions \cup {None}
      /\ \A r \in Listed(v, "listCss") : r.members \subseteq partitions
      /\ \A operation \in {"listDevicePool", "listTransPattern", "listSipTrunk"} :
           \A r \in Listed(v, operation) : r.css \in spaces \cup {None}
      /\ \A operation \in {"listPhone", "listSipTrunk"} :
           \A r \in Listed(v, operation) : r.pool \in pools \cup {None}
      /\ \A r \in Listed(v, "listPhone") : r.owner \in users \cup {None}
      /\ \A r \in Listed(v, "listUser") : r.primary \in extensions \cup {None}
      /\ \A r \in Listed(v, "listRouteList") : r.members \subseteq groups
  BY DEF CucmWhole, Listed
<1>2. /\ \A name \in partitions : Id("Partition", <<name>>) \in I
      /\ \A name \in spaces : Id("CallingPermission", <<name>>) \in I
      /\ \A name \in pools : Id("DevicePool", <<name>>) \in I
      /\ \A name \in users : Id("User", <<name>>) \in I
      /\ \A name \in groups : Id("RouteGroup", <<name>>) \in I
      /\ \A name \in extensions : Id("Extension", <<name>>) \in I
  BY DEF CucmNamed
<1>3. \A r \in Listed(v, "listLine") : r.pattern \in Digits => r.pattern \in extensions
  BY DEF IsExtension
<1>. HIDE DEF partitions, spaces, pools, users, groups, extensions
<1>4. /\ \A name \in partitions \cup {None} : Ref("Partition", name) \subseteq I
      /\ \A name \in spaces \cup {None} : Ref("CallingPermission", name) \subseteq I
      /\ \A name \in pools \cup {None} : Ref("DevicePool", name) \subseteq I
      /\ \A name \in users \cup {None} : Ref("User", name) \subseteq I
      /\ \A name \in extensions \cup {None} : Ref("Extension", name) \subseteq I
      /\ \A names : names \subseteq partitions => Refs("Partition", names) \subseteq I
      /\ \A names : names \subseteq groups => Refs("RouteGroup", names) \subseteq I
  BY <1>2 DEF Ref, Refs
<1>. QED  BY <1>1, <1>3, <1>4 DEF CucmRefer

----------------------------------------------------------------------------
\* The references of an entity of a kind are collected, or known mismatches.
Explains(I, kind, refs) ==
  \A x \in refs : x \in I \/ <<"cisco-cucm", kind, x[1]>> \in KeyMismatches

\* Part by part.
LEMMA ExplainsParts ==
  ASSUME NEW I, NEW kind, NEW a, NEW b, Explains(I, kind, a), Explains(I, kind, b)
  PROVE  Explains(I, kind, a \cup b)
BY DEF Explains

\* What is collected explains itself.
LEMMA ExplainsThere ==
  ASSUME NEW I, NEW kind, NEW a, a \subseteq I
  PROVE  Explains(I, kind, a)
BY DEF Explains

\* The three references of CUCM that go by another key than the entity has.
LEMMA ExplainsMismatch ==
  ASSUME NEW I
  PROVE  /\ \A name : Explains(I, "RoutePattern", Ref("RouteList", name))
         /\ \A names : Explains(I, "RouteGroup", Refs("SIPTrunk", names))
         /\ \A names : Explains(I, "LineGroup", {Id("Line", <<m, None>>) : m \in names})
<1>1. /\ <<"cisco-cucm", "LineGroup", "Line">> \in KeyMismatches
      /\ <<"cisco-cucm", "RoutePattern", "RouteList">> \in KeyMismatches
      /\ <<"cisco-cucm", "RouteGroup", "SIPTrunk">> \in KeyMismatches
  BY DEF KeyMismatches
<1>2. \A kind, key : Id(kind, key)[1] = kind
  BY DEF Id
<1>3. \A name : Explains(I, "RoutePattern", Ref("RouteList", name))
  BY <1>1, <1>2 DEF Explains, Ref
<1>4. \A names : Explains(I, "RouteGroup", Refs("SIPTrunk", names))
  BY <1>1, <1>2 DEF Explains, Refs
<1>5. \A names : Explains(I, "LineGroup", {Id("Line", <<m, None>>) : m \in names})
  BY <1>1, <1>2 DEF Explains
<1>. QED  BY <1>3, <1>4, <1>5

\* What an entity of each kind refers to.
LEMMA CucmEntityRefs ==
  ASSUME NEW r
  PROVE  /\ CucmEntity("Partition", r).refs = {}
         /\ CucmEntity("CallingPermission", r).refs = Refs("Partition", r.members)
         /\ CucmEntity("DevicePool", r).refs = Ref("CallingPermission", r.css)
         /\ CucmEntity("Extension", r).refs = Ref("Partition", r.partition)
         /\ CucmEntity("Line", r).refs
              = Ref("Partition", r.partition)
                  \cup (IF r.pattern \in Digits THEN Ref("Extension", r.pattern) ELSE {})
         /\ CucmEntity("User", r).refs = Ref("Extension", r.primary)
         /\ CucmEntity("Device", r).refs = Ref("DevicePool", r.pool) \cup Ref("User", r.owner)
         /\ CucmEntity("DeviceProfile", r).refs = {}
         /\ CucmEntity("RoutePattern", r).refs
              = Ref("Partition", r.partition) \cup Ref("RouteList", r.destination)
         /\ CucmEntity("TranslationPattern", r).refs
              = Ref("Partition", r.partition) \cup Ref("CallingPermission", r.css)
         /\ CucmEntity("RouteList", r).refs = Refs("RouteGroup", r.members)
         /\ CucmEntity("RouteGroup", r).refs = Refs("SIPTrunk", r.members)
         /\ CucmEntity("LineGroup", r).refs = {Id("Line", <<m, None>>) : m \in r.members}
         /\ CucmEntity("HuntGroup", r).refs = Ref("Partition", r.partition)
         /\ CucmEntity("PickupGroup", r).refs = Ref("Partition", r.partition)
         /\ CucmEntity("SIPTrunk", r).refs
              = Ref("CallingPermission", r.css) \cup Ref("DevicePool", r.pool)
<1>2. CucmEntity("Partition", r).refs = {}
  <2>1. CucmEntity("Partition", r) = MapPartition(r)
    BY DEF CucmEntity
  <2>2. MapPartition(r).refs = {}
    BY DEF MapPartition, Entity
  <2>. QED  BY <2>1, <2>2
<1>3. CucmEntity("CallingPermission", r).refs = Refs("Partition", r.members)
  <2>1. CucmEntity("CallingPermission", r) = MapCallingPermission(r)
    BY DEF CucmEntity
  <2>2. MapCallingPermission(r).refs = Refs("Partition", r.members)
    BY DEF MapCallingPermission, Entity
  <2>. QED  BY <2>1, <2>2
<1>4. CucmEntity("DevicePool", r).refs = Ref("CallingPermission", r.css)
  <2>1. CucmEntity("DevicePool", r) = MapDevicePool(r)
    BY DEF CucmEntity
  <2>2. MapDevicePool(r).refs = Ref("CallingPermission", r.css)
    BY DEF MapDevicePool, Entity
  <2>. QED  BY <2>1, <2>2
<1>5. CucmEntity("Extension", r).refs = Ref("Partition", r.partition)
  <2>1. CucmEntity("Extension", r) = MapExtension(r)
    BY DEF CucmEntity
  <2>2. MapExtension(r).refs = Ref("Partition", r.partition)
    BY DEF MapExtension, Entity
  <2>. QED  BY <2>1, <2>2
<1>6. CucmEntity("Line", r).refs
        = Ref("Partition", r.partition)
            \cup (IF r.pattern \in Digits THEN Ref("Extension", r.pattern) ELSE {})
  <2>1. CucmEntity("Line", r) = MapLine(r)
    BY DEF CucmEntity
  <2>2. MapLine(r).refs
          = Ref("Partition", r.partition)
              \cup (IF r.pattern \in Digits THEN Ref("Extension", r.pattern) ELSE {})
    BY DEF MapLine, Entity
  <2>. QED  BY <2>1, <2>2
<1>7. CucmEntity("User", r).refs = Ref("Extension", r.primary)
  <2>1. CucmEntity("User", r) = MapUser(r)
    BY DEF CucmEntity
  <2>2. MapUser(r).refs = Ref("Extension", r.primary)
    BY DEF MapUser, Entity
  <2>. QED  BY <2>1, <2>2
<1>8. CucmEntity("Device", r).refs = Ref("DevicePool", r.pool) \cup Ref("User", r.owner)
  <2>1. CucmEntity("Device", r) = MapDevice(r)
    BY DEF CucmEntity
  <2>2. MapDevice(r).refs = Ref("DevicePool", r.pool) \cup Ref("User", r.owner)
    BY DEF MapDevice, Entity
  <2>. QED  BY <2>1, <2>2
<1>9. CucmEntity("DeviceProfile", r).refs = {}
  <2>1. CucmEntity("DeviceProfile", r) = MapDeviceProfile(r)
    BY DEF CucmEntity
  <2>2. MapDeviceProfile(r).refs = {}
    BY DEF MapDeviceProfile, Entity
  <2>. QED  BY <2>1, <2>2
<1>10. CucmEntity("RoutePattern", r).refs
         = Ref("Partition", r.partition) \cup Ref("RouteList", r.destination)
  <2>1. CucmEntity("RoutePattern", r) = MapRoutePattern(r)
    BY DEF CucmEntity
  <2>2. MapRoutePattern(r).refs
           = Ref("Partition", r.partition) \cup Ref("RouteList", r.destination)
    BY DEF MapRoutePattern, Entity
  <2>. QED  BY <2>1, <2>2
<1>11. CucmEntity("TranslationPattern", r).refs
         = Ref("Partition", r.partition) \cup Ref("CallingPermission", r.css)
  <2>1. CucmEntity("TranslationPattern", r) = MapTranslationPattern(r)
    BY DEF CucmEntity
  <2>2. MapTranslationPattern(r).refs
           = Ref("Partition", r.partition) \cup Ref("CallingPermission", r.css)
    BY DEF MapTranslationPattern, Entity
  <2>. QED  BY <2>1, <2>2
<1>12. CucmEntity("RouteList", r).refs = Refs("RouteGroup", r.members)
  <2>1. CucmEntity("RouteList", r) = MapRouteList(r)
    BY DEF CucmEntity
  <2>2. MapRouteList(r).refs = Refs("RouteGroup", r.members)
    BY DEF MapRouteList, Entity
  <2>. QED  BY <2>1, <2>2
<1>13. CucmEntity("RouteGroup", r).refs = Refs("SIPTrunk", r.members)
  <2>1. CucmEntity("RouteGroup", r) = MapRouteGroup(r)
    BY DEF CucmEntity
  <2>2. MapRouteGroup(r).refs = Refs("SIPTrunk", r.members)
    BY DEF MapRouteGroup, Entity
  <2>. QED  BY <2>1, <2>2
<1>14. CucmEntity("LineGroup", r).refs = {Id("Line", <<m, None>>) : m \in r.members}
  <2>1. CucmEntity("LineGroup", r) = MapLineGroup(r)
    BY DEF CucmEntity
  <2>2. MapLineGroup(r).refs = {Id("Line", <<m, None>>) : m \in r.members}
    BY DEF MapLineGroup, Entity
  <2>. QED  BY <2>1, <2>2
<1>15. CucmEntity("HuntGroup", r).refs = Ref("Partition", r.partition)
  <2>1. CucmEntity("HuntGroup", r) = MapHuntGroup(r)
    BY DEF CucmEntity
  <2>2. MapHuntGroup(r).refs = Ref("Partition", r.partition)
    BY DEF MapHuntGroup, Entity
  <2>. QED  BY <2>1, <2>2
<1>16. CucmEntity("PickupGroup", r).refs = Ref("Partition", r.partition)
  <2>1. CucmEntity("PickupGroup", r) = MapPickupGroup(r)
    BY DEF CucmEntity
  <2>2. MapPickupGroup(r).refs = Ref("Partition", r.partition)
    BY DEF MapPickupGroup, Entity
  <2>. QED  BY <2>1, <2>2
<1>17. CucmEntity("SIPTrunk", r).refs
         = Ref("CallingPermission", r.css) \cup Ref("DevicePool", r.pool)
  <2>1. CucmEntity("SIPTrunk", r) = MapSipTrunk(r)
    BY DEF CucmEntity
  <2>2. MapSipTrunk(r).refs
           = Ref("CallingPermission", r.css) \cup Ref("DevicePool", r.pool)
    BY DEF MapSipTrunk, Entity
  <2>. QED  BY <2>1, <2>2
<1>. QED  BY <1>2, <1>3, <1>4, <1>5, <1>6, <1>7, <1>8, <1>9, <1>10, <1>11, <1>12, <1>13,
            <1>14, <1>15, <1>16, <1>17

\* Hence every entity made of a row is explained.
LEMMA CucmRefs ==
  ASSUME NEW v, NEW I, CucmRefer(I, v), NEW k \in DOMAIN CucmExtractors,
         RowsOf(v, k) # Refused, NEW r \in ToSet(RowsOf(v, k))
  PROVE  Explains(I, KindAt(k), CucmEntity(KindAt(k), r).refs)
<1>. DEFINE operation == CucmExtractors[k][2]
<1>1. r \in Listed(v, operation)
  BY DEF Listed, Objects, RowsOf
<1>3. \/ KindAt(k) = "Partition"
      \/ KindAt(k) = "CallingPermission" /\ operation = "listCss"
      \/ KindAt(k) = "DevicePool" /\ operation = "listDevicePool"
      \/ KindAt(k) = "Extension" /\ operation = "listLine"
      \/ KindAt(k) = "Line" /\ operation = "listLine"
      \/ KindAt(k) = "User" /\ operation = "listUser"
      \/ KindAt(k) = "Device" /\ operation = "listPhone"
      \/ KindAt(k) = "DeviceProfile"
      \/ KindAt(k) = "RoutePattern" /\ operation = "listRoutePattern"
      \/ KindAt(k) = "TranslationPattern" /\ operation = "listTransPattern"
      \/ KindAt(k) = "RouteList" /\ operation = "listRouteList"
      \/ KindAt(k) = "RouteGroup"
      \/ KindAt(k) = "LineGroup"
      \/ KindAt(k) = "HuntGroup" /\ operation = "listHuntPilot"
      \/ KindAt(k) = "PickupGroup" /\ operation = "listCallPickupGroup"
      \/ KindAt(k) = "SIPTrunk" /\ operation = "listSipTrunk"
  BY DEF CucmExtractors, KindAt
<1>. HIDE DEF operation
<1>4. "listLine" \in Partitioned /\ "listRoutePattern" \in Partitioned
      /\ "listTransPattern" \in Partitioned /\ "listHuntPilot" \in Partitioned
      /\ "listCallPickupGroup" \in Partitioned
  BY DEF Partitioned
<1>5. operation \in Partitioned => Explains(I, KindAt(k), Ref("Partition", r.partition))
  BY <1>1, ExplainsThere DEF CucmRefer
<1>6. operation \in {"listDevicePool", "listTransPattern", "listSipTrunk"}
        => Explains(I, KindAt(k), Ref("CallingPermission", r.css))
  BY <1>1, ExplainsThere DEF CucmRefer
<1>7. operation \in {"listPhone", "listSipTrunk"}
        => Explains(I, KindAt(k), Ref("DevicePool", r.pool))
  BY <1>1, ExplainsThere DEF CucmRefer
<1>8. Explains(I, KindAt(k), {})
  BY ExplainsThere
<1>9. CASE KindAt(k) = "Partition"
  BY <1>3, <1>9, <1>8, CucmEntityRefs
<1>10. CASE KindAt(k) = "CallingPermission"
  <2>1. operation = "listCss"
    BY <1>3, <1>10
  <2>2. Explains(I, KindAt(k), Refs("Partition", r.members))
    BY <1>1, <1>8, <2>1, ExplainsThere DEF CucmRefer
  <2>. QED  BY <1>10, <2>1, <2>2, CucmEntityRefs
<1>11. CASE KindAt(k) = "DevicePool"
  BY <1>3, <1>11, <1>6, CucmEntityRefs
<1>12. CASE KindAt(k) = "Extension"
  BY <1>3, <1>12, <1>4, <1>5, CucmEntityRefs
<1>13. CASE KindAt(k) = "Line"
  <2>. DEFINE a == Ref("Partition", r.partition)
              b == IF r.pattern \in Digits THEN Ref("Extension", r.pattern) ELSE {}
  <2>1. operation = "listLine"
    BY <1>3, <1>13
  <2>2. CucmEntity(KindAt(k), r).refs = a \cup b
    BY <1>13, CucmEntityRefs
  <2>3. Explains(I, KindAt(k), a)
    BY <1>4, <1>5, <2>1
  <2>4. Explains(I, KindAt(k), b)
    BY <1>1, <1>8, <2>1, ExplainsThere DEF CucmRefer
  <2>. HIDE DEF a, b
  <2>. QED  BY <2>2, <2>3, <2>4, ExplainsParts
<1>14. CASE KindAt(k) = "User"
  <2>1. operation = "listUser"
    BY <1>3, <1>14
  <2>2. Explains(I, KindAt(k), Ref("Extension", r.primary))
    BY <1>1, <1>8, <2>1, ExplainsThere DEF CucmRefer
  <2>. QED  BY <1>14, <2>1, <2>2, CucmEntityRefs
<1>15. CASE KindAt(k) = "Device"
  <2>. DEFINE a == Ref("DevicePool", r.pool)
              b == Ref("User", r.owner)
  <2>1. operation = "listPhone"
    BY <1>3, <1>15
  <2>2. CucmEntity(KindAt(k), r).refs = a \cup b
    BY <1>15, CucmEntityRefs
  <2>3. Explains(I, KindAt(k), a)
    BY <1>7, <2>1
  <2>4. Explains(I, KindAt(k), b)
    BY <1>1, <2>1, ExplainsThere DEF CucmRefer
  <2>. HIDE DEF a, b
  <2>. QED  BY <2>2, <2>3, <2>4, ExplainsParts
<1>16. CASE KindAt(k) = "DeviceProfile"
  BY <1>3, <1>16, <1>8, CucmEntityRefs
<1>17. CASE KindAt(k) = "RoutePattern"
  <2>. DEFINE a == Ref("Partition", r.partition)
              b == Ref("RouteList", r.destination)
  <2>1. operation = "listRoutePattern"
    BY <1>3, <1>17
  <2>2. CucmEntity(KindAt(k), r).refs = a \cup b
    BY <1>17, CucmEntityRefs
  <2>3. Explains(I, KindAt(k), a)
    BY <1>4, <1>5, <2>1
  <2>4. Explains(I, KindAt(k), b)
    BY <1>17, ExplainsMismatch
  <2>. HIDE DEF a, b
  <2>. QED  BY <2>2, <2>3, <2>4, ExplainsParts
<1>18. CASE KindAt(k) = "TranslationPattern"
  <2>. DEFINE a == Ref("Partition", r.partition)
              b == Ref("CallingPermission", r.css)
  <2>1. operation = "listTransPattern"
    BY <1>3, <1>18
  <2>2. CucmEntity(KindAt(k), r).refs = a \cup b
    BY <1>18, CucmEntityRefs
  <2>3. Explains(I, KindAt(k), a)
    BY <1>4, <1>5, <2>1
  <2>4. Explains(I, KindAt(k), b)
    BY <1>6, <2>1
  <2>. HIDE DEF a, b
  <2>. QED  BY <2>2, <2>3, <2>4, ExplainsParts
<1>19. CASE KindAt(k) = "RouteList"
  <2>1. operation = "listRouteList"
    BY <1>3, <1>19
  <2>2. Explains(I, KindAt(k), Refs("RouteGroup", r.members))
    BY <1>1, <1>8, <2>1, ExplainsThere DEF CucmRefer
  <2>. QED  BY <1>19, <2>1, <2>2, CucmEntityRefs
<1>20. CASE KindAt(k) = "RouteGroup"
  <2>1. CucmEntity(KindAt(k), r).refs = Refs("SIPTrunk", r.members)
    BY <1>20, CucmEntityRefs
  <2>2. Explains(I, KindAt(k), Refs("SIPTrunk", r.members))
    BY <1>20, ExplainsMismatch
  <2>. QED  BY <2>1, <2>2
<1>21. CASE KindAt(k) = "LineGroup"
  <2>. DEFINE a == {Id("Line", <<m, None>>) : m \in r.members}
  <2>1. CucmEntity(KindAt(k), r).refs = a
    BY <1>21, CucmEntityRefs
  <2>2. Explains(I, "LineGroup", a)
    BY ExplainsMismatch
  <2>. HIDE DEF a
  <2>. QED  BY <1>21, <2>1, <2>2
<1>22. CASE KindAt(k) = "HuntGroup"
  BY <1>3, <1>22, <1>4, <1>5, CucmEntityRefs
<1>23. CASE KindAt(k) = "PickupGroup"
  BY <1>3, <1>23, <1>4, <1>5, CucmEntityRefs
<1>24. CASE KindAt(k) = "SIPTrunk"
  <2>. DEFINE a == Ref("CallingPermission", r.css)
              b == Ref("DevicePool", r.pool)
  <2>1. operation = "listSipTrunk"
    BY <1>3, <1>24
  <2>2. CucmEntity(KindAt(k), r).refs = a \cup b
    BY <1>24, CucmEntityRefs
  <2>3. Explains(I, KindAt(k), a)
    BY <1>6, <2>1
  <2>4. Explains(I, KindAt(k), b)
    BY <1>7, <2>1
  <2>. HIDE DEF a, b
  <2>. QED  BY <2>2, <2>3, <2>4, ExplainsParts
<1>. QED  BY <1>3, <1>9, <1>10, <1>11, <1>12, <1>13, <1>14, <1>15, <1>16, <1>17, <1>18, <1>19, <1>20, <1>21, <1>22, <1>23, <1>24

----------------------------------------------------------------------------

\* An owner that is filled in is one of the entities collected.
LEMMA LinkOwner ==
  ASSUME NEW s, IsRows(s), NEW i \in DOMAIN s, NEW kind, IsEntity(s[i], kind)
  PROVE  \/ LinkOwners(s)[i].owner = None
         \/ \E m \in DOMAIN s : LinkOwners(s)[i].owner = IdOf(s[m])
<1>. DEFINE e == s[i]
            Fine(x) == x.owner = None \/ \E m \in DOMAIN s : x.owner = IdOf(s[m])
<1>1. Len(s) \in Nat /\ DOMAIN s = 1..Len(s)
  BY RowsFacts
<1>2. \A x : OwnersOf(s, x) \subseteq 1..Len(s)
  BY <1>1 DEF OwnersOf
<1>3. e.owner = None /\ \A o : [e EXCEPT !.owner = o].owner = o
  BY DEF IsEntity
<1>4. ASSUME NEW x PROVE Fine(Owned(e, x, s))
  <2>1. CASE OwnersOf(s, x) = {}
    <3>1. Owned(e, x, s) = e
      BY <2>1 DEF Owned
    <3>. QED  BY <1>3, <3>1
  <2>2. CASE OwnersOf(s, x) # {}
    <3>. DEFINE m == Max(OwnersOf(s, x))
    <3>1. m \in DOMAIN s
      BY <1>1, <1>2, <2>2, MaxIn
    <3>2. Owned(e, x, s) = [e EXCEPT !.owner = IdOf(s[m])]
      BY <2>2 DEF Owned
    <3>. HIDE DEF m, e
    <3>3. Owned(e, x, s).owner = IdOf(s[m])
      BY <1>3, <3>2
    <3>. QED  BY <3>1, <3>3
  <2>. QED  BY <2>1, <2>2
<1>5. LinkOwners(s)[i] = e \/ \E x : LinkOwners(s)[i] = Owned(e, x, s)
  BY DEF LinkOwners
<1>6. Fine(e)
  BY <1>3
<1>. HIDE DEF Fine, e
<1>7. Fine(LinkOwners(s)[i])
  BY <1>4, <1>5, <1>6
<1>. QED  BY <1>7 DEF Fine

\* _link_extension_owners fills in owners that are collected.
LEMMA CucmOwners ==
  ASSUME NEW v \in Version, NEW log, CucmLogOf(v, log)
  PROVE  LET ents == CucmEntities(log)
         IN \A i \in DOMAIN ents :
              ents[i].owner = None \/ \E x \in ToSet(ents) : ents[i].owner = IdOf(x)
<1>. DEFINE s == Collected(log)
            ents == LinkOwners(s)
<1>1. PICK kk, ll : PlacedBy(kk, ll, s, v)
  BY CollectedPlaced
<1>2. IsRows(s)
  BY CollectedPlaced
<1>3. CucmEntities(log) = ents
  BY DEF CucmEntities, Collected
<1>. HIDE DEF s
<1>4. \A i \in DOMAIN s : IsEntity(s[i], KindAt(kk[i]))
  BY <1>1, ExtractorFacts, CucmEntityKind DEF PlacedBy, EntityAt
<1>5. DOMAIN ents = DOMAIN s
  BY DEF LinkOwners
<1>6. \A m \in DOMAIN s : IdOf(ents[m]) = IdOf(s[m])
  BY <1>4, LinkKeeps DEF IdOf
<1>7. \A i \in DOMAIN s : ents[i].owner = None \/ \E m \in DOMAIN s : ents[i].owner = IdOf(s[m])
  BY <1>2, <1>4, LinkOwner
<1>8. \A m \in DOMAIN s : ents[m] \in ToSet(ents)
  BY <1>5 DEF ToSet
<1>. HIDE DEF ents
<1>9. \A i \in DOMAIN ents :
        ents[i].owner = None \/ \E x \in ToSet(ents) : ents[i].owner = IdOf(x)
  BY <1>5, <1>6, <1>7, <1>8
<1>. QED  BY <1>3, <1>9

\* Of CUCM: in a whole estate, nothing else dangles.
LEMMA CucmExplained ==
  ASSUME NEW v \in Version, NEW log, CucmLogOf(v, log), CucmWhole(v)
  PROVE  Explained("cisco-cucm", ToSet(CucmEntities(log)))
<1>. DEFINE ents == CucmEntities(log)
            I == {IdOf(x) : x \in ToSet(ents)}
<1>1. PICK kk, ll : CucmPlaced(kk, ll, ents, v)
  BY CucmEntitiesPlaced
<1>2. \A i \in DOMAIN ents :
        ents[i].owner = None \/ \E x \in ToSet(ents) : ents[i].owner = IdOf(x)
  BY CucmOwners
<1>3. \A k \in DOMAIN CucmExtractors : RowsOf(v, k) # Refused
  BY DEF CucmLogOf
<1>. HIDE DEF ents
<1>4. \A x \in ToSet(ents) : IdOf(x) \in I
  OBVIOUS
<1>5. \A x \in I : \E y \in ToSet(ents) : x = IdOf(y)
  OBVIOUS
<1>. HIDE DEF I
<1>6. CucmIds(I, v)
  <2>1. SUFFICES ASSUME NEW k \in DOMAIN CucmExtractors, NEW r \in ToSet(RowsOf(v, k)),
                        KindAt(k) = "Extension" => IsExtension(r)
                 PROVE  Id(KindAt(k), CucmEntity(KindAt(k), r).key) \in I
    BY DEF CucmIds
  <2>2. PICK l \in DOMAIN RowsOf(v, k) : r = RowsOf(v, k)[l]
    BY DEF ToSet
  <2>3. l \in KeptAt(v, k)
    BY <2>1, <2>2 DEF KeptAt, KeptRows
  <2>4. PICK i \in DOMAIN ents : kk[i] = k /\ ll[i] = l
    BY <1>1, <2>3 DEF CucmPlaced
  <2>5. ents[i].kind = KindAt(k) /\ ents[i].key = CucmEntity(KindAt(k), r).key
    BY <1>1, <2>2, <2>4 DEF CucmPlaced, EntityAt
  <2>6. ents[i] \in ToSet(ents)
    BY DEF ToSet
  <2>7. IdOf(ents[i]) = Id(KindAt(k), CucmEntity(KindAt(k), r).key)
    BY <2>5 DEF IdOf
  <2>. QED  BY <1>4, <2>6, <2>7
<1>7. CucmRefer(I, v)
  BY <1>3, <1>6, CucmNames, CucmRefers
<1>8. ASSUME NEW i \in DOMAIN ents, NEW x \in ReferencesOf(ents[i])
      PROVE  x \in I \/ <<"cisco-cucm", ents[i].kind, x[1]>> \in KeyMismatches
  <2>1. x \in ents[i].refs \/ (ents[i].owner # None /\ x = ents[i].owner)
    BY DEF ReferencesOf
  <2>2. ASSUME x \in ents[i].refs
        PROVE  x \in I \/ <<"cisco-cucm", ents[i].kind, x[1]>> \in KeyMismatches
    <3>1. PICK k \in DOMAIN CucmExtractors, l \in {ll[i]} : k = kk[i] /\ l = ll[i]
      BY <1>1 DEF CucmPlaced
    <3>2. /\ l \in DOMAIN RowsOf(v, k)
          /\ ents[i].kind = KindAt(k)
          /\ ents[i].refs = CucmEntity(KindAt(k), RowsOf(v, k)[l]).refs
      BY <1>1, <3>1 DEF CucmPlaced, EntityAt, KeptAt, KeptRows
    <3>3. RowsOf(v, k)[l] \in ToSet(RowsOf(v, k))
      BY <3>2 DEF ToSet
    <3>4. Explains(I, KindAt(k), CucmEntity(KindAt(k), RowsOf(v, k)[l]).refs)
      BY <1>3, <1>7, <3>3, CucmRefs
    <3>. QED  BY <2>2, <3>2, <3>4 DEF Explains
  <2>3. ASSUME ents[i].owner # None, x = ents[i].owner PROVE x \in I
    BY <1>2, <1>4, <2>3
  <2>. QED  BY <2>1, <2>2, <2>3
<1>9. Explained("cisco-cucm", ToSet(ents))
  BY <1>5, <1>8 DEF Explained, ToSet
<1>. QED  BY <1>9 DEF ents

----------------------------------------------------------------------------
(* What the reports say of a quiet crawl. *)

\* A crawl whose collapsed extensions are reported, and that explains what dangles.
Told(c, v, ents) ==
  /\ IsRows(ents)
  /\ CollapsesReported(ents)
  /\ CucmWhole(v) /\ AvayaWhole(v) /\ TeamsWhole(v) /\ MemoryWhole(v) => Explained(c, ToSet(ents))

\* A source without extensions of its own.
LEMMA SoundTold ==
  ASSUME NEW c, NEW v, NEW ents, NEW S, Holds(ents, S), Sound(c, S)
  PROVE  Told(c, v, ents)
<1>1. IsRows(ents) /\ ToSet(ents) = S
  BY DEF Holds
<1>2. CollapsesReported(ents)
  BY <1>1, NoneCollapse DEF Sound
<1>. QED  BY <1>1, <1>2 DEF Told, Sound

\* A quiet crawl, of whichever connector.
LEMMA CrawlTold ==
  ASSUME NEW v \in Version, NEW log,
         NEW c \in {"cisco-cucm", "avaya-aura", "slack", "microsoft-sfb-server",
                    "genesys-cloud", "microsoft-teams", "reference-memory"},
         QuietLog(c, v, log)
  PROVE  Told(c, v, CrawlAssemble(c, AllOf(c), log))
<1>1. CASE c = "cisco-cucm"
  <2>1. CrawlAssemble(c, AllOf(c), log) = CucmEntities(log)
    BY <1>1 DEF CrawlAssemble
  <2>2. CucmLogOf(v, log)
    BY <1>1, CucmLog
  <2>3. CollapsesReported(CucmEntities(log))
    BY <2>2, CucmCollapses
  <2>4. CucmWhole(v) => Explained("cisco-cucm", ToSet(CucmEntities(log)))
    BY <2>2, CucmExplained
  <2>5. IsRows(CucmEntities(log))
    BY <2>2, CucmEntitiesPlaced DEF CucmPlaced
  <2>. QED  BY <1>1, <2>1, <2>3, <2>4, <2>5 DEF Told
<1>2. CASE c = "avaya-aura"
  <2>1. CrawlAssemble(c, AllOf(c), log) = AvayaEntities(AvayaKinds, log)
    BY <1>2 DEF CrawlAssemble, AllOf, CrawlExtractable
  <2>2. PICK st, form, F, h, u :
          /\ Holds(AvayaEntities(AvayaKinds, log), AvayaSet(st, form, F, h, u))
          /\ CollapsesReported(AvayaEntities(AvayaKinds, log))
          /\ AreRules(F)
          /\ AvayaWhole(v) => AvayaOf(st, form, u)
    BY <1>2, AvayaHolds
  <2>3. AvayaWhole(v) => Explained("avaya-aura", AvayaSet(st, form, F, h, u))
    BY <2>2, AvayaExplained
  <2>4. IsRows(AvayaEntities(AvayaKinds, log)) /\ ToSet(AvayaEntities(AvayaKinds, log)) = AvayaSet(st, form, F, h, u)
    BY <2>2 DEF Holds
  <2>. QED  BY <1>2, <2>1, <2>2, <2>3, <2>4 DEF Told
<1>3. CASE c = "slack"
  <2>1. CrawlAssemble(c, AllOf(c), log) = SlackEntities(SlackKinds, log)
    BY <1>3 DEF CrawlAssemble, AllOf, CrawlExtractable
  <2>2. \E S : Holds(SlackEntities(SlackKinds, log), S) /\ Sound("slack", S)
    BY <1>3, SlackHolds, SlackSound
  <2>. QED  BY <1>3, <2>1, <2>2, SoundTold
<1>4. CASE c = "microsoft-sfb-server"
  <2>1. CrawlAssemble(c, AllOf(c), log) = SfbEntities(SfbKinds, log)
    BY <1>4 DEF CrawlAssemble, AllOf, CrawlExtractable
  <2>2. \E S : Holds(SfbEntities(SfbKinds, log), S) /\ Sound("microsoft-sfb-server", S)
    BY <1>4, SfbHolds, SfbSound
  <2>. QED  BY <1>4, <2>1, <2>2, SoundTold
<1>5. CASE c = "genesys-cloud"
  <2>1. CrawlAssemble(c, AllOf(c), log) = GenesysEntities(GenesysKinds, log)
    BY <1>5 DEF CrawlAssemble, AllOf, CrawlExtractable
  <2>2. \E S : Holds(GenesysEntities(GenesysKinds, log), S) /\ Sound("genesys-cloud", S)
    BY <1>5, GenesysHolds, GenesysSound
  <2>. QED  BY <1>5, <2>1, <2>2, SoundTold
<1>6. CASE c = "microsoft-teams"
  <2>1. CrawlAssemble(c, AllOf(c), log) = TeamsEntities(TeamsKinds, log)
    BY <1>6 DEF CrawlAssemble, AllOf, CrawlExtractable
  <2>2. PICK l, n, p, voice, u :
          /\ Holds(TeamsEntities(TeamsKinds, log), TeamsSet(l, n, p, voice, u))
          /\ IsRows(voice) /\ (TeamsWhole(v) => VoiceOf(voice, n))
    BY <1>6, TeamsHolds
  <2>3. IsRows(TeamsEntities(TeamsKinds, log)) /\ ToSet(TeamsEntities(TeamsKinds, log)) = TeamsSet(l, n, p, voice, u)
    BY <2>2 DEF Holds
  <2>4. CollapsesReported(TeamsEntities(TeamsKinds, log))
    BY <2>3, TeamsNoExtension, NoneCollapse
  <2>5. TeamsWhole(v) => Explained("microsoft-teams", TeamsSet(l, n, p, voice, u))
    BY <2>2, TeamsExplained
  <2>. QED  BY <1>6, <2>1, <2>3, <2>4, <2>5 DEF Told
<1>7. CASE c = "reference-memory"
  <2>1. CrawlAssemble(c, AllOf(c), log) = ReferenceEntities(ReferenceKinds, log)
    BY <1>7 DEF CrawlAssemble, AllOf, CrawlExtractable
  <2>2. PICK s, n, u, l :
          /\ Holds(ReferenceEntities(ReferenceKinds, log), MemorySet(s, n, u, l))
          /\ MemoryWhole(v) => MemoryOf(s, n, u, l)
    BY <1>7, MemoryHolds
  <2>3. IsRows(ReferenceEntities(ReferenceKinds, log)) /\ ToSet(ReferenceEntities(ReferenceKinds, log)) = MemorySet(s, n, u, l)
    BY <2>2 DEF Holds
  <2>4. CollapsesReported(ReferenceEntities(ReferenceKinds, log))
    BY <2>3, MemoryNoExtension, NoneCollapse
  <2>5. MemoryWhole(v) => Explained("reference-memory", MemorySet(s, n, u, l))
    BY <2>2, MemoryExplained
  <2>. QED  BY <1>7, <2>1, <2>3, <2>4, <2>5 DEF Told
<1>. QED  BY <1>1, <1>2, <1>3, <1>4, <1>5, <1>6, <1>7

----------------------------------------------------------------------------
\* So is the report on a quiet job.
LEMMA QuietTold ==
  ASSUME TheConnectors, LogInv, NEW j \in Job, Quiet(j)
  PROVE  \E v \in Version : Told(ConnectorOf[j], v, Entities(j))
<1>1. PICK v, log :
        /\ v \in Version
        /\ QuietLog(ConnectorOf[j], v, log)
        /\ Entities(j) = CrawlAssemble(ConnectorOf[j], AllOf(ConnectorOf[j]), log)
  BY QuietCrawl
<1>2. ConnectorOf[j] \in {"cisco-cucm", "avaya-aura", "slack", "microsoft-sfb-server",
                          "genesys-cloud", "microsoft-teams", "reference-memory"}
  BY DEF TheConnectors, Connectors
<1>. QED  BY <1>1, <1>2, CrawlTold

\* An extension that collapses is among the duplicate directory numbers.
LEMMA ReportedIsReported ==
  ASSUME NEW s, IsRows(s), CollapsesReported(s), NEW id \in Collapsed(s), id[1] = "Extension"
  PROVE  id[2][1] \in DuplicateNumbers(s)
<1>1. PICK k \in DOMAIN s, j \in DOMAIN s :
        id = IdOf(s[k]) /\ j < k /\ IdOf(s[j]) = IdOf(s[k])
  BY DEF Collapsed
<1>2. /\ s[k].kind = "Extension" /\ s[j].kind = "Extension" /\ s[j].key = s[k].key
      /\ id[2] = s[k].key
  BY <1>1 DEF IdOf, Id
<1>3. CASE j # k
  <2>1. TwoLines(s, s[k].key[1])
    BY <1>2, <1>3 DEF CollapsesReported
  <2>2. PICK m \in DOMAIN s, n \in DOMAIN s :
          /\ m # n
          /\ s[m].kind = "Line" /\ s[n].kind = "Line"
          /\ s[m].key[1] = s[k].key[1] /\ s[n].key[1] = s[k].key[1]
    BY <2>1 DEF TwoLines
  <2>3. s[m].key[1] \in DuplicateNumbers(s)
    BY <2>2 DEF DuplicateNumbers
  <2>. QED  BY <1>2, <2>2, <2>3
<1>4. j # k
  <2>1. DOMAIN s \subseteq Nat
    BY RowsFacts
  <2>2. \A m, n \in Nat : m < n => m # n
    OBVIOUS
  <2>. QED  BY <1>1, <2>1, <2>2
<1>. QED  BY <1>3, <1>4

\* The same of every report on a quiet job.
LEMMA CollapsedAreReported ==
  ASSUME TheConnectors, LogInv
  PROVE  CollapsedExtensionsAreReported
<1>. SUFFICES ASSUME NEW j \in Job, Quiet(j), NEW id \in Collapsed(Entities(j)),
                     id[1] = "Extension"
              PROVE  id[2][1] \in ReportOn(j).duplicate_directory_numbers
  BY DEF CollapsedExtensionsAreReported
<1>1. IsRows(Entities(j)) /\ CollapsesReported(Entities(j))
  BY QuietTold DEF Told
<1>2. id[2][1] \in DuplicateNumbers(Entities(j))
  BY <1>1, ReportedIsReported
<1>. QED  BY <1>2 DEF ReportOn, EstateReport

\* In a whole estate an orphan of the report goes by a mismatched key.
LEMMA DanglingExplained ==
  ASSUME TheConnectors, WholeEstate, LogInv
  PROVE  DanglingIsExplained
<1>. SUFFICES ASSUME NEW j \in Job, Quiet(j), NEW o \in ReportOn(j).orphans
              PROVE  <<ConnectorOf[j], o[1], o[2][1]>> \in KeyMismatches
  BY DEF DanglingIsExplained
<1>1. Explained(ConnectorOf[j], ToSet(Entities(j)))
  BY QuietTold DEF Told, WholeEstate
<1>2. o \in Orphans(Entities(j))
  BY DEF ReportOn, EstateReport
<1>3. PICK e, r : /\ e \in ToSet(Entities(j))
                  /\ o = <<e.kind, r>>
                  /\ r \in ReferencesOf(e)
                  /\ r \notin Ids(Entities(j))
  BY <1>2 DEF Orphans
<1>4. ~ \E x \in ToSet(Entities(j)) : r = IdOf(x)
  BY <1>3 DEF Ids
<1>5. <<ConnectorOf[j], e.kind, r[1]>> \in KeyMismatches
  BY <1>1, <1>3, <1>4 DEF Explained
<1>. QED  BY <1>3, <1>5

----------------------------------------------------------------------------
\* Every snapshot a collector stores is the assembly of one crawl: the calls of
\* the script in order, each with what the source answered in a version seen or
\* a refusal the connector tolerates. Faults, retries and crashes leave no other
\* trace in it (collector/agent.py, run_discovery).
THEOREM SnapshotsAreCrawls == Spec => []LogInv
BY SpecLog

\* When the connectors are those of Crawl, a partition the report on a quiet crawl
\* calls unused is named by no object of the version crawled, and is in no
\* calling search space: it can be dropped (discovery/service.py).
THEOREM UnusedPartitionsCanBeDropped == TheConnectors => (Spec => []UnusedPartitionsAreUnused)
<1>. SUFFICES ASSUME TheConnectors PROVE Spec => []UnusedPartitionsAreUnused
  OBVIOUS
<1>1. LogInv => UnusedPartitionsAreUnused
  BY UnusedIsUnused
<1>. QED  BY <1>1, SpecLog, PTL

\* When the connectors are those of Crawl, extensions of one identity that a quiet
\* crawl lists twice, and a graph of entities would keep once, are always among
\* the duplicate directory numbers of its report.
THEOREM CollapsedExtensionsAreTold == TheConnectors => (Spec => []CollapsedExtensionsAreReported)
<1>. SUFFICES ASSUME TheConnectors PROVE Spec => []CollapsedExtensionsAreReported
  OBVIOUS
<1>1. LogInv => CollapsedExtensionsAreReported
  BY CollapsedAreReported
<1>. QED  BY <1>1, SpecLog, PTL

\* When the connectors are those of Crawl and the estates refer only to what they
\* hold, an orphan the report on a quiet crawl names is never a fault of the
\* estate: its reference goes by a key the connector gives the target otherwise.
THEOREM OrphansAreMismatches == TheConnectors /\ WholeEstate => (Spec => []DanglingIsExplained)
<1>. SUFFICES ASSUME TheConnectors, WholeEstate PROVE Spec => []DanglingIsExplained
  OBVIOUS
<1>1. LogInv => DanglingIsExplained
  BY DanglingExplained
<1>. QED  BY <1>1, SpecLog, PTL

=============================================================================
