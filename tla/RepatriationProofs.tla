------------------------- MODULE RepatriationProofs -------------------------
(***************************************************************************)
(* A repatriation, for any number of orders, numbers, users and plans.     *)
(*                                                                         *)
(* The port orders: what coexistence routing is told of a cutover is so,   *)
(* whatever way an order took through its states.  The property speaks of  *)
(* sets of numbers; what is inductive is the flag of each order: set while *)
(* the order is being cut over, cleared when it is completed.  Neither     *)
(* half follows from the last step alone: the flag of a completed order    *)
(* was cleared when it left IN_CUTOVER.                                    *)
(*                                                                         *)
(* The plans applied to the tenant: no ConnectorError breaks off a run     *)
(* with a receipt, and what its report counts as done is in place,         *)
(* although the tenant loses and delays what it accepted.  Inductive is    *)
(* that the run's requests are the only ones under way.                    *)
(*                                                                         *)
(* The two next to one another: neither disturbs the other.                *)
(*                                                                         *)
(* Last, the dial plan: a repatriation's other half, which shares no state *)
(* with these.                                                             *)
(***************************************************************************)
EXTENDS Repatriation, DirectRouting, NaturalsInduction, WellFoundedInduction,
        FiniteSetTheorems, SequenceTheorems, TLAPS

FlagFollowsCutover ==
    \A o \in PortOrder :
        /\ orders[o].state = "IN_CUTOVER" => orders[o].dual_homed
        /\ orders[o].state = "COMPLETED" => ~orders[o].dual_homed

PortingInv == PortingTypeOK /\ FlagFollowsCutover

-----------------------------------------------------------------------------
\* transition() keeps a record a record and sets the flag by the state reached.
LEMMA TransitionedRecord ==
    ASSUME NEW r \in PortingRecord, NEW to \in PortOrderState
    PROVE  /\ Transitioned(r, to) \in PortingRecord
           /\ Transitioned(r, to).state = to
           /\ to = "IN_CUTOVER" => Transitioned(r, to).dual_homed
           /\ to = "COMPLETED" => ~Transitioned(r, to).dual_homed
BY DEF Transitioned, PortingRecord

LEMMA InitPorting == PortingInit => PortingInv
<1>. SUFFICES ASSUME PortingInit PROVE PortingInv
  OBVIOUS
<1>1. \A o \in PortOrder : /\ orders[o] \in PortingRecord
                           /\ orders[o].state = "DRAFT"
  BY DEF PortingInit, PortingRecord, PortOrderState
<1>2. PortingTypeOK
  BY <1>1, PortingAssumption DEF PortingInit, PortingTypeOK
<1>3. FlagFollowsCutover
  BY <1>1 DEF FlagFollowsCutover
<1>. QED  BY <1>2, <1>3 DEF PortingInv

\* A transition and an amendment touch one order each; the amendment neither
\* its state nor its flag.
LEMMA StepPorting == PortingInv /\ [PortingNext]_portingVars => PortingInv'
<1>. SUFFICES ASSUME PortingInv, [PortingNext]_portingVars PROVE PortingInv'
  OBVIOUS
<1>. USE DEF PortingInv
<1>1. ASSUME NEW o \in PortOrder, NEW to \in PortOrderState, Transition(o, to)
      PROVE  PortingInv'
  <2>1. /\ orders' = [orders EXCEPT ![o] = Transitioned(orders[o], to)]
        /\ amendments' = amendments
    BY <1>1 DEF Transition
  <2>2. orders[o] \in PortingRecord
    BY DEF PortingTypeOK
  <2>3. \A p \in PortOrder :
            orders'[p] = IF p = o THEN Transitioned(orders[o], to) ELSE orders[p]
    BY <2>1 DEF PortingTypeOK
  <2>4. PortingTypeOK'
    BY <2>1, <2>2, TransitionedRecord DEF PortingTypeOK
  <2>5. FlagFollowsCutover'
    BY <2>2, <2>3, TransitionedRecord DEF FlagFollowsCutover
  <2>. QED  BY <2>4, <2>5
<1>2. ASSUME NEW o \in PortOrder, NEW field \in {"csr", "loa", "foc"},
             Amend(o, field)
      PROVE  PortingInv'
  <2>1. /\ orders' = [orders EXCEPT ![o] = [orders[o] EXCEPT ![field] = TRUE]]
        /\ amendments' = amendments + 1 /\ amendments < MaxAmendments
    BY <1>2 DEF Amend
  <2>2. orders[o] \in PortingRecord
    BY DEF PortingTypeOK
  <2>3. LET r == [orders[o] EXCEPT ![field] = TRUE] IN
            /\ r \in PortingRecord
            /\ r.state = orders[o].state /\ r.dual_homed = orders[o].dual_homed
    BY <2>2 DEF PortingRecord
  <2>4. PortingTypeOK'
    BY <2>1, <2>3, PortingAssumption DEF PortingTypeOK
  <2>5. FlagFollowsCutover'
    BY <2>1, <2>3 DEF FlagFollowsCutover, PortingTypeOK
  <2>. QED  BY <2>4, <2>5
<1>3. CASE UNCHANGED portingVars
  BY <1>3 DEF portingVars, PortingTypeOK, FlagFollowsCutover
<1>. QED  BY <1>1, <1>2, <1>3 DEF PortingNext

LEMMA InvImpliesDualHomed == PortingInv => CutoverIsDualHomed
<1>. SUFFICES ASSUME PortingInv, NEW o \in PortOrder
              PROVE  /\ orders[o].state = "IN_CUTOVER"
                            => NumbersOf[o] \subseteq NumbersInFlight
                     /\ orders[o].state = "COMPLETED" =>
                            \A n \in NumbersOf[o] \cap NumbersInFlight :
                                \E p \in PortOrder \ {o} :
                                    n \in NumbersOf[p] /\ orders[p].dual_homed
  BY DEF CutoverIsDualHomed
<1>1. ASSUME orders[o].state = "IN_CUTOVER"
      PROVE  NumbersOf[o] \subseteq NumbersInFlight
  <2>1. o \in {p \in PortOrder : orders[p].dual_homed}
    BY <1>1 DEF PortingInv, FlagFollowsCutover
  <2>. QED  BY <2>1 DEF NumbersInFlight
<1>2. ASSUME orders[o].state = "COMPLETED", NEW n \in NumbersOf[o] \cap NumbersInFlight
      PROVE  \E p \in PortOrder \ {o} : n \in NumbersOf[p] /\ orders[p].dual_homed
  <2>1. PICK p \in PortOrder : orders[p].dual_homed /\ n \in NumbersOf[p]
    BY <1>2 DEF NumbersInFlight
  <2>2. p # o
    BY <1>2, <2>1 DEF PortingInv, FlagFollowsCutover
  <2>. QED  BY <2>1, <2>2
<1>. QED  BY <1>1, <1>2

-----------------------------------------------------------------------------
\* Port orders on their own: coexistence routing has every number that is being
\* cut over, of those an order lists, and drops the numbers of completed orders
\* (transition, numbers_in_flight).
THEOREM PortingTheorem == PortingSpec => [](PortingTypeOK /\ CutoverIsDualHomed)
<1>1. PortingInv => PortingTypeOK /\ CutoverIsDualHomed
  BY InvImpliesDualHomed DEF PortingInv
<1>. QED  BY InitPorting, StepPorting, <1>1, PTL DEF PortingSpec

-----------------------------------------------------------------------------
(***************************************************************************)
(* The plans that are applied to the tenant.  A run goes on only with a    *)
(* receipt, and a receipt is only given to plans without a conflict, so no *)
(* preview of the run raises a ConnectorError; and a run that started with *)
(* nothing under way has only its own requests ahead of it, so what it     *)
(* confirmed can only be written over by an operation on the same number.  *)
(***************************************************************************)
Result == {"PENDING", "SUCCEEDED", "SKIPPED_NO_CHANGE", "QUARANTINED",
           "BLOCKED_BY_DEPENDENCY"}
Running == pc \in {"next", "write", "confirm"}

\* The run in progress is one of the plan the receipt covers.
RunOfThePlan ==
    /\ status \in Seq(Result)
    /\ Running => /\ outcome = "running" /\ receipt
                  /\ Len(status) = Len(plan) /\ at \in 1..Len(plan) + 1
    /\ pc \in {"write", "confirm"} => at \in 1..Len(plan)
    /\ pc = "undo" => outcome \in {"undoing", "undoing-failed"}

ReceiptMeansNoConflict ==
    receipt => \A i \in DOMAIN plan : ~Conflict(plan[i])

\* The tenant accepts no licence for nobody.
AcceptedLicencesHaveUsers ==
    \A k \in DOMAIN pending :
        pending[k].kind = "LicenseAssignment" => pending[k].principal # Nobody

\* An operation is where the plan put it, if nothing else in the plan is about
\* its number.
InPlace(i) ==
    /\ plan[i].kind = "LicenseAssignment" => plan[i].principal \in tenant.seats
    /\ plan[i].kind = "E164Number"
       /\ (\A j \in DOMAIN plan : j # i => plan[j].object # plan[i].object)
          => tenant.holder[plan[i].object] = plan[i].principal

\* A run that started with nothing under way, until something else is begun.
OnItsOwn == outcome \in {"running", "reported"} /\ quiet
OwnRequests ==
    OnItsOwn => \A k \in DOMAIN pending : \E j \in DOMAIN plan : pending[k] = plan[j]
OwnResults ==
    OnItsOwn => /\ Len(status) = Len(plan)
                /\ \A i \in DOMAIN status : status[i] = "SUCCEEDED" => InPlace(i)

TeamsInv ==
    /\ TeamsTypeOK /\ RunOfThePlan /\ ReceiptMeansNoConflict
    /\ PreviewedPlansRunThrough
    /\ AcceptedLicencesHaveUsers /\ OwnRequests /\ OwnResults

-----------------------------------------------------------------------------
\* Operations, and what becomes of them.
LEMMA OperationFields ==
    ASSUME NEW X, NEW o \in Operation(X)
    PROVE  /\ o.kind \in Kind /\ o.principal \in User \cup {Nobody}
           /\ o.kind = "E164Number" => o.object \in Number
BY DEF Operation

LEMMA OperationWidens ==
    ASSUME NEW X, NEW Y, X \subseteq Y, NEW o \in Operation(X)
    PROVE  o \in Operation(Y)
BY DEF Operation

LEMMA ShortSeqs ==
    ASSUME NEW T, NEW e \in T
    PROVE  <<e>> \in Seq(T) /\ <<>> \in Seq(T)
OBVIOUS

LEMMA UpdatedSeq ==
    ASSUME NEW T, NEW q \in Seq(T), NEW i, NEW e \in T
    PROVE  [q EXCEPT ![i] = e] \in Seq(T) /\ Len([q EXCEPT ![i] = e]) = Len(q)
<1>1. q \in [1..Len(q) -> T] /\ Len(q) \in Nat
  OBVIOUS
<1>2. [q EXCEPT ![i] = e] \in [1..Len(q) -> T]
  BY <1>1
<1>. QED  BY <1>1, <1>2

LEMMA InverseType ==
    ASSUME NEW X, NEW o \in Operation(X)
    PROVE  InverseOf(o) \in Seq({p \in Operation({}) : p.verb = "UNASSIGN"})
<1>1. [o EXCEPT !.verb = "UNASSIGN", !.needs = {}]
          \in {p \in Operation({}) : p.verb = "UNASSIGN"}
  BY DEF Operation
<1>. DEFINE T == {p \in Operation({}) : p.verb = "UNASSIGN"}
<1>2. <<[o EXCEPT !.verb = "UNASSIGN", !.needs = {}]>> \in Seq(T) /\ <<>> \in Seq(T)
  <2>. HIDE DEF T
  <2>. QED  BY <1>1, ShortSeqs DEF T
<1>. QED  BY <1>2 DEF InverseOf

\* Provisioning a request gives seats and numbers, and takes away nothing but
\* the number it is about.
LEMMA EffectOf ==
    ASSUME NEW t \in Tenant, NEW o \in Operation(Nat),
           o.kind = "LicenseAssignment" => o.principal # Nobody
    PROVE  /\ Effect(o, t) \in Tenant
           /\ t.seats \subseteq Effect(o, t).seats
           /\ \A n \in Number :
                 \/ Effect(o, t).holder[n] = t.holder[n]
                 \/ /\ o.kind = "E164Number" /\ n = o.object
                    /\ Effect(o, t).holder[n] = o.principal
<1>1. CASE o.kind = "LicenseAssignment"
  <2>1. Effect(o, t) = [t EXCEPT !.seats = t.seats \cup {o.principal}]
    BY <1>1 DEF Effect
  <2>2. o.principal \in User
    BY <1>1, OperationFields
  <2>. QED  BY <2>1, <2>2 DEF Tenant
<1>2. CASE o.kind = "E164Number"
  <2>1. Effect(o, t) = [t EXCEPT !.holder[o.object] = o.principal]
    BY <1>2 DEF Effect
  <2>2. o.principal \in User \cup {Nobody} /\ o.object \in Number
    BY <1>2, OperationFields
  <2>. QED  BY <1>2, <2>1, <2>2 DEF Tenant
<1>3. CASE o.kind \notin {"LicenseAssignment", "E164Number"}
  <2>1. Effect(o, t) = [t EXCEPT !.policy = TRUE]
    BY <1>3 DEF Effect
  <2>. QED  BY <2>1 DEF Tenant
<1>. QED  BY <1>1, <1>2, <1>3

\* What the tenant has accepted is typed, and a licence of it has a user.
LEMMA Accepting ==
    ASSUME TeamsTypeOK, AcceptedLicencesHaveUsers, NEW o \in Operation(Nat),
           ~Refuses(o), Len(pending) < MaxPending, pending' = Append(pending, o)
    PROVE  /\ pending' \in Seq(Operation(Nat)) /\ Len(pending') <= MaxPending
           /\ AcceptedLicencesHaveUsers'
           /\ \A k \in DOMAIN pending' :
                 pending'[k] = o \/ \E j \in DOMAIN pending : pending'[k] = pending[j]
<1>1. pending \in Seq(Operation(Nat)) /\ MaxPending \in Nat
  BY TeamsAssumption DEF TeamsTypeOK
<1>2. /\ pending' \in Seq(Operation(Nat)) /\ Len(pending') = Len(pending) + 1
      /\ \A k \in 1..Len(pending) : pending'[k] = pending[k]
      /\ pending'[Len(pending) + 1] = o
  BY <1>1
<1>3. Len(pending) \in Nat /\ Len(pending') <= MaxPending
  BY <1>1, <1>2
<1>4. o.kind = "LicenseAssignment" => o.principal # Nobody
  BY DEF Refuses
<1>5. \A k \in DOMAIN pending' :
          \/ k = Len(pending) + 1
          \/ k \in DOMAIN pending /\ pending'[k] = pending[k]
  BY <1>1, <1>2, <1>3
<1>6. AcceptedLicencesHaveUsers'
  BY <1>2, <1>4, <1>5 DEF AcceptedLicencesHaveUsers
<1>. QED  BY <1>2, <1>3, <1>5, <1>6

\* A reclaim plan is a plan like another: SetToSeq numbers a finite set.
LEMMA SetToSeqType ==
    ASSUME NEW S, IsFiniteSet(S)
    PROVE  SetToSeq(S) \in Seq(S)
<1>1. /\ Cardinality(S) \in Nat
      /\ \E f \in [1..Cardinality(S) -> S] : IsInjective(f)
  BY FS_CardinalityType DEF ExistsBijection, Bijection, Injection
<1>2. SetToSeq(S) \in [1..Cardinality(S) -> S]
  BY <1>1 DEF SetToSeq
<1>. QED  BY <1>1, <1>2

LEMMA ReclaimPlanType ==
    ASSUME NEW m
    PROVE  ReclaimPlan(m) \in Seq(Operation(1..Len(ReclaimPlan(m))))
<1>. DEFINE ids     == MigratedIds(m)
            numbers == SetToSeq({n \in Number : tenant.holder[n] \in ids})
            seats   == SetToSeq(tenant.seats \cap ids)
            all     == Len(numbers) + Len(seats)
            Step(kind, object, i) ==
               [kind |-> kind, verb |-> "UNASSIGN", principal |-> Nobody,
                object |-> object, needs |-> IF i = 1 THEN {} ELSE {i - 1}]
<1>1. ids \subseteq User
  BY TeamsAssumption DEF MigratedIds
<1>2. numbers \in Seq(Number)
  <2>1. IsFiniteSet({n \in Number : tenant.holder[n] \in ids})
    BY TeamsAssumption, FS_Subset
  <2>2. numbers \in Seq({n \in Number : tenant.holder[n] \in ids})
    BY <2>1, SetToSeqType
  <2>. QED  BY <2>2
<1>3. seats \in Seq(User)
  <2>1. IsFiniteSet(tenant.seats \cap ids)
    BY <1>1, TeamsAssumption, FS_Subset
  <2>2. seats \in Seq(tenant.seats \cap ids)
    BY <2>1, SetToSeqType
  <2>. QED  BY <1>1, <2>2
<1>4. PICK n \in Nat : n = all
  <2>1. Len(numbers) \in Nat /\ Len(seats) \in Nat
    <3>. HIDE DEF numbers, seats
    <3>. QED  BY <1>2, <1>3
  <2>2. all \in Nat
    <3>. HIDE DEF numbers, seats
    <3>. QED  BY <2>1
  <2>. QED  BY <2>2
<1>5. ReclaimPlan(m) = [i \in 1..n |->
          IF i <= Len(numbers) THEN Step("E164Number", numbers[i], i)
          ELSE Step("LicenseAssignment", "no-sku", i)]
  BY <1>4 DEF ReclaimPlan
<1>6. ASSUME NEW i \in 1..n
      PROVE  /\ \A x \in Number : Step("E164Number", x, i) \in Operation(1..n)
             /\ Step("LicenseAssignment", "no-sku", i) \in Operation(1..n)
  <2>. DEFINE before == IF i = 1 THEN {} ELSE {i - 1}
  <2>1. i = 1 \/ i - 1 \in 1..n
    OBVIOUS
  <2>2. before \in SUBSET (1..n)
    BY <2>1
  <2>. HIDE DEF before
  <2>3. /\ \A x \in Number :
               [kind |-> "E164Number", verb |-> "UNASSIGN", principal |-> Nobody,
                object |-> x, needs |-> before] \in Operation(1..n)
        /\ [kind |-> "LicenseAssignment", verb |-> "UNASSIGN",
            principal |-> Nobody, object |-> "no-sku", needs |-> before]
                \in Operation(1..n)
    BY <2>2 DEF Operation, Kind
  <2>. QED  BY <2>3 DEF before
<1>7. ASSUME NEW i \in 1..n
      PROVE  (IF i <= Len(numbers) THEN Step("E164Number", numbers[i], i)
              ELSE Step("LicenseAssignment", "no-sku", i)) \in Operation(1..n)
  <2>. HIDE DEF Step, numbers
  <2>1. i <= Len(numbers) => numbers[i] \in Number
    BY <1>2
  <2>. QED  BY <1>6, <2>1
<1>8. ReclaimPlan(m) \in [1..n -> Operation(1..n)]
  <2>. HIDE DEF Step, numbers
  <2>. QED  BY <1>5, <1>7
<1>9. ReclaimPlan(m) \in Seq(Operation(1..n)) /\ Len(ReclaimPlan(m)) = n
  <2>. DEFINE T == Operation(1..n)
              r == ReclaimPlan(m)
  <2>. HIDE DEF T, r
  <2>1. r \in [1..n -> T]
    BY <1>8 DEF T, r
  <2>2. r \in Seq(T) /\ Len(r) = n
    BY <2>1
  <2>. QED  BY <2>2 DEF T, r
<1>. QED  BY <1>9

-----------------------------------------------------------------------------
\* The sequences of a session, spelled out for the steps below.
LEMMA Shapes ==
    ASSUME TeamsInv
    PROVE  /\ Len(plan) \in Nat /\ Len(status) \in Nat /\ Len(pending) \in Nat
           /\ DOMAIN plan = 1..Len(plan) /\ DOMAIN status = 1..Len(status)
           /\ MaxAttempts \in Nat \ {0} /\ MaxPending \in Nat
           /\ at \in Nat \ {0} /\ tries \in Nat
           /\ \A i \in 1..Len(plan) : plan[i] \in Operation(Nat)
<1>1. /\ plan \in Seq(Operation(1..Len(plan))) /\ status \in Seq(Result)
      /\ pending \in Seq(Operation(Nat))
  BY DEF TeamsInv, TeamsTypeOK, RunOfThePlan
<1>2. /\ Len(plan) \in Nat /\ Len(status) \in Nat /\ Len(pending) \in Nat
      /\ DOMAIN plan = 1..Len(plan) /\ DOMAIN status = 1..Len(status)
  BY <1>1
<1>3. at \in Nat \ {0} /\ tries \in Nat /\ MaxAttempts \in Nat \ {0}
  BY <1>2, TeamsAssumption DEF TeamsInv, TeamsTypeOK
<1>4. ASSUME NEW i \in 1..Len(plan) PROVE plan[i] \in Operation(Nat)
  <2>1. plan[i] \in Operation(1..Len(plan))
    BY <1>1
  <2>2. 1..Len(plan) \subseteq Nat
    BY <1>2
  <2>. QED  BY <2>1, <2>2, OperationWidens
<1>. QED  BY <1>2, <1>3, <1>4, TeamsAssumption

\* What a step that leaves plan and tenant alone, and adds to what is under way
\* at most the operation at hand, keeps of the run's own requests.
LEMMA RequestsOfTheRun ==
    ASSUME TeamsInv, Running, at <= Len(plan),
           UNCHANGED <<plan, quiet, outcome>>,
           \/ UNCHANGED pending
           \/ /\ ~Refuses(Current) /\ Len(pending) < MaxPending
              /\ pending' = Append(pending, Current)
    PROVE  /\ pending' \in Seq(Operation(Nat)) /\ Len(pending') <= MaxPending
           /\ AcceptedLicencesHaveUsers' /\ OwnRequests'
<1>1. CASE UNCHANGED pending
  BY <1>1 DEF TeamsInv, TeamsTypeOK, AcceptedLicencesHaveUsers, OwnRequests,
              OnItsOwn
<1>2. CASE /\ ~Refuses(Current) /\ Len(pending) < MaxPending
           /\ pending' = Append(pending, Current)
  <2>1. at \in DOMAIN plan /\ Current \in Operation(Nat)
    BY Shapes DEF Current
  <2>2. /\ pending' \in Seq(Operation(Nat)) /\ Len(pending') <= MaxPending
        /\ AcceptedLicencesHaveUsers'
        /\ \A k \in DOMAIN pending' :
              \/ pending'[k] = Current
              \/ \E j \in DOMAIN pending : pending'[k] = pending[j]
    BY <1>2, <2>1, Accepting DEF TeamsInv
  <2>3. OwnRequests'
    <3>. SUFFICES ASSUME OnItsOwn, NEW k \in DOMAIN pending'
                  PROVE  \E j \in DOMAIN plan : pending'[k] = plan[j]
      BY DEF OwnRequests, OnItsOwn
    <3>1. CASE pending'[k] = Current
      BY <2>1, <3>1 DEF Current
    <3>2. CASE \E j \in DOMAIN pending : pending'[k] = pending[j]
      BY <3>2 DEF TeamsInv, OwnRequests
    <3>. QED  BY <2>2, <3>1, <3>2
  <2>. QED  BY <2>2, <2>3
<1>. QED  BY <1>1, <1>2

\* An operation is settled, and is in place if it counts as succeeded.
LEMMA SettledStep ==
    ASSUME TeamsInv, Running, at <= Len(plan), NEW s \in Result, Settled(s),
           s = "SUCCEEDED" => InPlace(at),
           UNCHANGED tenant,
           \/ UNCHANGED pending
           \/ /\ ~Refuses(Current) /\ Len(pending) < MaxPending
              /\ pending' = Append(pending, Current)
    PROVE  TeamsInv'
<1>1. /\ status' = [status EXCEPT ![at] = s]
      /\ bundle' = IF s = "SUCCEEDED" THEN InverseOf(Current) \o bundle ELSE bundle
      /\ pc' = "next" /\ at' = at + 1 /\ tries' = 0
      /\ UNCHANGED <<plan, receipt, undone, runs, quiet, outcome>>
  BY DEF Settled
<1>2. /\ outcome = "running" /\ receipt
      /\ Len(status) = Len(plan) /\ status \in Seq(Result)
  BY DEF TeamsInv, RunOfThePlan
<1>3. status' \in Seq(Result) /\ Len(status') = Len(plan)
  BY <1>1, <1>2, UpdatedSeq
<1>4. \A i \in 1..Len(plan) : status'[i] = IF i = at THEN s ELSE status[i]
  BY <1>1, <1>2
<1>5. at \in 1..Len(plan) /\ at' \in 1..Len(plan) + 1
  BY <1>1, Shapes
<1>6. /\ pending' \in Seq(Operation(Nat)) /\ Len(pending') <= MaxPending
      /\ AcceptedLicencesHaveUsers' /\ OwnRequests'
  <2>1. UNCHANGED <<plan, quiet, outcome>>
    BY <1>1
  <2>. QED  BY <2>1, RequestsOfTheRun
<1>7. bundle' \in Seq({o \in Operation({}) : o.verb = "UNASSIGN"})
  <2>. DEFINE T == {o \in Operation({}) : o.verb = "UNASSIGN"}
  <2>1. bundle \in Seq(T)
    BY DEF TeamsInv, TeamsTypeOK
  <2>2. InverseOf(Current) \in Seq(T)
    <3>1. Current \in Operation(Nat)
      BY <1>5, Shapes DEF Current
    <3>. QED  BY <3>1, InverseType
  <2>. HIDE DEF T
  <2>3. bundle' \in Seq(T)
    BY <1>1, <2>1, <2>2, ConcatProperties
  <2>. QED  BY <2>3 DEF T
<1>8. TeamsTypeOK'
  <2>1. 0 \in 0..MaxAttempts - 1
    BY Shapes
  <2>2. /\ tenant' \in Tenant /\ plan' \in Seq(Operation(1..Len(plan')))
        /\ receipt' \in BOOLEAN
    BY <1>1 DEF TeamsInv, TeamsTypeOK
  <2>3. pc' \in {"idle", "next", "write", "confirm", "undo"}
    BY <1>1
  <2>4. at' \in 1..Len(status') + 1 /\ tries' \in 0..MaxAttempts - 1
    BY <1>1, <1>3, <1>5, <2>1
  <2>. QED  BY <1>6, <1>7, <2>2, <2>3, <2>4 DEF TeamsTypeOK
<1>9. RunOfThePlan'
  BY <1>1, <1>2, <1>3, <1>5 DEF RunOfThePlan, Running
<1>10. ReceiptMeansNoConflict' /\ PreviewedPlansRunThrough'
  BY <1>1 DEF TeamsInv, ReceiptMeansNoConflict, PreviewedPlansRunThrough
<1>11. OwnResults'
  <2>. SUFFICES ASSUME OnItsOwn, NEW i \in 1..Len(plan), status'[i] = "SUCCEEDED"
                PROVE  InPlace(i)'
    BY <1>1, <1>3 DEF OwnResults, OnItsOwn
  <2>1. InPlace(i)
    <3>1. CASE i = at
      BY <1>4, <3>1
    <3>2. CASE i # at
      <4>1. i \in DOMAIN status /\ status[i] = "SUCCEEDED"
        BY <1>2, <1>4, <3>2, Shapes
      <4>. QED  BY <4>1 DEF TeamsInv, OwnResults
    <3>. QED  BY <3>1, <3>2
  <2>. QED  BY <1>1, <2>1 DEF InPlace
<1>. QED  BY <1>6, <1>8, <1>9, <1>10, <1>11 DEF TeamsInv

\* What moves only the position in the run, or starts, ends and undoes one.
LEMMA InitTeams == TeamsInit => TeamsInv
<1>. SUFFICES ASSUME TeamsInit PROVE TeamsInv
  OBVIOUS
<1>1. /\ tenant \in Tenant
      /\ pending = <<>> /\ plan = <<>> /\ status = <<>> /\ bundle = <<>>
      /\ receipt = FALSE /\ pc = "idle" /\ at = 1 /\ tries = 0 /\ outcome = "none"
  BY DEF TeamsInit
<1>2. 1 \in 1..Len(<<>>) + 1 /\ 0 \in 0..MaxAttempts - 1 /\ Len(<<>>) <= MaxPending
  BY TeamsAssumption
<1>3. TeamsTypeOK
  <2>1. /\ <<>> \in Seq(Operation(Nat))
        /\ <<>> \in Seq(Operation(1..Len(<<>>)))
        /\ <<>> \in Seq({o \in Operation({}) : o.verb = "UNASSIGN"})
    OBVIOUS
  <2>. QED  BY <1>1, <1>2, <2>1 DEF TeamsTypeOK
<1>4. RunOfThePlan
  BY <1>1 DEF RunOfThePlan, Running
<1>. QED  BY <1>1, <1>3, <1>4
          DEF TeamsInv, ReceiptMeansNoConflict, PreviewedPlansRunThrough,
              AcceptedLicencesHaveUsers, OwnRequests, OwnResults, OnItsOwn

LEMMA SetPlanStep ==
    ASSUME TeamsInv, NEW p, p \in Seq(Operation(1..Len(p))), SetPlan(p)
    PROVE  TeamsInv'
<1>1. /\ pc = "idle" /\ plan' = p /\ receipt' = FALSE
      /\ status' = <<>> /\ at' = 1 /\ outcome' = "planned"
      /\ UNCHANGED <<tenant, pending, pc, tries, bundle, undone, runs, quiet>>
  BY DEF SetPlan
<1>2. TeamsTypeOK'
  <2>1. 1 \in 1..Len(<<>>) + 1
    OBVIOUS
  <2>2. /\ tenant' \in Tenant
        /\ pending' \in Seq(Operation(Nat)) /\ Len(pending') <= MaxPending
        /\ pc' \in {"idle", "next", "write", "confirm", "undo"}
        /\ tries' \in 0..MaxAttempts - 1
        /\ bundle' \in Seq({o \in Operation({}) : o.verb = "UNASSIGN"})
    BY <1>1 DEF TeamsInv, TeamsTypeOK
  <2>. QED  BY <1>1, <2>1, <2>2 DEF TeamsTypeOK
<1>3. RunOfThePlan'
  BY <1>1 DEF RunOfThePlan, Running
<1>. QED  BY <1>1, <1>2, <1>3
          DEF TeamsInv, ReceiptMeansNoConflict, PreviewedPlansRunThrough,
              AcceptedLicencesHaveUsers, OwnRequests, OwnResults, OnItsOwn

LEMMA DryRunStep ==
    ASSUME TeamsInv, NEW answer, DryRun(answer)
    PROVE  TeamsInv'
<1>1. /\ pc = "idle" /\ outcome' \in {"previewed", "not-previewed"}
      /\ receipt' = \A i \in DOMAIN plan :
                       ~PreviewRaises(plan[i], answer) /\ ~LicenceReadEscapes(plan[i], answer)
      /\ UNCHANGED <<tenant, pending, plan, pc, at, tries, status, bundle, undone,
                     runs, quiet>>
  BY DEF DryRun
<1>2. TeamsTypeOK'
  <2>1. receipt' \in BOOLEAN
    BY <1>1
  <2>. QED  BY <1>1, <2>1 DEF TeamsInv, TeamsTypeOK
<1>3. ReceiptMeansNoConflict'
  BY <1>1 DEF ReceiptMeansNoConflict, PreviewRaises
<1>4. RunOfThePlan'
  BY <1>1 DEF TeamsInv, RunOfThePlan, Running
<1>. QED  BY <1>1, <1>2, <1>3, <1>4
          DEF TeamsInv, PreviewedPlansRunThrough, AcceptedLicencesHaveUsers,
              OwnRequests, OwnResults, OnItsOwn

LEMMA StartStep == TeamsInv /\ Start => TeamsInv'
<1>. SUFFICES ASSUME TeamsInv, Start PROVE TeamsInv'
  OBVIOUS
<1>1. /\ receipt /\ pc' = "next" /\ at' = 1 /\ tries' = 0
      /\ status' = [i \in DOMAIN plan |-> "PENDING"]
      /\ bundle' = <<>> /\ quiet' = (pending = <<>>) /\ outcome' = "running"
      /\ UNCHANGED <<tenant, pending, plan, receipt>>
  BY DEF Start
<1>2. status' \in Seq(Result) /\ Len(status') = Len(plan)
  <2>1. status' \in [1..Len(plan) -> Result] /\ Len(plan) \in Nat
    BY <1>1, Shapes DEF Result
  <2>. QED  BY <2>1
<1>3. TeamsTypeOK'
  <2>1. 1 \in 1..Len(plan) + 1 /\ 0 \in 0..MaxAttempts - 1
    BY Shapes
  <2>2. at' \in 1..Len(status') + 1 /\ tries' \in 0..MaxAttempts - 1
    BY <1>1, <1>2, <2>1
  <2>3. bundle' \in Seq({o \in Operation({}) : o.verb = "UNASSIGN"})
    BY <1>1
  <2>4. pc' \in {"idle", "next", "write", "confirm", "undo"}
    BY <1>1
  <2>5. /\ tenant' \in Tenant
        /\ pending' \in Seq(Operation(Nat)) /\ Len(pending') <= MaxPending
        /\ plan' \in Seq(Operation(1..Len(plan'))) /\ receipt' \in BOOLEAN
    BY <1>1 DEF TeamsInv, TeamsTypeOK
  <2>. QED  BY <2>2, <2>3, <2>4, <2>5 DEF TeamsTypeOK
<1>4. RunOfThePlan'
  <2>1. 1 \in 1..Len(plan) + 1
    BY Shapes
  <2>. QED  BY <1>1, <1>2, <2>1 DEF RunOfThePlan, Running
<1>5. OwnRequests'
  <2>1. OnItsOwn' => pending' = <<>>
    BY <1>1 DEF OnItsOwn
  <2>2. DOMAIN <<>> = {}
    OBVIOUS
  <2>. QED  BY <2>1, <2>2 DEF OwnRequests
<1>6. OwnResults'
  <2>1. \A i \in DOMAIN status' : status'[i] # "SUCCEEDED"
    BY <1>1
  <2>. QED  BY <1>1, <1>2, <2>1 DEF OwnResults
<1>. QED  BY <1>1, <1>3, <1>4, <1>5, <1>6
          DEF TeamsInv, ReceiptMeansNoConflict, PreviewedPlansRunThrough,
              AcceptedLicencesHaveUsers

\* Within a run, what does not settle the operation at hand: the answer that
\* leads to the write or the confirmation, and one more attempt.
LEMMA WithinARun ==
    ASSUME TeamsInv, Running, at <= Len(plan),
           pc' \in {"write", "confirm"}, tries' \in 0..MaxAttempts - 1,
           UNCHANGED <<tenant, plan, receipt, at, status, bundle, quiet, outcome>>,
           \/ UNCHANGED pending
           \/ /\ ~Refuses(Current) /\ Len(pending) < MaxPending
              /\ pending' = Append(pending, Current)
    PROVE  TeamsInv'
<1>1. /\ pending' \in Seq(Operation(Nat)) /\ Len(pending') <= MaxPending
      /\ AcceptedLicencesHaveUsers' /\ OwnRequests'
  <2>1. UNCHANGED <<plan, quiet, outcome>>
    OBVIOUS
  <2>. QED  BY <2>1, RequestsOfTheRun
<1>2. TeamsTypeOK'
  BY <1>1 DEF TeamsInv, TeamsTypeOK
<1>3. RunOfThePlan'
  <2>1. at' \in 1..Len(plan')
    BY Shapes
  <2>2. at' \in 1..Len(plan') + 1
    BY <2>1, Shapes
  <2>3. /\ outcome' = "running" /\ receipt'
        /\ Len(status') = Len(plan') /\ status' \in Seq(Result)
    BY DEF TeamsInv, RunOfThePlan
  <2>4. pc' # "undo"
    OBVIOUS
  <2>. QED  BY <2>1, <2>2, <2>3, <2>4 DEF RunOfThePlan
<1>4. ReceiptMeansNoConflict' /\ PreviewedPlansRunThrough'
  BY DEF TeamsInv, ReceiptMeansNoConflict, PreviewedPlansRunThrough
<1>5. OwnResults'
  BY DEF TeamsInv, OwnResults, OnItsOwn, InPlace
<1>. QED  BY <1>1, <1>2, <1>3, <1>4, <1>5 DEF TeamsInv

\* An exception nobody foresaw ends the run; nothing is claimed of it then.
LEMMA EndsRunStep ==
    ASSUME TeamsInv, Running, at <= Len(plan), EndsRun("broken-off"),
           UNCHANGED tenant,
           \/ UNCHANGED pending
           \/ /\ ~Refuses(Current) /\ Len(pending) < MaxPending
              /\ pending' = Append(pending, Current)
    PROVE  TeamsInv'
<1>1. /\ pc' = "idle" /\ outcome' = "broken-off" /\ bundle' = <<>>
      /\ UNCHANGED <<plan, receipt, at, tries, status, undone, runs, quiet>>
  BY DEF EndsRun
<1>2. /\ pending' \in Seq(Operation(Nat)) /\ Len(pending') <= MaxPending
      /\ AcceptedLicencesHaveUsers'
  <2>1. CASE UNCHANGED pending
    BY <2>1 DEF TeamsInv, TeamsTypeOK, AcceptedLicencesHaveUsers
  <2>2. CASE /\ ~Refuses(Current) /\ Len(pending) < MaxPending
             /\ pending' = Append(pending, Current)
    <3>1. Current \in Operation(Nat)
      BY Shapes DEF Current
    <3>. QED  BY <2>2, <3>1, Accepting DEF TeamsInv
  <2>. QED  BY <2>1, <2>2
<1>3. TeamsTypeOK'
  <2>1. bundle' \in Seq({o \in Operation({}) : o.verb = "UNASSIGN"})
    BY <1>1
  <2>. QED  BY <1>1, <1>2, <2>1 DEF TeamsInv, TeamsTypeOK
<1>4. RunOfThePlan'
  BY <1>1 DEF TeamsInv, RunOfThePlan, Running
<1>5. ~OnItsOwn'
  BY <1>1 DEF OnItsOwn
<1>. QED  BY <1>1, <1>2, <1>3, <1>4, <1>5
          DEF TeamsInv, ReceiptMeansNoConflict, PreviewedPlansRunThrough,
              OwnRequests, OwnResults

LEMMA RunSteps ==
    ASSUME TeamsInv,
           \/ Block \/ Accepted \/ Rejected \/ ConfirmTimeout
           \/ \E answer \in Answer : Examine(answer) \/ Confirm(answer)
    PROVE  TeamsInv'
<1>1. pc \in {"write", "confirm"} => Running /\ at <= Len(plan)
  BY Shapes DEF TeamsInv, RunOfThePlan, Running
<1>2. pc = "next" => Running
  BY DEF Running
<1>3. tries \in 0..MaxAttempts - 1
  BY DEF TeamsInv, TeamsTypeOK
<1>4. CASE Block
  <2>1. /\ Running /\ at <= Len(plan) /\ Settled("BLOCKED_BY_DEPENDENCY")
        /\ UNCHANGED <<tenant, pending>>
    BY <1>2, <1>4 DEF Block
  <2>. QED  BY <2>1, SettledStep DEF Result
<1>5. ASSUME NEW answer, Examine(answer) PROVE TeamsInv'
  <2>1. Running /\ at <= Len(plan) /\ UNCHANGED <<tenant, pending>>
    BY <1>2, <1>5 DEF Examine
  <2>2. ~PreviewRaises(Current, answer)
    <3>1. receipt /\ at \in DOMAIN plan
      BY <2>1, Shapes DEF TeamsInv, RunOfThePlan
    <3>. QED  BY <3>1 DEF TeamsInv, ReceiptMeansNoConflict, PreviewRaises, Current
  <2>3. CASE Settled("SKIPPED_NO_CHANGE")
    BY <2>1, <2>3, SettledStep DEF Result
  <2>4. CASE /\ pc' = "write"
             /\ UNCHANGED <<plan, receipt, at, tries, status, bundle, undone, runs,
                            quiet, outcome>>
    <3>1. /\ pc' \in {"write", "confirm"} /\ tries' \in 0..MaxAttempts - 1
          /\ UNCHANGED <<tenant, plan, receipt, at, status, bundle, quiet, outcome>>
          /\ UNCHANGED pending
      BY <1>3, <2>1, <2>4
    <3>. QED  BY <2>1, <3>1, WithinARun
  <2>5. CASE EndsRun("broken-off")
    BY <2>1, <2>5, EndsRunStep
  <2>. QED  BY <1>5, <2>2, <2>3, <2>4, <2>5 DEF Examine
<1>6. CASE Accepted
  <2>1. /\ pc = "write" /\ ~Refuses(Current) /\ Len(pending) < MaxPending
        /\ pending' = Append(pending, Current) /\ UNCHANGED tenant
    BY <1>6 DEF Accepted
  <2>2. CASE /\ pc' = "confirm"
             /\ UNCHANGED <<plan, receipt, at, tries, status, bundle, undone, runs,
                            quiet, outcome>>
    <3>1. /\ pc' \in {"write", "confirm"} /\ tries' \in 0..MaxAttempts - 1
          /\ UNCHANGED <<tenant, plan, receipt, at, status, bundle, quiet, outcome>>
      BY <1>3, <2>1, <2>2
    <3>. QED  BY <1>1, <2>1, <3>1, WithinARun
  <2>3. CASE Current.kind \notin ConfirmKinds /\ Settled("SUCCEEDED")
    <3>1. InPlace(at)
      BY <2>3 DEF InPlace, Current, ConfirmKinds
    <3>2. "SUCCEEDED" \in Result
      BY DEF Result
    <3>. QED  BY <1>1, <2>1, <2>3, <3>1, <3>2, SettledStep
  <2>4. CASE /\ tries + 1 < MaxAttempts /\ tries' = tries + 1
             /\ UNCHANGED <<plan, receipt, pc, at, status, bundle, undone, runs,
                            quiet, outcome>>
    <3>1. tries' \in 0..MaxAttempts - 1
      BY <2>4, Shapes
    <3>2. /\ pc' \in {"write", "confirm"}
          /\ UNCHANGED <<tenant, plan, receipt, at, status, bundle, quiet, outcome>>
      BY <2>1, <2>4
    <3>. QED  BY <1>1, <2>1, <3>1, <3>2, WithinARun
  <2>5. CASE Settled("QUARANTINED")
    BY <1>1, <2>1, <2>5, SettledStep DEF Result
  <2>6. CASE EndsRun("broken-off")
    BY <1>1, <2>1, <2>6, EndsRunStep
  <2>. QED  BY <1>6, <2>2, <2>3, <2>4, <2>5, <2>6 DEF Accepted
<1>7. CASE Rejected
  <2>1. pc = "write" /\ UNCHANGED <<tenant, pending>>
    BY <1>7 DEF Rejected
  <2>2. CASE Settled("QUARANTINED")
    BY <1>1, <2>1, <2>2, SettledStep DEF Result
  <2>3. CASE /\ tries + 1 < MaxAttempts /\ tries' = tries + 1
             /\ UNCHANGED <<plan, receipt, pc, at, status, bundle, undone, runs,
                            quiet, outcome>>
    <3>1. tries' \in 0..MaxAttempts - 1
      BY <2>3, Shapes
    <3>2. /\ pc' \in {"write", "confirm"}
          /\ UNCHANGED <<tenant, plan, receipt, at, status, bundle, quiet, outcome>>
          /\ UNCHANGED pending
      BY <2>1, <2>3
    <3>. QED  BY <1>1, <2>1, <3>1, <3>2, WithinARun
  <2>4. CASE EndsRun("broken-off")
    BY <1>1, <2>1, <2>4, EndsRunStep
  <2>. QED  BY <1>7, <2>2, <2>3, <2>4 DEF Rejected
<1>8. ASSUME NEW answer, Confirm(answer) PROVE TeamsInv'
  <2>1. pc = "confirm" /\ UNCHANGED <<tenant, pending>>
    BY <1>8 DEF Confirm
  <2>2. CASE Confirms(Current, answer) /\ Settled("SUCCEEDED")
    <3>1. InPlace(at)
      BY <2>2 DEF Confirms, InPlace, Current, Licensed, Holder
    <3>. QED  BY <1>1, <2>1, <2>2, <3>1, SettledStep DEF Result
  <2>3. CASE EndsRun("broken-off")
    BY <1>1, <2>1, <2>3, EndsRunStep
  <2>. QED  BY <1>8, <2>2, <2>3 DEF Confirm
<1>9. CASE ConfirmTimeout
  <2>1. /\ pc = "confirm" /\ Settled("QUARANTINED")
        /\ UNCHANGED <<tenant, pending>>
    BY <1>9 DEF ConfirmTimeout
  <2>. QED  BY <1>1, <2>1, SettledStep DEF Result
<1>. QED  BY <1>4, <1>5, <1>6, <1>7, <1>8, <1>9

\* The end of a run, and its rollback: from here on nothing is claimed of the
\* run any more but what its report said.
LEMMA EndSteps ==
    ASSUME TeamsInv, Report \/ Rollback \/ RollbackDone
    PROVE  TeamsInv'
<1>1. /\ UNCHANGED <<tenant, pending, plan, receipt, at, tries, status, bundle,
                     undone, runs, quiet>>
      /\ \/ pc = "next" /\ pc' = "idle" /\ outcome' = "reported"
         \/ pc = "idle" /\ pc' = "undo" /\ outcome' = "undoing"
         \/ /\ pc = "undo" /\ pc' = "idle"
            /\ outcome' \in {"ROLLED_BACK", "COMPLETED_WITH_FAILURES"}
  BY DEF Report, Rollback, RollbackDone
<1>2. TeamsTypeOK'
  BY <1>1 DEF TeamsInv, TeamsTypeOK
<1>3. RunOfThePlan'
  BY <1>1 DEF TeamsInv, RunOfThePlan, Running
<1>4. /\ ReceiptMeansNoConflict' /\ PreviewedPlansRunThrough'
      /\ AcceptedLicencesHaveUsers'
  BY <1>1 DEF TeamsInv, ReceiptMeansNoConflict, PreviewedPlansRunThrough,
              AcceptedLicencesHaveUsers
<1>5. CASE Report
  \* a report is of a run, which was on its own if it is
  <2>1. outcome' = "reported" /\ pc = "next" /\ Running
    BY <1>5 DEF Report, Running
  <2>2. OnItsOwn' => OnItsOwn
    BY <1>1, <2>1 DEF OnItsOwn, TeamsInv, RunOfThePlan
  <2>. QED  BY <1>1, <1>2, <1>3, <1>4, <2>2
            DEF TeamsInv, OwnRequests, OwnResults, InPlace
<1>6. CASE outcome' # "reported"
  <2>1. ~OnItsOwn'
    BY <1>1, <1>6 DEF OnItsOwn
  <2>. QED  BY <1>2, <1>3, <1>4, <2>1 DEF TeamsInv, OwnRequests, OwnResults
<1>. QED  BY <1>5, <1>6 DEF Rollback, RollbackDone

\* An inverse operation is asked for; the report no longer counts.
LEMMA UndoStep == TeamsInv /\ UndoOne => TeamsInv'
<1>. SUFFICES ASSUME TeamsInv, UndoOne PROVE TeamsInv'
  OBVIOUS
<1>. DEFINE T == {o \in Operation({}) : o.verb = "UNASSIGN"}
<1>1. /\ pc = "undo" /\ bundle # <<>> /\ bundle' = Tail(bundle)
      /\ UNCHANGED <<tenant, plan, receipt, pc, at, tries, status, runs, quiet>>
      /\ \/ /\ ~Refuses(Head(bundle)) /\ Len(pending) < MaxPending
            /\ pending' = Append(pending, Head(bundle)) /\ UNCHANGED outcome
         \/ outcome' = "undoing-failed" /\ UNCHANGED pending
  BY DEF UndoOne
<1>2. bundle \in Seq(T) /\ outcome \in {"undoing", "undoing-failed"}
  BY <1>1 DEF TeamsInv, TeamsTypeOK, RunOfThePlan
<1>3. Head(bundle) \in T /\ bundle' \in Seq(T)
  <2>. HIDE DEF T
  <2>. QED  BY <1>1, <1>2, HeadTailProperties
<1>4. Head(bundle) \in Operation(Nat)
  BY <1>3, OperationWidens
<1>5. /\ pending' \in Seq(Operation(Nat)) /\ Len(pending') <= MaxPending
      /\ AcceptedLicencesHaveUsers'
  <2>1. CASE UNCHANGED pending
    BY <2>1 DEF TeamsInv, TeamsTypeOK, AcceptedLicencesHaveUsers
  <2>2. CASE /\ ~Refuses(Head(bundle)) /\ Len(pending) < MaxPending
             /\ pending' = Append(pending, Head(bundle))
    BY <1>4, <2>2, Accepting DEF TeamsInv
  <2>. QED  BY <1>1, <2>1, <2>2
<1>6. outcome' \in {"undoing", "undoing-failed"}
  BY <1>1, <1>2
<1>7. TeamsTypeOK'
  BY <1>1, <1>3, <1>5 DEF TeamsInv, TeamsTypeOK
<1>8. RunOfThePlan'
  BY <1>1, <1>6 DEF TeamsInv, RunOfThePlan, Running
<1>. QED  BY <1>1, <1>5, <1>6, <1>7, <1>8
          DEF TeamsInv, ReceiptMeansNoConflict, PreviewedPlansRunThrough,
              OwnRequests, OwnResults, OnItsOwn

\* The tenant works off a request of the run: an operation the report counts as
\* done stays in place, the request is its own or about something else.
LEMMA ProvisionStep == TeamsInv /\ Provision => TeamsInv'
<1>. SUFFICES ASSUME TeamsInv, Provision PROVE TeamsInv'
  OBVIOUS
<1>1. /\ pending # <<>> /\ pending' = Tail(pending)
      /\ tenant' = Effect(Head(pending), tenant) \/ UNCHANGED tenant
      /\ UNCHANGED <<plan, receipt, pc, at, tries, status, bundle, undone, runs,
                     quiet, outcome>>
  BY DEF Provision
<1>2. pending \in Seq(Operation(Nat)) /\ Len(pending) <= MaxPending
  BY DEF TeamsInv, TeamsTypeOK
<1>3. /\ Head(pending) \in Operation(Nat) /\ Head(pending) = pending[1]
      /\ 1 \in DOMAIN pending
      /\ pending' \in Seq(Operation(Nat)) /\ Len(pending') <= MaxPending
      /\ \A k \in DOMAIN pending' : k + 1 \in DOMAIN pending /\ pending'[k] = pending[k + 1]
  <2>. DEFINE T == Operation(Nat)
  <2>1. MaxPending \in Nat /\ Len(pending) \in Nat
    BY Shapes
  <2>. HIDE DEF T
  <2>2. pending \in Seq(T) /\ pending # <<>>
    BY <1>1, <1>2 DEF T
  <2>3. Head(pending) \in T /\ Head(pending) = pending[1] /\ 1 \in DOMAIN pending
    BY <2>2
  <2>4. /\ pending' \in Seq(T) /\ Len(pending') = Len(pending) - 1
        /\ \A k \in DOMAIN pending' : k + 1 \in DOMAIN pending /\ pending'[k] = pending[k + 1]
    BY <1>1, <2>2
  <2>. QED  BY <1>2, <2>1, <2>3, <2>4 DEF T
<1>4. AcceptedLicencesHaveUsers'
  BY <1>3 DEF TeamsInv, AcceptedLicencesHaveUsers
<1>. DEFINE r == Head(pending)
<1>5. /\ tenant' \in Tenant /\ tenant.seats \subseteq tenant'.seats
      /\ \A n \in Number :
            \/ tenant'.holder[n] = tenant.holder[n]
            \/ /\ r.kind = "E164Number" /\ n = r.object
               /\ tenant'.holder[n] = r.principal
  <2>1. tenant \in Tenant
    BY DEF TeamsInv, TeamsTypeOK
  <2>2. r.kind = "LicenseAssignment" => r.principal # Nobody
    BY <1>3 DEF TeamsInv, AcceptedLicencesHaveUsers
  <2>. HIDE DEF r
  <2>3. CASE UNCHANGED tenant
    BY <2>1, <2>3
  <2>4. CASE tenant' = Effect(r, tenant)
    BY <1>3, <2>1, <2>2, <2>4, EffectOf DEF r
  <2>. QED  BY <1>1, <2>3, <2>4 DEF r
<1>6. TeamsTypeOK'
  BY <1>1, <1>3, <1>5 DEF TeamsInv, TeamsTypeOK
<1>7. RunOfThePlan' /\ ReceiptMeansNoConflict' /\ PreviewedPlansRunThrough'
  BY <1>1 DEF TeamsInv, RunOfThePlan, Running, ReceiptMeansNoConflict,
              PreviewedPlansRunThrough
<1>8. OwnRequests'
  BY <1>1, <1>3 DEF TeamsInv, OwnRequests, OnItsOwn
<1>9. OwnResults'
  <2>. SUFFICES ASSUME OnItsOwn, NEW i \in DOMAIN status, InPlace(i)
                PROVE  InPlace(i)'
    BY <1>1 DEF TeamsInv, OwnResults, OnItsOwn
  <2>1. i \in DOMAIN plan /\ plan[i] \in Operation(Nat)
    BY Shapes DEF TeamsInv, OwnResults
  <2>2. PICK j \in DOMAIN plan : r = plan[j]
    BY <1>3 DEF TeamsInv, OwnRequests
  <2>3. ASSUME plan[i].kind = "LicenseAssignment"
        PROVE  plan[i].principal \in tenant'.seats
    BY <1>5, <2>3 DEF InPlace
  <2>4. ASSUME plan[i].kind = "E164Number",
               \A m \in DOMAIN plan : m # i => plan[m].object # plan[i].object
        PROVE  tenant'.holder[plan[i].object] = plan[i].principal
    <3>1. plan[i].object \in Number
      BY <2>1, <2>4, OperationFields
    <3>2. tenant.holder[plan[i].object] = plan[i].principal
      BY <2>4 DEF InPlace
    <3>3. r.object = plan[i].object => r.principal = plan[i].principal
      BY <2>2, <2>4
    <3>. QED  BY <1>5, <3>1, <3>2, <3>3
  <2>. QED  BY <1>1, <2>3, <2>4 DEF InPlace
<1>. QED  BY <1>4, <1>6, <1>7, <1>8, <1>9 DEF TeamsInv

LEMMA StepTeams == TeamsInv /\ [TeamsNext \/ Reclaim]_teamsVars => TeamsInv'
<1>. SUFFICES ASSUME TeamsInv, [TeamsNext \/ Reclaim]_teamsVars PROVE TeamsInv'
  OBVIOUS
<1>1. ASSUME NEW p \in Plan, SetPlan(p) PROVE TeamsInv'
  BY <1>1, SetPlanStep, PlansAreOperations
<1>2. ASSUME NEW answer \in Answer, DryRun(answer) PROVE TeamsInv'
  BY <1>2, DryRunStep
<1>3. CASE Start
  BY <1>3, StartStep
<1>4. CASE Applying
  BY <1>4, RunSteps, EndSteps, UndoStep DEF Applying
<1>5. CASE Rollback
  BY <1>5, EndSteps
<1>6. CASE Provision
  BY <1>6, ProvisionStep
<1>7. CASE Reclaim
  <2>1. SetPlan(ReclaimPlan(migrated))
    BY <1>7 DEF Reclaim
  <2>. QED  BY <2>1, ReclaimPlanType, SetPlanStep
<1>8. CASE UNCHANGED teamsVars
  BY <1>8 DEF teamsVars, TeamsInv, TeamsTypeOK, RunOfThePlan, Running,
              ReceiptMeansNoConflict, PreviewedPlansRunThrough,
              AcceptedLicencesHaveUsers, OwnRequests, OwnResults, OnItsOwn, InPlace
<1>. QED  BY <1>1, <1>2, <1>3, <1>4, <1>5, <1>6, <1>7, <1>8 DEF TeamsNext

LEMMA InvImpliesHeld == TeamsInv => SucceededIsHeld
BY DEF TeamsInv, OwnResults, OnItsOwn, InPlace, SucceededIsHeld

-----------------------------------------------------------------------------
\* The composition: each part goes its own way.
LEMMA RepatriationSteps ==
    [Next]_vars => /\ [PortingNext]_portingVars
                   /\ [TeamsNext \/ Reclaim]_teamsVars
<1>. SUFFICES ASSUME [Next]_vars
              PROVE  [PortingNext]_portingVars /\ [TeamsNext \/ Reclaim]_teamsVars
  OBVIOUS
<1>1. CASE TeamsNext /\ UNCHANGED <<portingVars, migrated>>
  BY <1>1
<1>2. CASE PortingNext /\ UNCHANGED <<teamsVars, migrated>>
  BY <1>2
<1>3. ASSUME NEW u \in User, ConfirmMigrated(u)
      PROVE  [PortingNext]_portingVars /\ [TeamsNext \/ Reclaim]_teamsVars
  BY <1>3 DEF ConfirmMigrated
<1>4. CASE Reclaim
  BY <1>4 DEF Reclaim
<1>5. CASE UNCHANGED vars
  BY <1>5 DEF vars
<1>. QED  BY <1>1, <1>2, <1>3, <1>4, <1>5 DEF Next

\* Port orders next to the tenant: no plan, run, rollback or reclaim of the
\* Teams connector disturbs them (transition, numbers_in_flight).
THEOREM RepatriationDualHomed == Spec => []CutoverIsDualHomed
<1>1. Init => PortingInit
  BY DEF Init
<1>. QED  BY <1>1, RepatriationSteps, InitPorting, StepPorting, InvImpliesDualHomed,
             PTL DEF Spec

LEMMA TeamsInvHolds == Spec => []TeamsInv
<1>1. Init => TeamsInit
  BY DEF Init
<1>. QED  BY <1>1, InitTeams, StepTeams, RepatriationSteps, PTL DEF Spec

\* No ConnectorError breaks off the run of a plan with a receipt: a conflict
\* would have kept the receipt back, and a read that fails with one counts as
\* nothing there (dry_run, _preview_operation, apply).  Exceptions that are no
\* ConnectorError do break runs off.
THEOREM ConnectorErrorsEndNoRun == Spec => []PreviewedPlansRunThrough
<1>1. TeamsInv => PreviewedPlansRunThrough
  BY DEF TeamsInv
<1>. QED  BY <1>1, TeamsInvHolds, PTL

\* What a run reports as SUCCEEDED is where the plan put it, for any plan and
\* number of retries, whatever the tenant loses or delays meanwhile, if the run
\* started with nothing under way (_confirm_operation, _confirm_with_polling).
THEOREM ReportsAreTrue == Spec => []SucceededIsHeld
BY TeamsInvHolds, InvImpliesHeld, PTL

\* The types, for any plans the planner builds and any reclaim plan.
THEOREM RepatriationTypes == Spec => []TypeOK
<1>1. Init => PortingInit /\ migrated = {}
  BY DEF Init
<1>2. migrated \subseteq User /\ [Next]_vars => (migrated \subseteq User)'
  BY DEF Next, vars, ConfirmMigrated, Reclaim
<1>3. TeamsInv /\ PortingInv /\ migrated \subseteq User => TypeOK
  BY DEF TeamsInv, PortingInv, TypeOK
<1>4. Spec => []PortingInv
  BY <1>1, InitPorting, StepPorting, RepatriationSteps, PTL DEF Spec
<1>5. {} \subseteq User
  OBVIOUS
<1>6. Init => migrated \subseteq User
  BY <1>1, <1>5
<1>7. Spec => [](migrated \subseteq User)
  BY <1>2, <1>6, PTL DEF Spec
<1>. QED  BY <1>3, <1>4, <1>7, TeamsInvHolds, PTL
-----------------------------------------------------------------------------
(***************************************************************************)
(* The dial plan's way back.  The transformation is one step, so what must *)
(* hold of its result holds of what it makes of any configuration; what    *)
(* has to be shown is that both systems choose among finitely many places, *)
(* and that what Teams finds there CUCM finds too.                         *)
(***************************************************************************)
LessThan == OpToRel(<, Nat)

\* Naturals have a least, and below a bound a greatest member.
LEMMA LeastNatural ==
    ASSUME NEW T, T \subseteq Nat, T # {}
    PROVE  \E m \in T : \A k \in T : m <= k
<1>1. IsWellFoundedOn(LessThan, Nat)
  BY NatLessThanWellFounded DEF LessThan
<1>2. PICK m \in T : \A k \in T : ~(<<k, m>> \in LessThan)
  BY <1>1, WFMin
<1>3. \A i, j \in Nat : i < j => <<i, j>> \in LessThan
  BY DEF LessThan, OpToRel
<1>4. \A k \in T : ~(k < m)
  BY <1>2, <1>3
<1>. QED  BY <1>4

BoundedBy(T, n) == \A k \in T : k <= n

LEMMA GreatestNatural ==
    ASSUME NEW T, T \subseteq Nat, T # {}, NEW n \in Nat, BoundedBy(T, n)
    PROVE  \E m \in T : \A k \in T : k <= m
<1>. DEFINE short == {n - k : k \in T}
<1>1. short \subseteq Nat /\ short # {}
  <2>1. ASSUME NEW k \in T PROVE n - k \in Nat
    <3>1. k \in Nat /\ k <= n
      BY DEF BoundedBy
    <3>. QED  BY <3>1
  <2>. QED  BY <2>1
<1>2. PICK s \in short : \A r \in short : s <= r
  <2>. HIDE DEF short
  <2>. QED  BY <1>1, LeastNatural
<1>3. PICK m \in T : s = n - m
  BY <1>2
<1>4. ASSUME NEW k \in T PROVE k <= m
  <2>1. n - m <= n - k
    BY <1>2, <1>3
  <2>. QED  BY <2>1
<1>. QED  BY <1>4

Triple == Nat \X Nat \X Nat

\* The ranks met behind given ones are bounded.
Bounded(S) ==
    /\ \E n \in Nat : \A v \in S : v[1] <= n
    /\ \A i \in Nat : \E n \in Nat : \A v \in S : v[1] = i => v[2] <= n
    /\ \A i, j \in Nat : \E n \in Nat :
           \A v \in S : v[1] = i /\ v[2] = j => v[3] <= n

IsFirst(v, S) == \A w \in S : w = v \/ Earlier(v, w)
IsLast(v, S)  == \A w \in S : w = v \/ Earlier(w, v)

LEMMA TripleFields ==
    ASSUME NEW v \in Triple
    PROVE  v[1] \in Nat /\ v[2] \in Nat /\ v[3] \in Nat /\ v = <<v[1], v[2], v[3]>>
BY DEF Triple

LEMMA FirstPlace ==
    ASSUME NEW S, S \subseteq Triple, S # {}
    PROVE  \E v \in S : IsFirst(v, S)
<1>. DEFINE One == {v[1] : v \in S}
<1>1. One \subseteq Nat /\ One # {}
  BY TripleFields
<1>2. PICK i \in One : \A k \in One : i <= k
  <2>. HIDE DEF One
  <2>. QED  BY <1>1, LeastNatural
<1>3. \A w \in S : i <= w[1]
  BY <1>2
<1>. DEFINE Two == {v[2] : v \in {w \in S : w[1] = i}}
<1>4. Two \subseteq Nat /\ Two # {}
  BY TripleFields, <1>2
<1>5. PICK j \in Two : \A k \in Two : j <= k
  <2>. HIDE DEF Two
  <2>. QED  BY <1>4, LeastNatural
<1>6. \A w \in S : w[1] = i => j <= w[2]
  BY <1>5
<1>. DEFINE Three == {v[3] : v \in {w \in S : w[1] = i /\ w[2] = j}}
<1>7. Three \subseteq Nat /\ Three # {}
  BY TripleFields, <1>5
<1>8. PICK k \in Three : \A l \in Three : k <= l
  <2>. HIDE DEF Three
  <2>. QED  BY <1>7, LeastNatural
<1>9. PICK v \in S : v[1] = i /\ v[2] = j /\ v[3] = k
  BY <1>8
<1>10. ASSUME NEW w \in S PROVE w = v \/ Earlier(v, w)
  <2>1. /\ w[1] \in Nat /\ w[2] \in Nat /\ w[3] \in Nat
        /\ v[1] \in Nat /\ v[2] \in Nat /\ v[3] \in Nat
        /\ w = <<w[1], w[2], w[3]>> /\ v = <<v[1], v[2], v[3]>>
    BY TripleFields
  <2>2. w[1] = i /\ w[2] = j => k <= w[3]
    BY <1>8
  <2>. HIDE DEF One, Two, Three
  <2>3. v[1] <= w[1]
    BY <1>3, <1>9
  <2>4. v[1] = w[1] => v[2] <= w[2]
    BY <1>6, <1>9
  <2>5. v[1] = w[1] /\ v[2] = w[2] => v[3] <= w[3]
    BY <1>9, <2>2
  <2>6. v[1] = w[1] /\ v[2] = w[2] /\ v[3] = w[3] => w = v
    BY <2>1
  <2>. QED  BY <2>1, <2>3, <2>4, <2>5, <2>6 DEF Earlier
<1>. QED  BY <1>10 DEF IsFirst

LEMMA LastPlace ==
    ASSUME NEW S, S \subseteq Triple, S # {}, Bounded(S)
    PROVE  \E v \in S : IsLast(v, S)
<1>. DEFINE One == {v[1] : v \in S}
<1>1. One \subseteq Nat /\ One # {}
  BY TripleFields
<1>2. PICK i \in One : \A k \in One : k <= i
  <2>1. PICK n \in Nat : BoundedBy(One, n)
    BY DEF Bounded, BoundedBy
  <2>. HIDE DEF One
  <2>. QED  BY <1>1, <2>1, GreatestNatural
<1>3. \A w \in S : w[1] <= i
  BY <1>2
<1>. DEFINE Two == {v[2] : v \in {w \in S : w[1] = i}}
<1>4. Two \subseteq Nat /\ Two # {}
  BY TripleFields, <1>2
<1>5. PICK j \in Two : \A k \in Two : k <= j
  <2>1. i \in Nat
    BY <1>1
  <2>2. PICK n \in Nat : \A v \in S : v[1] = i => v[2] <= n
    BY <2>1 DEF Bounded
  <2>3. BoundedBy(Two, n)
    BY <2>2 DEF BoundedBy
  <2>. HIDE DEF Two
  <2>. QED  BY <1>4, <2>2, <2>3, GreatestNatural
<1>6. \A w \in S : w[1] = i => w[2] <= j
  BY <1>5
<1>. DEFINE Three == {v[3] : v \in {w \in S : w[1] = i /\ w[2] = j}}
<1>7. Three \subseteq Nat /\ Three # {}
  BY TripleFields, <1>5
<1>8. PICK k \in Three : \A l \in Three : l <= k
  <2>1. i \in Nat /\ j \in Nat
    BY <1>1, <1>4
  <2>2. PICK n \in Nat : \A v \in S : v[1] = i /\ v[2] = j => v[3] <= n
    BY <2>1 DEF Bounded
  <2>3. BoundedBy(Three, n)
    BY <2>2 DEF BoundedBy
  <2>. HIDE DEF Three
  <2>. QED  BY <1>7, <2>2, <2>3, GreatestNatural
<1>9. PICK v \in S : v[1] = i /\ v[2] = j /\ v[3] = k
  BY <1>8
<1>10. ASSUME NEW w \in S PROVE w = v \/ Earlier(w, v)
  <2>1. /\ w[1] \in Nat /\ w[2] \in Nat /\ w[3] \in Nat
        /\ v[1] \in Nat /\ v[2] \in Nat /\ v[3] \in Nat
        /\ w = <<w[1], w[2], w[3]>> /\ v = <<v[1], v[2], v[3]>>
    BY TripleFields
  <2>2. w[1] = i /\ w[2] = j => w[3] <= k
    BY <1>8
  <2>. HIDE DEF One, Two, Three
  <2>3. w[1] <= v[1]
    BY <1>3, <1>9
  <2>4. w[1] = v[1] => w[2] <= v[2]
    BY <1>6, <1>9
  <2>5. w[1] = v[1] /\ w[2] = v[2] => w[3] <= v[3]
    BY <1>9, <2>2
  <2>6. v[1] = w[1] /\ v[2] = w[2] /\ v[3] = w[3] => w = v
    BY <2>1
  <2>. QED  BY <2>1, <2>3, <2>4, <2>5, <2>6 DEF Earlier
<1>. QED  BY <1>10 DEF IsLast

LEMMA BoundedSubset ==
    ASSUME NEW S, NEW T, Bounded(T), S \subseteq T
    PROVE  Bounded(S)
BY DEF Bounded

-----------------------------------------------------------------------------
LEMMA ListDomain ==
    ASSUME NEW s, IsList(s)
    PROVE  Len(s) \in Nat /\ DOMAIN s = 1..Len(s)
BY DEF IsList

\* A place is where a route that a usage of a policy names stands.
IsPlace(c, v) ==
    /\ v[1] \in 1..Len(c.policies)
    /\ v[2] \in 1..Len(c.policies[v[1]].usages)
    /\ c.policies[v[1]].usages[v[2]] \in DOMAIN c.usages
    /\ v[3] \in 1..Len(RoutesOf(c, v[1], v[2]))

LEMMA WalkPlaces ==
    ASSUME NEW c, WellFormed(c), NEW p \in DOMAIN c.policies, NEW v \in Walk(c, p)
    PROVE  v \in Triple /\ IsPlace(c, v) /\ v \in Places(c)
<1>1. PICK u \in DOMAIN c.policies[p].usages :
           /\ c.policies[p].usages[u] \in DOMAIN c.usages
           /\ v \in {<<p, u, k>> : k \in DOMAIN RoutesOf(c, p, u)}
  BY DEF Walk
<1>2. PICK k \in DOMAIN RoutesOf(c, p, u) : v = <<p, u, k>>
  BY <1>1
<1>3. v[1] = p /\ v[2] = u /\ v[3] = k
  BY <1>2
<1>4. /\ Len(c.policies) \in Nat /\ p \in 1..Len(c.policies)
      /\ IsList(c.policies[p].usages)
  BY ListDomain DEF WellFormed
<1>5. /\ Len(c.policies[p].usages) \in Nat /\ u \in 1..Len(c.policies[p].usages)
  BY <1>1, <1>4, ListDomain
<1>6. IsList(RoutesOf(c, p, u))
  BY <1>1 DEF WellFormed, RoutesOf
<1>7. Len(RoutesOf(c, p, u)) \in Nat /\ k \in 1..Len(RoutesOf(c, p, u))
  BY <1>6, ListDomain
<1>8. p \in Nat /\ u \in Nat /\ k \in Nat
  BY <1>4, <1>5, <1>7
<1>9. v \in Triple
  BY <1>2, <1>8 DEF Triple
<1>10. IsPlace(c, v)
  BY <1>1, <1>3, <1>4, <1>5, <1>7 DEF IsPlace
<1>. QED  BY <1>9, <1>10 DEF Places

LEMMA PlacesAre ==
    ASSUME NEW c, WellFormed(c)
    PROVE  Places(c) \subseteq Triple /\ Bounded(Places(c))
<1>1. \A v \in Places(c) : v \in Triple /\ IsPlace(c, v)
  BY WalkPlaces DEF Places
<1>2. Len(c.policies) \in Nat /\ DOMAIN c.policies = 1..Len(c.policies)
  BY ListDomain DEF WellFormed
<1>3. \A v \in Places(c) : v[1] <= Len(c.policies)
  BY <1>1, <1>2 DEF IsPlace
<1>4. ASSUME NEW i \in Nat
      PROVE  \E n \in Nat : \A v \in Places(c) : v[1] = i => v[2] <= n
  <2>1. CASE i \in DOMAIN c.policies
    <3>1. Len(c.policies[i].usages) \in Nat
      BY <2>1, ListDomain DEF WellFormed
    <3>2. \A v \in Places(c) : v[1] = i => v[2] <= Len(c.policies[i].usages)
      BY <1>1, <3>1 DEF IsPlace
    <3>. QED  BY <3>1, <3>2
  <2>2. CASE i \notin DOMAIN c.policies
    <3>1. \A v \in Places(c) : v[1] # i
      BY <1>1, <1>2, <2>2 DEF IsPlace
    <3>. QED  BY <3>1
  <2>. QED  BY <2>1, <2>2
<1>5. ASSUME NEW i \in Nat, NEW j \in Nat
      PROVE  \E n \in Nat :
                \A v \in Places(c) : v[1] = i /\ v[2] = j => v[3] <= n
  <2>1. CASE \E w \in Places(c) : w[1] = i /\ w[2] = j
    <3>1. /\ i \in DOMAIN c.policies
          /\ c.policies[i].usages[j] \in DOMAIN c.usages
      BY <1>1, <1>2, <2>1 DEF IsPlace
    <3>2. IsList(RoutesOf(c, i, j))
      BY <3>1 DEF WellFormed, RoutesOf
    <3>3. Len(RoutesOf(c, i, j)) \in Nat
      BY <3>2, ListDomain
    <3>4. \A v \in Places(c) : v[1] = i /\ v[2] = j => v[3] <= Len(RoutesOf(c, i, j))
      BY <1>1, <3>3 DEF IsPlace
    <3>. QED  BY <3>3, <3>4
  <2>2. CASE ~\E w \in Places(c) : w[1] = i /\ w[2] = j
    <3>1. \A v \in Places(c) : v[1] = i /\ v[2] = j => v[3] <= 0
      BY <2>2
    <3>. QED  BY <3>1
  <2>. QED  BY <2>1, <2>2
<1>6. Bounded(Places(c))
  BY <1>2, <1>3, <1>4, <1>5 DEF Bounded
<1>. QED  BY <1>1, <1>6

-----------------------------------------------------------------------------
\* The places whose pattern has a translation.
Translated(c) ==
    {v \in Visits(c) : Translate(c.routes[RouteAt(c, v)].pattern) # None}

LEMMA TranslatedPlaces ==
    ASSUME NEW c, WellFormed(c), NEW S, S \subseteq Translated(c)
    PROVE  S \subseteq Triple /\ Bounded(S)
<1>1. S \subseteq Places(c)
  BY DEF Translated, Visits
<1>. QED  BY <1>1, PlacesAre, BoundedSubset

LEMMA TransformedFields ==
    ASSUME NEW c
    PROVE  LET res == Transformed(c) IN
           /\ DOMAIN res.lists = Translated(c)
           /\ DOMAIN res.patterns = Translated(c)
           /\ \A v \in Translated(c) :
                 /\ res.lists[v].name = c.routes[RouteAt(c, v)].name
                 /\ res.lists[v].groups = GroupsOf(c, RouteAt(c, v))
                 /\ res.patterns[v].pattern = Translate(c.routes[RouteAt(c, v)].pattern)
                 /\ res.patterns[v].list = c.routes[RouteAt(c, v)].name
           /\ NothingReported(res) =>
                 /\ Visits(c) = Translated(c)
                 /\ \A v \in Translated(c) : Known(c, RouteAt(c, v)) # {}
<1>. DEFINE res == Transformed(c)
<1>1. /\ res.lists = [v \in Translated(c) |-> RouteList(c, RouteAt(c, v))]
      /\ res.patterns = [v \in Translated(c) |-> RoutePattern(c, RouteAt(c, v))]
      /\ res.untranslatable = {c.routes[RouteAt(c, v)].pattern :
                                  v \in Visits(c) \ Translated(c)}
      /\ res.warnings = Missing(c) \cup {r \in {RouteAt(c, v) : v \in Translated(c)} :
                                            Known(c, r) = {}}
  BY DEF Transformed, Translated
<1>. HIDE DEF res
<1>2. \A v \in Translated(c) :
         /\ res.lists[v].name = c.routes[RouteAt(c, v)].name
         /\ res.lists[v].groups = GroupsOf(c, RouteAt(c, v))
  BY <1>1 DEF RouteList
<1>3. \A v \in Translated(c) :
         /\ res.patterns[v].pattern = Translate(c.routes[RouteAt(c, v)].pattern)
         /\ res.patterns[v].list = c.routes[RouteAt(c, v)].name
  BY <1>1 DEF RoutePattern
<1>4. ASSUME NothingReported(res) PROVE Visits(c) = Translated(c)
  BY <1>1, <1>4 DEF NothingReported, Translated
<1>5. ASSUME NothingReported(res), NEW v \in Translated(c)
      PROVE  Known(c, RouteAt(c, v)) # {}
  BY <1>1, <1>5 DEF NothingReported
<1>. QED  BY <1>1, <1>2, <1>3, <1>4, <1>5 DEF res

\* Both systems' choices among the places are made.
LEMMA TeamsChoice ==
    ASSUME NEW c, WellFormed(c), NEW p \in DOMAIN c.policies, NEW number,
           TeamsMatching(c, p, number) # {}
    PROVE  \E v \in TeamsMatching(c, p, number) : TeamsRoute(c, p, number) = RouteAt(c, v)
<1>. DEFINE M == TeamsMatching(c, p, number)
            first == CHOOSE v \in M : \A w \in M : w = v \/ Earlier(v, w)
<1>1. M \subseteq Triple
  BY WalkPlaces DEF TeamsMatching
<1>2. \E v \in M : \A w \in M : w = v \/ Earlier(v, w)
  <2>. HIDE DEF M
  <2>. QED  BY <1>1, FirstPlace DEF IsFirst, M
<1>3. first \in M
  BY <1>2
<1>4. TeamsRoute(c, p, number) = RouteAt(c, first)
  BY DEF TeamsRoute
<1>. QED  BY <1>3, <1>4

LEMMA TranslationFields ==
    ASSUME NEW t, NEW d, NEW o, t = [digits |-> d, open |-> o]
    PROVE  t.digits = d /\ t.open = o
OBVIOUS

\* What a pattern matches of a number begins with the pattern's digits.
LEMMA TranslationMatches ==
    ASSUME NEW pattern \in NumberPattern, NEW number \in Seq(Digit),
           Translate(pattern) # None,
           PatternMatches(Translate(pattern), number)
    PROVE  /\ Translate(pattern).digits \in Seq(Digit)
           /\ Len(Translate(pattern).digits) <= Len(number)
           /\ pattern.form = "PREFIX" => IsPrefix(pattern.digits, number)
<1>. DEFINE t == Translate(pattern)
<1>1. CASE pattern.form = "PREFIX"
  <2>1. pattern.digits \in Seq(Digit)
    BY <1>1 DEF NumberPattern, AnyNumber, Expression
  <2>2. t.digits = pattern.digits
    BY <1>1 DEF Translate
  <2>3. IsPrefix(pattern.digits, number)
    <3>1. CASE t.open
      BY <2>2, <3>1 DEF PatternMatches, IsStrictPrefix
    <3>2. CASE ~t.open
      <4>1. number = pattern.digits
        BY <2>2, <3>2 DEF PatternMatches
      <4>. QED  BY <4>1 DEF IsPrefix
    <3>. QED  BY <3>1, <3>2
  <2>. QED  BY <2>1, <2>2, <2>3 DEF IsPrefix
<1>2. CASE pattern.form = "ANY"
  <2>1. t = [digits |-> <<>>, open |-> TRUE]
    BY <1>2 DEF Translate
  <2>2. t.digits = <<>>
    BY <2>1
  <2>3. <<>> \in Seq(Digit) /\ Len(<<>>) = 0 /\ Len(number) \in Nat
    OBVIOUS
  <2>. QED  BY <1>2, <2>2, <2>3
<1>3. CASE pattern.form \notin {"PREFIX", "ANY"}
  BY <1>3 DEF Translate
<1>. QED  BY <1>1, <1>2, <1>3

\* What Teams matches behind the digits of a pattern its translation matches.
LEMMA MatchingTranslates ==
    ASSUME NEW pattern \in NumberPattern, NEW number \in Seq(Digit),
           RegexMatches(pattern, number), Within(pattern, number)
    PROVE  PatternMatches(Translate(pattern), number)
<1>1. CASE pattern.form = "PREFIX"
  <2>1. pattern.digits \in Seq(Digit)
    BY <1>1 DEF NumberPattern, AnyNumber, Expression
  <2>2. /\ Translate(pattern).digits = pattern.digits
        /\ Translate(pattern).open = (pattern.tail # "")
    <3>1. Translate(pattern) = [digits |-> pattern.digits, open |-> pattern.tail # ""]
      BY <1>1 DEF Translate
    <3>. QED  BY <3>1, TranslationFields, Zenon
  <2>3. CASE pattern.tail = ""
    <3>1. number = pattern.digits
      BY <1>1, <2>3 DEF Within
    <3>2. ~Translate(pattern).open
      BY ONLY <2>2, <2>3, Zenon
    <3>. QED  BY <2>2, <3>1, <3>2, Zenon DEF PatternMatches
  <2>4. CASE pattern.tail # ""
    <3>1. IsStrictPrefix(pattern.digits, number)
      BY <1>1, <2>4 DEF Within
    <3>2. Translate(pattern).open
      BY ONLY <2>2, <2>4, Zenon
    <3>. QED  BY <2>2, <3>1, <3>2, Zenon DEF PatternMatches
  <2>. QED  BY <2>3, <2>4
<1>2. CASE pattern.form = "ANY"
  <2>1. /\ Translate(pattern).digits = <<>>
        /\ Translate(pattern).open
    BY <1>2 DEF Translate
  <2>2. number # <<>>
    BY <1>2 DEF Within
  <2>3. IsPrefix(<<>>, number)
    BY DEF IsPrefix
  <2>. QED  BY <2>1, <2>2, <2>3 DEF PatternMatches, IsStrictPrefix
<1>3. CASE pattern.form \notin {"PREFIX", "ANY"}
  <2>1. pattern.form = "OTHER"
    BY <1>3 DEF NumberPattern, AnyNumber, Expression
  <2>. QED  BY <2>1 DEF RegexMatches
<1>. QED  BY <1>1, <1>2, <1>3

PatternOf(c, v) == c.routes[RouteAt(c, v)].pattern

LEMMA PatternIs ==
    ASSUME NEW c, WellFormed(c), NEW v \in Visits(c)
    PROVE  PatternOf(c, v) \in NumberPattern
BY DEF WellFormed, Visits, PatternOf

\* CUCM picks a place whose pattern matches: the longest patterns are finitely
\* many, since each is shorter than the number.
LEMMA CucmChoice ==
    ASSUME NEW c, WellFormed(c), NEW number \in Seq(Digit),
           CucmMatching(Transformed(c), number) # {}
    PROVE  CucmPattern(Transformed(c), number) \in CucmMatching(Transformed(c), number)
<1>. DEFINE res == Transformed(c)
            M == CucmMatching(res, number)
            Length(v) == Len(res.patterns[v].pattern.digits)
            Lengths == {Length(v) : v \in M}
<1>1. \A v \in M : /\ v \in Translated(c)
                   /\ res.patterns[v].pattern = Translate(PatternOf(c, v))
                   /\ PatternMatches(Translate(PatternOf(c, v)), number)
  BY TransformedFields DEF CucmMatching, PatternOf
<1>2. ASSUME NEW v \in M PROVE Length(v) \in Nat /\ Length(v) <= Len(number)
  <2>1. v \in Visits(c) /\ Translate(PatternOf(c, v)) # None
    BY <1>1 DEF Translated, PatternOf
  <2>2. PatternOf(c, v) \in NumberPattern
    BY <2>1, PatternIs
  <2>3. /\ Translate(PatternOf(c, v)).digits \in Seq(Digit)
        /\ Len(Translate(PatternOf(c, v)).digits) <= Len(number)
    BY <1>1, <2>1, <2>2, TranslationMatches
  <2>. QED  BY <1>1, <2>3
<1>3. PICK m \in Lengths : \A k \in Lengths : k <= m
  <2>1. Lengths \subseteq Nat /\ BoundedBy(Lengths, Len(number)) /\ Len(number) \in Nat
    BY <1>2 DEF BoundedBy
  <2>2. Lengths # {}
    OBVIOUS
  <2>. HIDE DEF Lengths
  <2>. QED  BY <2>1, <2>2, GreatestNatural
<1>. DEFINE Longest == {v \in M : Length(v) = m}
<1>4. Longest # {} /\ Longest \subseteq Translated(c)
  BY <1>1, <1>3
<1>5. PICK v \in Longest : IsLast(v, Longest)
  <2>. HIDE DEF Longest
  <2>. QED  BY <1>4, TranslatedPlaces, LastPlace
<1>6. ASSUME NEW w \in M
      PROVE  Length(w) < Length(v) \/ (Length(w) = Length(v) /\ (w = v \/ Earlier(w, v)))
  <2>1. Length(w) \in Nat /\ Length(v) \in Nat
    BY <1>2
  <2>2. Length(v) = m /\ Length(w) <= m
    BY <1>3
  <2>3. CASE Length(w) = m
    <3>1. w \in Longest
      BY <2>3
    <3>. QED  BY <1>5, <2>2, <2>3, <3>1 DEF IsLast
  <2>. QED  BY <2>1, <2>2, <2>3
<1>7. v \in M
  OBVIOUS
<1>8. \E x \in M : \A w \in M :
         \/ Length(w) < Length(x)
         \/ Length(w) = Length(x) /\ (w = x \/ Earlier(w, x))
  BY <1>6, <1>7
<1>. HIDE DEF M
<1>9. CucmPattern(res, number) =
         CHOOSE x \in M : \A w \in M :
            \/ Length(w) < Length(x)
            \/ Length(w) = Length(x) /\ (w = x \/ Earlier(w, x))
  BY DEF CucmPattern, M
<1>10. CucmPattern(res, number) \in M
  BY <1>8, <1>9
<1>. QED  BY <1>10 DEF M

\* The list a pattern leads to is one of its own route.
LEMMA ListChoice ==
    ASSUME NEW c, WellFormed(c), NamesDiffer(c), NEW v \in Translated(c)
    PROVE  LET res == Transformed(c)
               w   == ListNamed(res, res.patterns[v].list)
           IN  res.lists[w].groups = GroupsOf(c, RouteAt(c, v))
<1>. DEFINE res == Transformed(c)
            L == {w \in DOMAIN res.lists : res.lists[w].name = res.patterns[v].list}
            w == ListNamed(res, res.patterns[v].list)
<1>1. v \in L
  BY TransformedFields
<1>2. L \subseteq Translated(c)
  BY TransformedFields
<1>3. \E x \in L : \A y \in L : y = x \/ Earlier(y, x)
  <2>. HIDE DEF L
  <2>. QED  BY <1>1, <1>2, TranslatedPlaces, LastPlace DEF IsLast
<1>4. w \in L
  <2>1. w = CHOOSE x \in L : \A y \in L : y = x \/ Earlier(y, x)
    BY DEF ListNamed
  <2>. HIDE DEF L, w
  <2>. QED  BY <1>3, <2>1
<1>5. /\ w \in Translated(c)
      /\ c.routes[RouteAt(c, w)].name = c.routes[RouteAt(c, v)].name
      /\ res.lists[w].groups = GroupsOf(c, RouteAt(c, w))
  <2>1. res.lists[w].name = res.patterns[v].list /\ w \in Translated(c)
    BY <1>2, <1>4
  <2>. HIDE DEF w
  <2>. QED  BY <2>1, TransformedFields
<1>6. RouteAt(c, v) \in DOMAIN c.routes /\ RouteAt(c, w) \in DOMAIN c.routes
  <2>. HIDE DEF w
  <2>. QED  BY <1>5 DEF Translated, Visits
<1>7. RouteAt(c, w) = RouteAt(c, v)
  <2>. HIDE DEF w
  <2>. QED  BY <1>5, <1>6 DEF NamesDiffer
<1>. QED  BY <1>5, <1>7

\* The gateways CUCM tries are those of the route whose pattern it picked.
LEMMA GatewaysAre ==
    ASSUME NEW c, WellFormed(c), NamesDiffer(c), NEW number \in Seq(Digit),
           CucmMatching(Transformed(c), number) # {}
    PROVE  \E v \in Translated(c) :
              /\ CucmGateways(Transformed(c), number) = GroupsOf(c, RouteAt(c, v))
              /\ PatternMatches(Translate(PatternOf(c, v)), number)
<1>. DEFINE res == Transformed(c)
            v == CucmPattern(res, number)
<1>1. v \in CucmMatching(res, number)
  BY CucmChoice
<1>2. v \in Translated(c) /\ PatternMatches(Translate(PatternOf(c, v)), number)
  <2>. HIDE DEF v
  <2>. QED  BY <1>1, TransformedFields DEF CucmMatching, PatternOf
<1>3. CucmGateways(res, number) = res.lists[ListNamed(res, res.patterns[v].list)].groups
  BY DEF CucmGateways
<1>4. CucmGateways(res, number) = GroupsOf(c, RouteAt(c, v))
  <2>. HIDE DEF v
  <2>. QED  BY <1>2, <1>3, ListChoice
<1>. QED  BY <1>2, <1>4

\* A call that Teams would send is matched by CUCM as well.
LEMMA CucmFinds ==
    ASSUME NEW c, WellFormed(c), NEW number \in Seq(Digit), NEW p \in DOMAIN c.policies,
           NothingReported(Transformed(c)), TeamsRoute(c, p, number) # None,
           Within(c.routes[TeamsRoute(c, p, number)].pattern, number)
    PROVE  CucmMatching(Transformed(c), number) # {}
<1>1. TeamsMatching(c, p, number) # {}
  BY DEF TeamsRoute
<1>2. PICK v \in TeamsMatching(c, p, number) : TeamsRoute(c, p, number) = RouteAt(c, v)
  BY <1>1, TeamsChoice
<1>3. v \in Visits(c) /\ RegexMatches(PatternOf(c, v), number)
  BY WalkPlaces DEF TeamsMatching, Visits, PatternOf
<1>4. Within(PatternOf(c, v), number)
  BY <1>2 DEF PatternOf
<1>5. PatternMatches(Translate(PatternOf(c, v)), number)
  BY <1>3, <1>4, PatternIs, MatchingTranslates
<1>6. v \in Translated(c)
  BY <1>3, TransformedFields
<1>. QED  BY <1>5, <1>6, TransformedFields DEF CucmMatching, PatternOf

\* What is made of a configuration, and nothing else, is its result.
RoutingInv ==
    /\ WellFormed(configuration)
    /\ result = None \/ result = Transformed(configuration)

LEMMA RoutingInvKept ==
    /\ RoutingInit => RoutingInv
    /\ RoutingInv /\ [RoutingNext]_routingVars => RoutingInv'
<1>1. RoutingInit => RoutingInv
  BY RoutingAssumption DEF RoutingInit, RoutingInv
<1>2. RoutingInv /\ [RoutingNext]_routingVars => RoutingInv'
  BY DEF RoutingInv, RoutingNext, Repatriate, routingVars
<1>. QED  BY <1>1, <1>2

LEMMA InvImpliesCallsLeave == RoutingInv => CallsStillLeave
<1>. DEFINE c == configuration
<1>. SUFFICES ASSUME RoutingInv, result # None, NamesDiffer(c),
                     NEW number \in Numbers, NEW p \in DOMAIN c.policies
              PROVE  LET route == TeamsRoute(c, p, number)
                         by    == CucmGateways(result, number)
                     IN  /\ NothingReported(result) /\ route # None
                               /\ Within(c.routes[route].pattern, number)
                            => Leaves(by)
                         /\ Leaves(by) => MeantFor(c, number, by)
  BY DEF CallsStillLeave
<1>. DEFINE route == TeamsRoute(c, p, number)
            by    == CucmGateways(result, number)
<1>1. WellFormed(c) /\ result = Transformed(c) /\ number \in Seq(Digit)
  BY RoutingAssumption DEF RoutingInv
<1>. HIDE DEF c
<1>2. ASSUME NothingReported(result), route # None,
             Within(c.routes[route].pattern, number)
      PROVE  Leaves(by)
  <2>1. CucmMatching(result, number) # {}
    BY <1>1, <1>2, CucmFinds
  <2>2. PICK v \in Translated(c) : by = GroupsOf(c, RouteAt(c, v))
    BY <1>1, <2>1, GatewaysAre
  <2>3. Known(c, RouteAt(c, v)) # {}
    BY <1>1, <1>2, TransformedFields
  <2>. QED  BY <2>2, <2>3 DEF Leaves, GroupsOf
<1>3. ASSUME Leaves(by) PROVE MeantFor(c, number, by)
  <2>1. CucmMatching(result, number) # {}
    BY <1>3 DEF CucmGateways, Leaves
  <2>2. PICK v \in Translated(c) :
           /\ by = GroupsOf(c, RouteAt(c, v))
           /\ PatternMatches(Translate(PatternOf(c, v)), number)
    BY <1>1, <2>1, GatewaysAre
  <2>3. v \in Visits(c) /\ Translate(PatternOf(c, v)) # None
    BY DEF Translated, PatternOf
  <2>4. PatternOf(c, v).form = "PREFIX" => IsPrefix(PatternOf(c, v).digits, number)
    BY <1>1, <2>2, <2>3, PatternIs, TranslationMatches
  <2>. HIDE DEF by
  <2>. QED  BY <2>2, <2>3, <2>4 DEF MeantFor, PatternOf
<1>. QED  BY <1>2, <1>3

\* The dial plan of any tenant, repatriated: unless something is reported, a call
\* that Teams would have sent out still leaves, if its number is the digits of
\* its pattern or begins with them and goes on where they have a tail; and every
\* call leaves by gateways meant for numbers that begin so (transform_direct_
\* routing_to_on_prem, translate_number_pattern).
THEOREM RepatriatedCallsLeave == RoutingSpec => []CallsStillLeave
BY RoutingInvKept, InvImpliesCallsLeave, PTL DEF RoutingSpec
=============================================================================
