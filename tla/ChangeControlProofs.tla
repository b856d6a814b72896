------------------------ MODULE ChangeControlProofs ------------------------
(***************************************************************************)
(* Change control, for any clients, estates, roles, plans, windows,        *)
(* targets and connection profiles: what a run writes was previewed, is    *)
(* confirmed and rests on evidence, what a rollback undoes was written so, *)
(* and what opens was offered.                                             *)
(*                                                                         *)
(* Between the moment a handler builds its authorization and the moment    *)
(* its run writes, anybody may replan, preview or enter the lock.  So the  *)
(* invariant speaks of what the requests carry: an authorization that was  *)
(* valid when it was built, for a receipt of a dry run that took place; of *)
(* the request in the lock, which passed the gate; and of what rollback    *)
(* bundles hold, which is only what was written on the estate they are of. *)
(***************************************************************************)
EXTENDS ChangeControl, TLAPS


Asks(c, kind) == request[c] # None /\ request[c].kind = kind
WrittenOn(e) == {w.op : w \in {v \in written : v.estate = e}}

ReceiptIsPreviewed ==
    \A e \in Estate :
        receipt[e] # None => [estate |-> e, plan |-> receipt[e]] \in previewed

\* What an execute request carries, wherever it waits.
CarriesEvidence(c) ==
    Asks(c, "execute") =>
        /\ [estate |-> request[c].estate, plan |-> request[c].authorization.receipt]
              \in previewed
        /\ AuthorizationValid(request[c].authorization)
        /\ AcceptsHeaders
        /\ request[c].todo \subseteq request[c].plan
        /\ request[c].wrote \subseteq WrittenOn(request[c].estate)

\* A request in a lock is of that session, and a run passed its target's gate.
PassedGate(c) ==
    \A e \in Estate : holder[e] = c =>
        /\ request[c] # None /\ request[c].estate = e
        /\ request[c].kind = "execute" =>
               Gate(target[e], request[c].authorization, request[c].plan)

\* A rollback only has to undo what was written, by a run of its estate.
CarriesWrites(c) ==
    Asks(c, "rollback") =>
        AcceptsHeaders /\ request[c].todo \subseteq WrittenOn(request[c].of)

CoveredWrite(w) ==
    /\ [estate |-> w.estate, plan |-> w.by.receipt] \in previewed
    /\ w.op \in w.by.receipt
    /\ EmergencySites(w.by.receipt) \subseteq w.by.confirmed
    /\ AuthorizationValid(w.by)
    /\ MayBeWritten(target[w.estate])
    /\ AcceptsHeaders

UndoesOnlyWrites ==
    /\ \A b \in bundles : b.ops \subseteq WrittenOn(b.estate)
    /\ \A u \in undone : u.op \in WrittenOn(u.of) /\ AcceptsHeaders

OpenedIsTested ==
    \A t \in opened : \E p \in Profiles :
        t = [profile |-> p, can_open |-> CanOpen(p), outcome |-> OpenOutcome(p, Env)]

Inv == /\ TypeOK
       /\ ReceiptIsPreviewed
       /\ \A c \in Client : CarriesEvidence(c) /\ PassedGate(c) /\ CarriesWrites(c)
       /\ \A w \in written : CoveredWrite(w)
       /\ UndoesOnlyWrites
       /\ OpenedIsTested

-----------------------------------------------------------------------------
(* The authorization a handler builds has the type an execute request      *)
(* carries, once there is a plan and a receipt to build it for.            *)

LEMMA AuthorizationLemma ==
  ASSUME TypeOK, NEW e \in Estate, plan[e] # None, receipt[e] # None, NEW body \in Body
  PROVE  AuthorizationOf(e, body) \in Authorization
<1>. USE ChangeControlAssumption
<1>1. receipt[e] \in PlanChoice /\ plan[e] \in PlanChoice /\ clock \in 0..MaxTime
  BY DEF TypeOK
<1>2. plan[e] \subseteq Op
  BY <1>1
<1>3. EmergencySites(plan[e]) \subseteq Site
  BY <1>2 DEF EmergencySites
<1>4. /\ body.approvers \in SUBSET Principal
      /\ body.window \in Window \cup {None}
      /\ (body.override_reason /\ body.override_by) \in BOOLEAN
      /\ body.sites \in {None} \cup SUBSET Site
  BY DEF Body
<1>5. (IF body.sites = None THEN EmergencySites(plan[e]) ELSE body.sites) \in SUBSET Site
  BY <1>3, <1>4
<1>6. (IF body.sites = None THEN {} ELSE body.sites) \in SUBSET Site
  BY <1>4
<1>. QED  BY <1>1, <1>4, <1>5, <1>6 DEF AuthorizationOf, Authorization

(* A client whose request a step leaves alone carries what it carried, as  *)
(* long as the step only adds to what was previewed and written and gives  *)
(* that client no lock.                                                    *)

LEMMA KeepsLemma ==
  ASSUME Inv, NEW d \in Client,
         UNCHANGED <<process, target>>,
         previewed \subseteq previewed', written \subseteq written',
         request'[d] = request[d],
         \A e \in Estate : holder'[e] = d => holder[e] = d
  PROVE  CarriesEvidence(d)' /\ PassedGate(d)' /\ CarriesWrites(d)'
<1>1. CarriesEvidence(d) /\ PassedGate(d) /\ CarriesWrites(d)
  BY DEF Inv
<1>2. request[d] # None => request[d] \in Request
  BY DEF Inv, TypeOK
<1>3. ASSUME NEW e PROVE WrittenOn(e) \subseteq WrittenOn(e)'
  BY DEF WrittenOn
<1>4. CarriesEvidence(d)'
  <2>. SUFFICES ASSUME Asks(d, "execute")
                PROVE  CarriesEvidence(d)'
    BY DEF CarriesEvidence, Asks
  <2>1. request[d].wrote \subseteq WrittenOn(request[d].estate)'
    BY <1>1, <1>3 DEF CarriesEvidence
  <2>2. request[d].wrote \subseteq (WrittenOn(request[d].estate))'
    BY <2>1 DEF WrittenOn
  <2>. QED  BY <1>1, <2>2 DEF CarriesEvidence, Asks, AcceptsHeaders, WrittenOn
<1>5. PassedGate(d)'
  BY <1>1 DEF PassedGate
<1>6. CarriesWrites(d)'
  <2>. SUFFICES ASSUME Asks(d, "rollback")
                PROVE  CarriesWrites(d)'
    BY DEF CarriesWrites, Asks
  <2>1. request[d].todo \subseteq WrittenOn(request[d].of)'
    BY <1>1, <1>3 DEF CarriesWrites
  <2>. QED  BY <1>1, <2>1 DEF CarriesWrites, Asks, AcceptsHeaders, WrittenOn
<1>. QED  BY <1>4, <1>5, <1>6

(* What was written stays covered, undone and opened operations stay       *)
(* accounted for, as long as history only grows.                           *)

LEMMA HistoryLemma ==
  ASSUME Inv, UNCHANGED <<process, target>>,
         previewed \subseteq previewed', written \subseteq written'
  PROVE  /\ \A w \in written : CoveredWrite(w)'
         /\ \A e \in Estate : WrittenOn(e) \subseteq WrittenOn(e)'
         /\ bundles' = bundles /\ undone' = undone => UndoesOnlyWrites'
         /\ opened' = opened => OpenedIsTested'
<1>1. ASSUME NEW e PROVE WrittenOn(e) \subseteq WrittenOn(e)'
  BY DEF WrittenOn
<1>2. \A w \in written : CoveredWrite(w)'
  BY DEF Inv, CoveredWrite, AcceptsHeaders
<1>3. bundles' = bundles /\ undone' = undone => UndoesOnlyWrites'
  <2>. SUFFICES ASSUME bundles' = bundles, undone' = undone
                PROVE  UndoesOnlyWrites'
    OBVIOUS
  <2>1. \A b \in bundles : b.ops \subseteq WrittenOn(b.estate)'
    BY <1>1 DEF Inv, UndoesOnlyWrites
  <2>2. \A u \in undone : u.op \in WrittenOn(u.of)' /\ AcceptsHeaders
    BY <1>1 DEF Inv, UndoesOnlyWrites
  <2>. QED  BY <2>1, <2>2 DEF UndoesOnlyWrites, WrittenOn, AcceptsHeaders
<1>4. opened' = opened => OpenedIsTested'
  BY DEF Inv, OpenedIsTested
<1>. QED  BY <1>1, <1>2, <1>3, <1>4

(* So a step of a client is settled by its types, the receipts, what that  *)
(* client carries afterwards, and what it adds to the history.             *)

LEMMA ClientLemma ==
  ASSUME Inv, NEW c \in Client,
         UNCHANGED <<process, target>>,
         previewed \subseteq previewed', written \subseteq written',
         \A e \in Estate : holder'[e] \in {holder[e], c, None},
         \A d \in Client \ {c} : request'[d] = request[d],
         TypeOK', ReceiptIsPreviewed',
         CarriesEvidence(c)', PassedGate(c)', CarriesWrites(c)',
         \A w \in written' \ written : CoveredWrite(w)',
         UndoesOnlyWrites', OpenedIsTested'
  PROVE  Inv'
<1>1. ASSUME NEW d \in Client \ {c}
      PROVE  CarriesEvidence(d)' /\ PassedGate(d)' /\ CarriesWrites(d)'
  <2>1. \A e \in Estate : holder'[e] = d => holder[e] = d
    BY ChangeControlAssumption
  <2>. QED  BY <2>1, KeepsLemma
<1>2. \A w \in written' : CoveredWrite(w)'
  BY HistoryLemma
<1>. QED  BY <1>1, <1>2 DEF Inv

LEMMA InitInv == Init => Inv
<1>. SUFFICES ASSUME Init PROVE Inv
  OBVIOUS
<1>. USE ChangeControlAssumption DEF Init
<1>1. TypeOK
  BY DEF TypeOK
<1>2. ReceiptIsPreviewed
  BY DEF ReceiptIsPreviewed
<1>3. ASSUME NEW c \in Client
      PROVE  CarriesEvidence(c) /\ PassedGate(c) /\ CarriesWrites(c)
  BY DEF CarriesEvidence, PassedGate, CarriesWrites, Asks
<1>4. UndoesOnlyWrites
  BY DEF UndoesOnlyWrites
<1>5. OpenedIsTested
  BY DEF OpenedIsTested
<1>. QED  BY <1>1, <1>2, <1>3, <1>4, <1>5 DEF Inv

-----------------------------------------------------------------------------
(* Calls of the API.                                                       *)

\* A new plan takes the receipt with it; requests keep what they read.
LEMMA BuildPlanInv ==
  ASSUME Inv, NEW c \in Client, NEW e \in Estate, BuildPlan(c, e) PROVE Inv'
<1>. USE ChangeControlAssumption DEF BuildPlan, Call
<1>1. TypeOK'
  BY DEF Inv, TypeOK
<1>2. ReceiptIsPreviewed'
  BY DEF Inv, TypeOK, ReceiptIsPreviewed
<1>3. CarriesEvidence(c)' /\ PassedGate(c)' /\ CarriesWrites(c)'
  BY KeepsLemma
<1>4. UndoesOnlyWrites' /\ OpenedIsTested'
  BY HistoryLemma
<1>. QED  BY <1>1, <1>2, <1>3, <1>4, ClientLemma

\* A client that waits for a lock holds none.
LEMMA IdleLemma ==
  ASSUME Inv, NEW c \in Client, request[c] = None, UNCHANGED holder
  PROVE  PassedGate(c)'
BY DEF Inv, PassedGate

LEMMA DryRunInv ==
  ASSUME Inv, NEW c \in Client, NEW e \in Estate, DryRun(c, e) PROVE Inv'
<1>. USE DEF DryRun, Call
<1>. DEFINE r == [kind |-> "dry_run", estate |-> e, plan |-> plan[e]]
<1>1. request'[c] = r /\ \A d \in Client \ {c} : request'[d] = request[d]
  BY DEF Inv, TypeOK
<1>2. r \in DryRunRequest
  BY DEF Inv, TypeOK, DryRunRequest
<1>3. TypeOK'
  <2>1. request' \in [Client -> Request \cup {None}]
    BY <1>1, <1>2 DEF Inv, TypeOK, Request
  <2>2. calls' \in 0..MaxCalls
    BY ChangeControlAssumption DEF Inv, TypeOK
  <2>. QED  BY <2>1, <2>2 DEF Inv, TypeOK
<1>4. ReceiptIsPreviewed'
  BY DEF Inv, ReceiptIsPreviewed
<1>5. CarriesEvidence(c)' /\ CarriesWrites(c)'
  BY <1>1 DEF CarriesEvidence, CarriesWrites, Asks
<1>6. PassedGate(c)'
  BY IdleLemma
<1>7. UndoesOnlyWrites' /\ OpenedIsTested'
  BY HistoryLemma
<1>. QED  BY <1>1, <1>3, <1>4, <1>5, <1>6, <1>7, ClientLemma

\* The authorization is valid, and for the receipt the session has now.
LEMMA ExecuteInv ==
  ASSUME Inv, NEW c \in Client, NEW e \in Estate, Execute(c, e) PROVE Inv'
<1>. USE DEF Execute, Call
<1>. PICK body \in Body :
       /\ AuthorizationValid(AuthorizationOf(e, body))
       /\ request' = [request EXCEPT ![c] =
              [kind |-> "execute", estate |-> e, plan |-> plan[e],
               authorization |-> AuthorizationOf(e, body),
               todo |-> plan[e], wrote |-> {}]]
  OBVIOUS
<1>. DEFINE a == AuthorizationOf(e, body)
            r == [kind |-> "execute", estate |-> e, plan |-> plan[e],
                  authorization |-> a, todo |-> plan[e], wrote |-> {}]
<1>1. a \in Authorization /\ a.receipt = receipt[e] /\ AuthorizationValid(a)
  BY AuthorizationLemma DEF Inv, AuthorizationOf
<1>2. request'[c] = r /\ \A d \in Client \ {c} : request'[d] = request[d]
  BY DEF Inv, TypeOK
<1>. HIDE DEF a
<1>3. plan[e] \in PlanChoice /\ plan[e] \subseteq Op
  BY ChangeControlAssumption DEF Inv, TypeOK
<1>4. r \in ExecuteRequest
  BY <1>1, <1>3 DEF ExecuteRequest
<1>5. TypeOK'
  <2>1. request' \in [Client -> Request \cup {None}]
    <3>1. r \in Request
      BY <1>4 DEF Request
    <3>. HIDE DEF r
    <3>. QED  BY <1>2, <3>1 DEF Inv, TypeOK, a, r
  <2>2. calls' \in 0..MaxCalls /\ runs' \in 0..MaxRuns
    BY ChangeControlAssumption DEF Inv, TypeOK
  <2>. QED  BY <2>1, <2>2 DEF Inv, TypeOK
<1>6. ReceiptIsPreviewed'
  BY DEF Inv, ReceiptIsPreviewed
<1>7. AcceptsHeaders'
  BY DEF CallerMay, AcceptsHeaders
<1>8. [estate |-> e, plan |-> receipt[e]] \in previewed
  BY DEF Inv, ReceiptIsPreviewed
<1>9. CarriesEvidence(c)' /\ CarriesWrites(c)'
  BY <1>1, <1>2, <1>7, <1>8 DEF CarriesEvidence, CarriesWrites, Asks, AuthorizationValid
<1>10. PassedGate(c)'
  BY IdleLemma
<1>11. UndoesOnlyWrites' /\ OpenedIsTested'
  BY HistoryLemma
<1>. QED  BY <1>2, <1>5, <1>6, <1>9, <1>10, <1>11, ClientLemma

\* A rollback may be asked for by any bundle the store holds, on any session.
LEMMA RollbackInv ==
  ASSUME Inv, NEW c \in Client, NEW e \in Estate, Rollback(c, e) PROVE Inv'
<1>. USE DEF Rollback, Call
<1>. PICK b \in bundles :
       request' = [request EXCEPT ![c] =
           [kind |-> "rollback", estate |-> e, of |-> b.estate, todo |-> b.ops]]
  OBVIOUS
<1>. DEFINE r == [kind |-> "rollback", estate |-> e, of |-> b.estate, todo |-> b.ops]
<1>1. request'[c] = r /\ \A d \in Client \ {c} : request'[d] = request[d]
  BY DEF Inv, TypeOK
<1>2. r \in RollbackRequest
  BY DEF Inv, TypeOK, RollbackRequest
<1>3. TypeOK'
  <2>1. request' \in [Client -> Request \cup {None}]
    BY <1>1, <1>2 DEF Inv, TypeOK, Request
  <2>2. calls' \in 0..MaxCalls
    BY ChangeControlAssumption DEF Inv, TypeOK
  <2>. QED  BY <2>1, <2>2 DEF Inv, TypeOK
<1>4. ReceiptIsPreviewed'
  BY DEF Inv, ReceiptIsPreviewed
<1>5. CarriesEvidence(c)'
  BY <1>1 DEF CarriesEvidence, Asks
<1>6. CarriesWrites(c)'
  <2>1. AcceptsHeaders'
    BY DEF CallerMay, AcceptsHeaders
  <2>2. b.ops \subseteq (WrittenOn(b.estate))'
    BY DEF Inv, UndoesOnlyWrites, WrittenOn
  <2>. QED  BY <1>1, <2>1, <2>2 DEF CarriesWrites, WrittenOn
<1>7. PassedGate(c)'
  BY IdleLemma
<1>8. UndoesOnlyWrites' /\ OpenedIsTested'
  BY HistoryLemma
<1>. QED  BY <1>1, <1>3, <1>4, <1>5, <1>6, <1>7, <1>8, ClientLemma

LEMMA TestConnectionInv ==
  ASSUME Inv, NEW c \in Client, TestConnection(c) PROVE Inv'
<1>. USE ChangeControlAssumption DEF TestConnection, Call
<1>1. TypeOK'
  BY DEF Inv, TypeOK
<1>2. ReceiptIsPreviewed'
  BY DEF Inv, ReceiptIsPreviewed
<1>3. CarriesEvidence(c)' /\ PassedGate(c)' /\ CarriesWrites(c)'
  BY KeepsLemma
<1>4. OpenedIsTested'
  BY DEF OpenedIsTested
<1>5. UndoesOnlyWrites'
  BY HistoryLemma
<1>. QED  BY <1>1, <1>2, <1>3, <1>4, <1>5, ClientLemma

-----------------------------------------------------------------------------
(* In the lock of a session.                                               *)

\* Whoever enters has passed the gate of its kind; whoever is refused forgets
\* its request.
LEMMA EnterInv ==
  ASSUME Inv, NEW c \in Client, NEW e \in Estate, Enter(c, e) PROVE Inv'
<1>. USE DEF Enter
<1>1. UndoesOnlyWrites' /\ OpenedIsTested'
  BY HistoryLemma
<1>2. ReceiptIsPreviewed'
  BY DEF Inv, ReceiptIsPreviewed
<1>3. request[c] \in Request
  BY DEF Inv, TypeOK
<1>4. CASE holder' = [holder EXCEPT ![e] = c] /\ UNCHANGED request
  <2>1. TypeOK'
    BY <1>4 DEF Inv, TypeOK
  <2>2. \A f \in Estate : f # e => holder'[f] = holder[f]
    BY <1>4 DEF Inv, TypeOK
  <2>3. CarriesEvidence(c)' /\ CarriesWrites(c)'
    BY <1>4
       DEF Inv, CarriesEvidence, CarriesWrites, Asks, AcceptsHeaders, WrittenOn
  <2>4. request[c].kind = "execute" =>
            Gate(target[e], request[c].authorization, request[c].plan)
    <3>. SUFFICES ASSUME request[c].kind = "execute"
                  PROVE  Gate(target[e], request[c].authorization, request[c].plan)
      OBVIOUS
    <3>1. request'[c] = request[c] /\ request[c] # None
      BY <1>4
    <3>2. request' # [request EXCEPT ![c] = None]
      BY <3>1 DEF Inv, TypeOK
    <3>. QED  BY <3>2
  <2>5. PassedGate(c)'
    <3>. SUFFICES ASSUME NEW f \in Estate, holder'[f] = c
                  PROVE  /\ request[c] # None /\ request[c].estate = f
                         /\ request[c].kind = "execute" =>
                                Gate(target[f], request[c].authorization, request[c].plan)
      BY <1>4 DEF PassedGate
    <3>1. CASE f = e
      BY <2>4, <3>1
    <3>2. CASE f # e
      BY <2>2, <3>2 DEF Inv, PassedGate
    <3>. QED  BY <3>1, <3>2
  <2>6. \A f \in Estate : holder'[f] \in {holder[f], c, None}
    BY <1>4 DEF Inv, TypeOK
  <2>. QED  BY <1>1, <1>2, <1>4, <2>1, <2>3, <2>5, <2>6, ClientLemma
<1>5. CASE request' = [request EXCEPT ![c] = None] /\ UNCHANGED holder
  <2>1. request'[c] = None /\ \A d \in Client \ {c} : request'[d] = request[d]
    BY <1>5 DEF Inv, TypeOK
  <2>2. TypeOK'
    BY <1>5 DEF Inv, TypeOK
  <2>3. CarriesEvidence(c)' /\ CarriesWrites(c)'
    BY <2>1 DEF CarriesEvidence, CarriesWrites, Asks
  <2>4. PassedGate(c)'
    \* it was waiting for the lock of e, so it holds none
    <3>1. \A f \in Estate : holder[f] # c
      BY ChangeControlAssumption DEF Inv, PassedGate
    <3>. QED  BY <1>5, <3>1 DEF PassedGate
  <2>. QED  BY <1>1, <1>2, <1>5, <2>1, <2>2, <2>3, <2>4, ClientLemma
<1>. QED  BY <1>4, <1>5

\* The request of a client in a lock.
LEMMA HolderLemma ==
  ASSUME Inv, NEW c \in Client, NEW e \in Estate, holder[e] = c
  PROVE  /\ request[c] # None /\ request[c].estate = e
         /\ \A f \in Estate : holder[f] = c => f = e
         /\ request[c].kind = "dry_run" => request[c] \in DryRunRequest
         /\ request[c].kind = "execute" => request[c] \in ExecuteRequest
         /\ request[c].kind = "rollback" => request[c] \in RollbackRequest
<1>1. request[c] # None /\ \A f \in Estate : holder[f] = c => request[c].estate = f
  BY DEF Inv, PassedGate
<1>2. request[c] \in Request
  BY <1>1 DEF Inv, TypeOK
<1>. QED  BY <1>1, <1>2 DEF Request, DryRunRequest, ExecuteRequest, RollbackRequest

\* Leaving the lock, a request is forgotten.
LEMMA LeaveLemma ==
  ASSUME Inv, NEW c \in Client, NEW e \in Estate, holder[e] = c, Leave(c, e)
  PROVE  /\ request' \in [Client -> Request \cup {None}]
         /\ holder' \in [Estate -> Client \cup {None}]
         /\ \A f \in Estate : holder'[f] \in {holder[f], c, None}
         /\ \A d \in Client \ {c} : request'[d] = request[d]
         /\ CarriesEvidence(c)' /\ PassedGate(c)' /\ CarriesWrites(c)'
<1>1. request'[c] = None /\ \A d \in Client \ {c} : request'[d] = request[d]
  BY DEF Inv, TypeOK, Leave
<1>2. /\ request' \in [Client -> Request \cup {None}]
      /\ holder' \in [Estate -> Client \cup {None}]
      /\ \A f \in Estate : holder'[f] = IF f = e THEN None ELSE holder[f]
  BY DEF Inv, TypeOK, Leave
<1>3. CarriesEvidence(c)' /\ CarriesWrites(c)'
  BY <1>1 DEF CarriesEvidence, CarriesWrites, Asks
<1>4. \A f \in Estate : holder'[f] # c
  BY <1>2, HolderLemma, ChangeControlAssumption
<1>5. PassedGate(c)'
  BY <1>4 DEF PassedGate
<1>. QED  BY <1>1, <1>2, <1>3, <1>5

\* The receipt is that of the plan just dry-run, whatever the plan is now.
LEMMA DryRunReturnsInv ==
  ASSUME Inv, NEW c \in Client, NEW e \in Estate, DryRunReturns(c, e) PROVE Inv'
<1>. USE DEF DryRunReturns, Holds
<1>1. request[c].plan \in PlanChoice
  BY HolderLemma DEF DryRunRequest
<1>2. TypeOK'
  <2>1. receipt' \in [Estate -> PlanChoice \cup {None}]
    BY <1>1 DEF Inv, TypeOK
  <2>2. previewed' \subseteq [estate : Estate, plan : PlanChoice]
    BY <1>1 DEF Inv, TypeOK
  <2>. QED  BY <2>1, <2>2, LeaveLemma DEF Inv, TypeOK
<1>3. ReceiptIsPreviewed'
  BY DEF Inv, TypeOK, ReceiptIsPreviewed
<1>4. UndoesOnlyWrites' /\ OpenedIsTested'
  BY HistoryLemma
<1>. QED  BY <1>2, <1>3, <1>4, LeaveLemma, ClientLemma

\* What a run in the lock carries.
LEMMA RunLemma ==
  ASSUME Inv, NEW c \in Client, NEW e \in Estate, Holds(c, e, "execute")
  PROVE  /\ request[c] \in ExecuteRequest /\ request[c].estate = e
         /\ request[c].todo \subseteq Op /\ request[c].wrote \subseteq Op
         /\ request[c].authorization \in Authorization
         /\ Gate(target[e], request[c].authorization, request[c].plan)
         /\ CarriesEvidence(c) /\ Asks(c, "execute")
<1>. USE DEF Holds
<1>1. request[c] \in ExecuteRequest /\ request[c] # None /\ request[c].estate = e
  BY HolderLemma
<1>2. Gate(target[e], request[c].authorization, request[c].plan)
  BY <1>1 DEF Inv, PassedGate
<1>. QED  BY <1>1, <1>2 DEF Inv, Asks, ExecuteRequest

\* An operation taken off what a run has to do, written or not.
LEMMA TakeOffLemma ==
  ASSUME Inv, NEW c \in Client, NEW e \in Estate, Holds(c, e, "execute"),
         NEW o \in request[c].todo, NEW new \in SUBSET {o},
         request' \in [Client -> Request \cup {None}],
         request'[c] = [request[c] EXCEPT !.todo = @ \ {o}, !.wrote = @ \cup new],
         UNCHANGED <<process, target, holder, previewed>>,
         written \subseteq written', new \subseteq (WrittenOn(e))'
  PROVE  CarriesEvidence(c)' /\ PassedGate(c)' /\ CarriesWrites(c)'
<1>1. /\ request[c] \in ExecuteRequest /\ request[c].estate = e
      /\ Gate(target[e], request[c].authorization, request[c].plan)
      /\ CarriesEvidence(c) /\ Asks(c, "execute")
  BY RunLemma
<1>2. /\ request'[c] \in ExecuteRequest
      /\ request'[c].kind = "execute" /\ request'[c].estate = e
      /\ request'[c].plan = request[c].plan
      /\ request'[c].authorization = request[c].authorization
      /\ request'[c].todo = request[c].todo \ {o}
      /\ request'[c].wrote = request[c].wrote \cup new
  BY <1>1 DEF ExecuteRequest
<1>3. request[c].wrote \subseteq (WrittenOn(e))'
  BY <1>1 DEF CarriesEvidence, WrittenOn
<1>4. CarriesEvidence(c)'
  BY <1>1, <1>2, <1>3 DEF CarriesEvidence, AcceptsHeaders, WrittenOn
<1>5. CarriesWrites(c)'
  BY <1>2 DEF CarriesWrites, Asks
<1>6. PassedGate(c)'
  <2>1. request'[c] # None
    BY <1>2, NoneIsNoRequest DEF Request
  <2>2. \A f \in Estate : holder[f] = c => f = e
    BY HolderLemma DEF Holds
  <2>. QED  BY <1>1, <1>2, <2>1, <2>2 DEF PassedGate
<1>. QED  BY <1>4, <1>5, <1>6

\* What a run writes is of the plan its authorization covers.
LEMMA WriteInv ==
  ASSUME Inv, NEW c \in Client, NEW e \in Estate, Write(c, e) PROVE Inv'
<1>. USE DEF Write
<1>. DEFINE a == request[c].authorization
<1>. PICK o \in Ready(c) :
       /\ request' = [request EXCEPT ![c].todo = @ \ {o}, ![c].wrote = @ \cup {o}]
       /\ written' = written \cup {[op |-> o, estate |-> e, by |-> a, at |-> clock]}
  OBVIOUS
<1>1. /\ request[c] \in ExecuteRequest /\ request[c].estate = e
      /\ request[c].todo \subseteq Op /\ o \in request[c].todo
      /\ a \in Authorization /\ Gate(target[e], a, request[c].plan)
      /\ CarriesEvidence(c) /\ Asks(c, "execute")
  BY RunLemma DEF Ready
<1>2. /\ request'[c] = [request[c] EXCEPT !.todo = @ \ {o}, !.wrote = @ \cup {o}]
      /\ \A d \in Client \ {c} : request'[d] = request[d]
      /\ request' \in [Client -> Request \cup {None}]
  <2>1. [request[c] EXCEPT !.todo = @ \ {o}, !.wrote = @ \cup {o}] \in ExecuteRequest
    BY <1>1 DEF ExecuteRequest
  <2>. QED  BY <2>1 DEF Inv, TypeOK, Request
<1>3. TypeOK'
  <2>1. written' \subseteq [op : Op, estate : Estate, by : Authorization, at : 0..MaxTime]
    BY <1>1 DEF Inv, TypeOK
  <2>. QED  BY <1>2, <2>1 DEF Inv, TypeOK
<1>4. ReceiptIsPreviewed'
  BY DEF Inv, ReceiptIsPreviewed
<1>5. {o} \subseteq (WrittenOn(e))'
  <2>. DEFINE w == [op |-> o, estate |-> e, by |-> a, at |-> clock]
  <2>1. w.op = o /\ w.estate = e
    OBVIOUS
  <2>2. w \in written'
    OBVIOUS
  <2>. HIDE DEF w
  <2>. QED  BY <2>1, <2>2 DEF WrittenOn
<1>6. CarriesEvidence(c)' /\ PassedGate(c)' /\ CarriesWrites(c)'
  <2>1. {o} \in SUBSET {o} /\ written \subseteq written'
    OBVIOUS
  <2>. QED  BY <1>1, <1>2, <1>5, <2>1, TakeOffLemma
<1>7. ASSUME NEW w \in written' \ written
      PROVE  CoveredWrite(w)'
  <2>1. w = [op |-> o, estate |-> e, by |-> a, at |-> clock]
    OBVIOUS
  <2>2. a.receipt = request[c].plan /\ EmergencySites(a.receipt) \subseteq a.confirmed
    BY <1>1 DEF Gate, AssertCovers
  <2>3. /\ [estate |-> e, plan |-> a.receipt] \in previewed
        /\ AuthorizationValid(a) /\ AcceptsHeaders /\ o \in a.receipt
    BY <1>1, <2>2 DEF CarriesEvidence
  <2>4. MayBeWritten(target[e])
    BY <1>1 DEF Gate, MayBeWritten
  <2>. QED  BY <2>1, <2>2, <2>3, <2>4 DEF CoveredWrite, AcceptsHeaders
<1>8. UndoesOnlyWrites' /\ OpenedIsTested'
  BY HistoryLemma
<1>. QED  BY <1>2, <1>3, <1>4, <1>6, <1>7, <1>8, ClientLemma

\* An operation with nothing to change is done with, and in no bundle.
LEMMA SkipInv ==
  ASSUME Inv, NEW c \in Client, NEW e \in Estate, SkipNoChange(c, e) PROVE Inv'
<1>. USE DEF SkipNoChange
<1>. PICK o \in Ready(c) : request' = [request EXCEPT ![c].todo = @ \ {o}]
  OBVIOUS
<1>1. request[c] \in ExecuteRequest /\ o \in request[c].todo
  BY RunLemma DEF Ready
<1>2. /\ request'[c] = [request[c] EXCEPT !.todo = @ \ {o}, !.wrote = @ \cup {}]
      /\ \A d \in Client \ {c} : request'[d] = request[d]
      /\ request' \in [Client -> Request \cup {None}]
  <2>1. /\ [request[c] EXCEPT !.todo = @ \ {o}] \in ExecuteRequest
        /\ [request[c] EXCEPT !.todo = @ \ {o}]
              = [request[c] EXCEPT !.todo = @ \ {o}, !.wrote = @ \cup {}]
    BY <1>1 DEF ExecuteRequest
  <2>. QED  BY <2>1 DEF Inv, TypeOK, Request
<1>3. TypeOK'
  BY <1>2 DEF Inv, TypeOK
<1>4. ReceiptIsPreviewed'
  BY DEF Inv, ReceiptIsPreviewed
<1>5. CarriesEvidence(c)' /\ PassedGate(c)' /\ CarriesWrites(c)'
  <2>. DEFINE new == {}
  <2>1. new \in SUBSET {o} /\ new \subseteq (WrittenOn(e))'
    OBVIOUS
  <2>2. request'[c] = [request[c] EXCEPT !.todo = @ \ {o}, !.wrote = @ \cup new]
    BY <1>2
  <2>3. written \subseteq written'
    OBVIOUS
  <2>. HIDE DEF new
  <2>. QED  BY <1>1, <1>2, <2>1, <2>2, <2>3, TakeOffLemma
<1>6. UndoesOnlyWrites' /\ OpenedIsTested'
  BY HistoryLemma
<1>. QED  BY <1>2, <1>3, <1>4, <1>5, <1>6, ClientLemma

\* The bundle of a run, also of one that ends early, holds what it wrote.
LEMMA RunReturnsInv ==
  ASSUME Inv, NEW c \in Client, NEW e \in Estate, RunReturns(c, e) PROVE Inv'
<1>. USE DEF RunReturns
<1>. DEFINE b == [estate |-> e, ops |-> request[c].wrote]
<1>1. request[c].wrote \subseteq WrittenOn(e) /\ request[c].wrote \subseteq Op
  BY RunLemma DEF CarriesEvidence
<1>2. b \in [estate : Estate, ops : SUBSET Op] /\ b.ops \subseteq WrittenOn(b.estate)
  BY <1>1
<1>3. bundles' \subseteq bundles \cup {b}
  OBVIOUS
<1>. HIDE DEF b
<1>4. holder[e] = c
  BY DEF Holds
<1>5. TypeOK'
  BY <1>2, <1>3, <1>4, LeaveLemma DEF Inv, TypeOK
<1>6. ReceiptIsPreviewed'
  BY DEF Inv, ReceiptIsPreviewed
<1>7. UndoesOnlyWrites'
  BY <1>2, <1>3 DEF Inv, UndoesOnlyWrites, WrittenOn, AcceptsHeaders
<1>8. OpenedIsTested'
  BY HistoryLemma
<1>. QED  BY <1>4, <1>5, <1>6, <1>7, <1>8, LeaveLemma, ClientLemma

LEMMA UndoInv ==
  ASSUME Inv, NEW c \in Client, NEW e \in Estate, Undo(c, e) PROVE Inv'
<1>. USE DEF Undo
<1>. DEFINE u(o) == [op |-> o, of |-> request[c].of, on |-> e]
<1>. PICK o \in request[c].todo :
       /\ request' = [request EXCEPT ![c].todo = @ \ {o}]
       /\ undone' = undone \cup {u(o)} \/ undone' = undone
  OBVIOUS
<1>1. /\ request[c] \in RollbackRequest /\ request[c] # None
      /\ request[c].estate = e /\ request[c].of \in Estate /\ request[c].todo \subseteq Op
      /\ \A f \in Estate : holder[f] = c => f = e
  BY HolderLemma DEF RollbackRequest, Holds
<1>2. /\ request'[c] = [request[c] EXCEPT !.todo = @ \ {o}]
      /\ \A d \in Client \ {c} : request'[d] = request[d]
  BY DEF Inv, TypeOK
<1>3. /\ request'[c] \in RollbackRequest
      /\ request'[c].kind = "rollback"
      /\ request'[c].estate = e /\ request'[c].of = request[c].of
      /\ request'[c].todo = request[c].todo \ {o}
  BY <1>1, <1>2 DEF RollbackRequest
<1>4. AcceptsHeaders /\ request[c].todo \subseteq WrittenOn(request[c].of)
  BY <1>1 DEF Inv, CarriesWrites, Asks, Holds
<1>5. TypeOK'
  <2>1. request' \in [Client -> Request \cup {None}]
    BY <1>2, <1>3 DEF Inv, TypeOK, Request
  <2>2. u(o) \in [op : Op, of : Estate, on : Estate]
    BY <1>1
  <2>. HIDE DEF u
  <2>3. undone' \subseteq [op : Op, of : Estate, on : Estate]
    BY <2>2 DEF Inv, TypeOK
  <2>. QED  BY <2>1, <2>3 DEF Inv, TypeOK
<1>6. ReceiptIsPreviewed'
  BY DEF Inv, ReceiptIsPreviewed
<1>7. CarriesEvidence(c)' /\ CarriesWrites(c)'
  BY <1>3, <1>4 DEF CarriesEvidence, CarriesWrites, Asks, WrittenOn, AcceptsHeaders
<1>8. PassedGate(c)'
  <2>1. request'[c] # None
    BY <1>3, NoneIsNoRequest DEF Request
  <2>. QED  BY <1>1, <1>3, <2>1 DEF PassedGate
<1>9. UndoesOnlyWrites'
  <2>1. u(o).op = o /\ u(o).of = request[c].of
    OBVIOUS
  <2>. HIDE DEF u
  <2>2. ASSUME NEW v \in undone'
        PROVE  v.op \in WrittenOn(v.of) /\ AcceptsHeaders
    <3>1. CASE v \in undone
      BY <3>1 DEF Inv, UndoesOnlyWrites
    <3>2. CASE v = u(o)
      BY <1>4, <2>1, <3>2
    <3>. QED  BY <3>1, <3>2
  <2>. QED  BY <2>2 DEF Inv, UndoesOnlyWrites, WrittenOn, AcceptsHeaders
<1>10. OpenedIsTested'
  BY HistoryLemma
<1>. QED  BY <1>2, <1>5, <1>6, <1>7, <1>8, <1>9, <1>10, ClientLemma

LEMMA RollbackReturnsInv ==
  ASSUME Inv, NEW c \in Client, NEW e \in Estate, RollbackReturns(c, e) PROVE Inv'
<1>. USE DEF RollbackReturns, Holds
<1>1. TypeOK'
  BY LeaveLemma DEF Inv, TypeOK
<1>2. ReceiptIsPreviewed'
  BY DEF Inv, ReceiptIsPreviewed
<1>3. UndoesOnlyWrites' /\ OpenedIsTested'
  BY HistoryLemma
<1>. QED  BY <1>1, <1>2, <1>3, LeaveLemma, ClientLemma

-----------------------------------------------------------------------------
\* Time passes, and an authorization stays valid: it keeps the instant it was
\* evaluated at (which is why WritesWithinWindow is not among the theorems).
LEMMA TickInv ==
  ASSUME Inv, Tick \/ UNCHANGED vars
  PROVE  Inv'
<1>. USE ChangeControlAssumption
<1>1. /\ UNCHANGED <<process, target, runs, plan, receipt, request, holder, bundles,
                     calls, previewed, written, undone, opened>>
      /\ clock' \in 0..MaxTime
  BY DEF Inv, TypeOK, Tick, vars
<1>2. TypeOK'
  BY <1>1 DEF Inv, TypeOK
<1>3. ReceiptIsPreviewed'
  BY <1>1 DEF Inv, ReceiptIsPreviewed
<1>4. ASSUME NEW c \in Client
      PROVE  CarriesEvidence(c)' /\ PassedGate(c)' /\ CarriesWrites(c)'
  BY <1>1, KeepsLemma
<1>5. /\ \A w \in written' : CoveredWrite(w)'
      /\ UndoesOnlyWrites' /\ OpenedIsTested'
  BY <1>1, HistoryLemma
<1>. QED  BY <1>2, <1>3, <1>4, <1>5 DEF Inv

LEMMA StepInv == Inv /\ [Next]_vars => Inv'
<1>. SUFFICES ASSUME Inv, [Next]_vars PROVE Inv'
  OBVIOUS
<1>1. CASE Tick \/ UNCHANGED vars
  BY <1>1, TickInv
<1>2. CASE \E c \in Client : TestConnection(c)
  BY <1>2, TestConnectionInv
<1>3. CASE \E c \in Client, e \in Estate :
             \/ BuildPlan(c, e) \/ DryRun(c, e) \/ Execute(c, e) \/ Rollback(c, e)
             \/ Enter(c, e) \/ DryRunReturns(c, e)
             \/ Write(c, e) \/ SkipNoChange(c, e) \/ RunReturns(c, e)
             \/ Undo(c, e) \/ RollbackReturns(c, e)
  BY <1>3, BuildPlanInv, DryRunInv, ExecuteInv, RollbackInv, EnterInv,
     DryRunReturnsInv, WriteInv, SkipInv, RunReturnsInv, UndoInv, RollbackReturnsInv
<1>. QED  BY <1>1, <1>2, <1>3 DEF Next

LEMMA InvHolds == Spec => []Inv
BY InitInv, StepInv, PTL DEF Spec

-----------------------------------------------------------------------------
(* A profile the factory opens is one the table of transports offers.      *)

LEMMA OfferedLemma ==
  ASSUME NEW p \in Profiles, OpenOutcome(p, Env) = "connected"
  PROVE  CanOpen(p) /\ p.credential.tenant \in {None, p.tenant}
<1>1. /\ p.mode = "LIVE" /\ FactoryAccepts(p)
      /\ CanServe(p.credential, p.tenant, Env)
  BY DEF OpenOutcome
<1>2. p.endpoint # None
  BY <1>1, ChangeControlAssumption DEF ValidProfile
<1>3. /\ TransportKind(p) \in DOMAIN TransportSupport(p.connector)
      /\ TransportSupport(p.connector)[TransportKind(p)]
  <2>1. CASE p.connector = "cisco-cucm"
    BY <1>1, <1>2, <2>1 DEF FactoryAccepts, CucmAccepts, TransportKind, TransportSupport
  <2>2. CASE p.connector = "slack"
    BY <1>1, <1>2, <2>2 DEF FactoryAccepts, TransportKind, TransportSupport
  <2>3. CASE p.connector = "genesys-cloud"
    BY <1>1, <1>2, <2>3 DEF FactoryAccepts, TransportKind, TransportSupport
  <2>. QED  BY <1>1, <2>1, <2>2, <2>3 DEF FactoryAccepts
<1>4. CanOpen(p)
  BY <1>1, <1>3 DEF CanOpen, Blocked
<1>. QED  BY <1>1, <1>4 DEF CanServe

-----------------------------------------------------------------------------
(* Every variable keeps its type, whoever calls what.                      *)
THEOREM TypesHold == Spec => []TypeOK
BY InvHolds, PTL DEF Inv

(* Whatever was replanned, previewed or waited for in between, a run       *)
(* writes only operations of a plan that was dry-run on this target, and   *)
(* its authorization carries that dry run's receipt.                       *)
THEOREM RunsWriteWhatWasPreviewed == Spec => []WrittenAsPreviewed
<1>1. Inv => WrittenAsPreviewed
  BY DEF Inv, CoveredWrite, WrittenAsPreviewed
<1>. QED  BY <1>1, InvHolds, PTL

(* Emergency calling at a site is only written under an authorization that *)
(* confirms the site.                                                      *)
THEOREM EmergencyWritesAreConfirmed == Spec => []EmergencySitesConfirmed
<1>1. Inv => EmergencySitesConfirmed
  <2>. SUFFICES ASSUME Inv, NEW w \in written, Desc[w.op].kind \in EmergencyKind,
                       Desc[w.op].site # None
                PROVE  Desc[w.op].site \in w.by.confirmed
    BY DEF EmergencySitesConfirmed
  <2>1. w.op \in w.by.receipt /\ EmergencySites(w.by.receipt) \subseteq w.by.confirmed
    BY DEF Inv, CoveredWrite
  <2>2. Desc[w.op].site \in EmergencySites(w.by.receipt)
    BY <2>1 DEF EmergencySites
  <2>. QED  BY <2>1, <2>2
<1>. QED  BY <1>1, InvHolds, PTL

(* What a run writes, it writes to a verified connector with a read-write  *)
(* credential, with two approvers and a window open or overridden when it  *)
(* was authorized; what a rollback undoes, on whichever estate, a run of   *)
(* the estate it is of wrote so.  Neither happens in a process that does   *)
(* not accept its callers' identity.                                       *)
THEOREM EveryChangeRestsOnEvidence == Spec => []ChangesRestOnEvidence
<1>1. Inv => ChangesRestOnEvidence
  <2>. SUFFICES ASSUME Inv PROVE ChangesRestOnEvidence
    OBVIOUS
  <2>1. \A w \in written : CoveredWrite(w)
    BY DEF Inv
  <2>2. \A u \in undone : (\E w \in written : w.op = u.op /\ w.estate = u.of) /\ AcceptsHeaders
    BY DEF Inv, UndoesOnlyWrites, WrittenOn
  <2>3. written \cup undone # {} => AcceptsHeaders
    BY <2>1, <2>2 DEF CoveredWrite
  <2>. QED  BY <2>1, <2>2, <2>3 DEF ChangesRestOnEvidence, CoveredWrite, AuthorizationValid
<1>. QED  BY <1>1, InvHolds, PTL

(* A connection that opens was offered by the Connections screen, and its  *)
(* credential is the profile's own tenant's or nobody's.                   *)
THEOREM WhatOpensWasOffered == Spec => []OpenedAsOffered
<1>1. Inv => OpenedAsOffered
  <2>. SUFFICES ASSUME Inv, NEW t \in opened, t.outcome = "connected"
                PROVE  t.can_open /\ t.profile.credential.tenant \in {None, t.profile.tenant}
    BY DEF OpenedAsOffered
  <2>. PICK p \in Profiles :
         t = [profile |-> p, can_open |-> CanOpen(p), outcome |-> OpenOutcome(p, Env)]
    BY DEF Inv, OpenedIsTested
  <2>1. t.profile = p /\ t.can_open = CanOpen(p) /\ t.outcome = OpenOutcome(p, Env)
    OBVIOUS
  <2>. QED  BY <2>1, OfferedLemma
<1>. QED  BY <1>1, InvHolds, PTL
=============================================================================
