------------------------------ MODULE Porting ------------------------------
(***************************************************************************)
(* Number-porting orders (repatriation/porting.py, the PortingRecord of    *)
(* canonical/numbering.py): the order as a state machine whose transitions *)
(* are listed, the dual-homed window between the carrier's start and its   *)
(* end, and what is read off the orders: readiness, the LOA packet, the    *)
(* cutover window, the numbers in flight and the schedule risk.            *)
(*                                                                         *)
(* A record is a value: transition() returns a copy, the caller keeps it.  *)
(* The fields a human fills in are abstracted to whether they are there.   *)
(***************************************************************************)
EXTENDS Naturals, FiniteSets

CONSTANTS PortOrder,    \* the orders of a repatriation
          CarrierNumber,\* the numbers they port
          NumbersOf,    \* NumbersOf[o]: the numbers o lists ("numbers")
          NumberRefsOf, \* NumberRefsOf[o]: those it refers to ("number_refs")
          MaxAmendments \* bound: how often a human edits an order

ASSUME PortingAssumption ==
    /\ NumbersOf \in [PortOrder -> SUBSET CarrierNumber]
    /\ NumberRefsOf \in [PortOrder -> SUBSET CarrierNumber]
    /\ MaxAmendments \in Nat

VARIABLES orders,       \* the records, as their holder keeps them
          amendments    \* edits made so far

portingVars == <<orders, amendments>>
-----------------------------------------------------------------------------
PortOrderState ==
    {"DRAFT", "LOA_PENDING", "SUBMITTED", "CARRIER_VALIDATING", "REJECTED",
     "FOC_RECEIVED", "SCHEDULED", "IN_CUTOVER", "COMPLETED", "CANCELLED"}

\* Legal transitions; anything not listed is refused.
AllowedTransitions ==
    [s \in PortOrderState |->
        CASE s = "DRAFT" -> {"LOA_PENDING", "CANCELLED"}
          [] s = "LOA_PENDING" -> {"SUBMITTED", "CANCELLED"}
          [] s = "SUBMITTED" ->
                {"CARRIER_VALIDATING", "REJECTED", "CANCELLED"}
          [] s = "CARRIER_VALIDATING" ->
                {"FOC_RECEIVED", "REJECTED", "CANCELLED"}
          [] s = "REJECTED" -> {"DRAFT", "CANCELLED"}
          [] s = "FOC_RECEIVED" -> {"SCHEDULED", "REJECTED", "CANCELLED"}
          [] s = "SCHEDULED" -> {"IN_CUTOVER", "CANCELLED"}
          [] s = "IN_CUTOVER" -> {"COMPLETED", "REJECTED"}
          [] OTHER -> {}]

\* csr: the carriers and every required CSR field are there; loa: a signed
\* Letter of Authority is on file; foc: the losing carrier confirmed a date.
PortingRecord ==
    [state : PortOrderState, csr : BOOLEAN, loa : BOOLEAN, foc : BOOLEAN,
     dual_homed : BOOLEAN]

\* mutant: the end of the cutover leaves the flag alone
TransitionedFlagKept(r, to) ==
    [r EXCEPT !.state = to, !.dual_homed = (to = "IN_CUTOVER") \/ @]

\* transition(): the copy with its new state.  The number is in both estates
\* from the start of the cutover until the carrier finishes.
Transitioned(r, to) ==
    [r EXCEPT !.state = to,
              !.dual_homed = IF to = "IN_CUTOVER" THEN TRUE
                             ELSE IF to = "COMPLETED" THEN FALSE ELSE @]

\* assess_readiness(): the reasons that stand against submitting an order.
\* References to numbers will do, listed or not.
BlockingReasons(o) ==
    {x \in {"numbers", "csr", "loa"} :
        \/ x = "numbers" /\ NumbersOf[o] = {} /\ NumberRefsOf[o] = {}
        \/ x = "csr" /\ ~orders[o].csr
        \/ x = "loa" /\ ~orders[o].loa}

\* build_loa_packet() refuses on anything missing but the letter itself.
LoaPacketBuilt(o) == BlockingReasons(o) \subseteq {"loa"}

\* plan_cutover_window(): only from a date the losing carrier confirmed.
CutoverWindowPlanned(o) == orders[o].foc

\* numbers_in_flight(): what coexistence routing is told is in both estates.
\* Only the listed numbers are looked at.
NumbersInFlight ==
    UNION {NumbersOf[o] : o \in {p \in PortOrder : orders[p].dual_homed}}

\* schedule_risk(): submitted orders without a date.  (Dates themselves are
\* left out; with one, the lead time decides.)
WithoutTargetDate ==
    {o \in PortOrder :
        ~orders[o].foc /\ orders[o].state \notin {"DRAFT", "CANCELLED"}}
-----------------------------------------------------------------------------
PortingInit ==
    /\ orders = [o \in PortOrder |->
            [state |-> "DRAFT", csr |-> FALSE, loa |-> FALSE, foc |-> FALSE,
             dual_homed |-> FALSE]]
    /\ amendments = 0

\* A caller moves an order on; an illegal move raises and changes nothing.
Transition(o, to) ==
    /\ to \in AllowedTransitions[orders[o].state]
    /\ orders' = [orders EXCEPT ![o] = Transitioned(@, to)]
    /\ UNCHANGED amendments

\* A human fills in what was missing, or the carrier commits to a date.
Amend(o, field) ==
    /\ amendments < MaxAmendments
    /\ ~orders[o][field]
    /\ orders' = [orders EXCEPT ![o][field] = TRUE]
    /\ amendments' = amendments + 1

PortingNext ==
    \E o \in PortOrder :
        \/ \E to \in PortOrderState : Transition(o, to)
        \/ \E field \in {"csr", "loa", "foc"} : Amend(o, field)

PortingSpec == PortingInit /\ [][PortingNext]_portingVars
-----------------------------------------------------------------------------
PortingTypeOK ==
    /\ orders \in [PortOrder -> PortingRecord]
    /\ amendments \in 0..MaxAmendments

\* While the carrier is cutting an order over, coexistence routing is told that
\* the numbers it lists are live in both estates, whatever way the order got
\* there; once the port is completed it no longer is, unless another order
\* lists the number too (transition() and numbers_in_flight).
CutoverIsDualHomed ==
    \A o \in PortOrder :
        /\ orders[o].state = "IN_CUTOVER" => NumbersOf[o] \subseteq NumbersInFlight
        /\ orders[o].state = "COMPLETED" =>
              \A n \in NumbersOf[o] \cap NumbersInFlight :
                  \E p \in PortOrder \ {o} :
                      n \in NumbersOf[p] /\ orders[p].dual_homed

\* "Coexistence routing must account for these": every number of an order that
\* is being cut over.  Not kept: a number the order only refers to is accepted
\* by assess_readiness and announced by nobody.
PortedNumbersInFlight ==
    \A o \in PortOrder :
        orders[o].state = "IN_CUTOVER" =>
            NumbersOf[o] \cup NumberRefsOf[o] \subseteq NumbersInFlight

\* "Numbers currently dual-homed": what numbers_in_flight returns is being cut
\* over.  Not kept: a cutover the carrier rejects leaves the flag set, also
\* after the order went back to draft or was cancelled.
OnlyCutoversInFlight ==
    \A o \in PortOrder : orders[o].dual_homed => orders[o].state = "IN_CUTOVER"

\* "Can this order be submitted? Says exactly what is missing."  Not kept:
\* transition() does not ask assess_readiness.
SubmittedOrdersAreReady ==
    \A o \in PortOrder :
        orders[o].state \in {"SUBMITTED", "CARRIER_VALIDATING"}
            => BlockingReasons(o) = {}
=============================================================================
