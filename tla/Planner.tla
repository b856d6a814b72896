------------------------------ MODULE Planner ------------------------------
(***************************************************************************)
(* Plan building (pipeline/planner.py): entities become write operations   *)
(* in a fixed order of kinds, references become the target's native keys,  *)
(* and an operation depends only on operations of an earlier kind, so that *)
(* the genuine cycles among references do not reach the plan.              *)
(***************************************************************************)
EXTENDS Mapping

CONSTANT KeyFor(_)    \* natural_key_for of the target, None without a key

KindPrecedence == <<
    "EmergencyCallingPolicy", "EmergencyLocation", "EmergencyNumber",
    "RetentionPolicy", "CallingPolicy", "MeetingPolicy", "MessagingPolicy",
    "ComplianceRecordingPolicy", "TimeSchedule", "OrgUnit", "Carrier",
    "Partition", "CallingPermission", "NumberBlock", "DIDRange", "E164Number",
    "Extension", "EntitlementProfile", "Group", "User", "ServiceAccount",
    "LicenseAssignment", "SBCProfile", "DirectRoutingPSTNGateway", "Gateway",
    "SIPTrunk", "RouteGroup", "RouteList", "VoiceRoute", "PSTNUsage",
    "VoiceRoutingPolicy", "RoutePattern", "TranslationPattern",
    "DigitManipulationRule", "DevicePool", "SIPProfile", "ButtonTemplate",
    "Firmware", "Device", "DeviceProfile", "Line", "SharedLineAppearance",
    "LineGroup", "HuntGroup", "CallQueue", "AutoAttendant", "PickupGroup",
    "CallPark", "Intercom", "ForwardingRule", "SimRing", "Delegation",
    "SpeedDial", "ExtensionMobilityProfile", "VoicemailBox", "GreetingSet",
    "MWIConfig", "MessageStore", "TranscriptionSetting" >>

Unranked == Len(KindPrecedence) + 1000

\* precedence()
Precedence(kind) ==
    IF \E i \in 1..Len(KindPrecedence) : KindPrecedence[i] = kind
    THEN CHOOSE i \in 1..Len(KindPrecedence) : KindPrecedence[i] = kind
    ELSE Unranked

\* planned.sort(key=(precedence, canonical_id)); ids of one kind stand in any
\* order.
Before(d, e) == Precedence(d.kind) < Precedence(e.kind)

\* _op_id()
OpId(e) == <<e.kind, e.id>>

\* What is planned of the input: UNMAPPABLE entities are left to people.
Planned(input) == {e \in input : e.level # "UNMAPPABLE"}
Skipped(input) == {e.id : e \in {x \in input : x.level = "UNMAPPABLE"}}

Targets(e, among) == {t \in among : t.id \in References(e)}

\* mutant: an entity left out of the plan resolves like the others
ResolvableIfKnown(e, input, context) == Targets(e, input \cup context)

\* What a reference of an entity may name: what the plan writes, or what the
\* target is said to have already.
Resolvable(e, input, context) ==
    Targets(e, {t \in input \cup context :
                  t.id \in {p.id : p \in Planned(input) \cup context}})

Resolved(e, input, context) ==
    {t \in Resolvable(e, input, context) : KeyFor(t) # None}

\* UnresolvedReference: absent, excluded, or without a key on the target.
Unresolved(e, input, context) ==
    References(e) \ {t.id : t \in Resolved(e, input, context)}

\* mutant: an operation depends on whatever it names
DependsOnAll(e, input, context) ==
    {OpId(t) : t \in {x \in Resolved(e, input, context) :
        x.id \notin {c.id : c \in context}}}

\* Only on strictly earlier kinds, and on nothing the target has.
DependsOn(e, input, context) ==
    {OpId(t) : t \in {x \in Resolved(e, input, context) :
        /\ x.id \notin {c.id : c \in context}
        /\ Precedence(x.kind) < Precedence(e.kind)}}

\* WriteOperation: the idempotency key is the key on the target, if there is
\* one; "keys" is what the references of the payload became.
Operation(e, input, context) ==
    [id |-> OpId(e), entity |-> e,
     intent |-> IF KeyFor(e) = None THEN OpId(e) ELSE <<e.kind, KeyFor(e)>>,
     keys |-> {<<t.kind, KeyFor(t)>> : t \in Resolved(e, input, context)},
     depends_on |-> DependsOn(e, input, context)]

\* build_apply_plan(): "operations" is a set; Before is their order.
BuildResult(input, context) ==
    [operations |-> {Operation(e, input, context) : e \in Planned(input)},
     unresolved |-> UNION {{<<e.id, r>> : r \in Unresolved(e, input, context)} :
                                e \in Planned(input)},
     skipped |-> Skipped(input)]

=============================================================================
