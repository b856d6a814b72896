--------------------------- MODULE VendorExtract ---------------------------
(***************************************************************************)
(* What the read-only connectors, the extracting side of the Teams         *)
(* connector and the reference connector read, and what they make of it    *)
(* (connectors/{avaya,slack,sfb,genesys,teams,reference}/connector.py).    *)
(*                                                                         *)
(* An extraction is a script of calls; log holds the calls made so far     *)
(* with the rows each answered, and what has been read may decide what is  *)
(* called next.  Rows are as in CucmExtract; a telephone number stands for *)
(* the number it denotes however the platform writes it.                   *)
(***************************************************************************)
EXTENDS Canonical

Rows(log, call) ==
  LET i == CHOOSE j \in DOMAIN log : log[j].call = call
  IN log[i].rows

EntitiesWhen(condition, Map(_), log, call) ==
  IF condition THEN Mapped(Map, Rows(log, call)) ELSE <<>>

----------------------------------------------------------------------------
(* Avaya Communication Manager, through SAT screens. *)

AvayaKinds ==
  {"Extension", "Line", "Device", "CallingPermission", "ForwardingRule", "HuntGroup", "User"}

AvayaTestCall == <<"status", "system 1">>

SatReads == {"display", "list", "status"}

ListStation == <<"list", "station">>
DisplayStation(ext) == <<"display", "station", ext>>
DisplayCoverage(path) == <<"display", "coverage path", path>>
ListHuntGroup == <<"list", "hunt-group">>
SmgrUsers == <<"SMGR", "users">>

Distinct(rows, Field(_)) == SetToSeq({Field(r) : r \in ToSet(rows)} \ {None})

Cors(stations) == Distinct(stations, LAMBDA r : r.cor)
CoveragePaths(stations) == Distinct(stations, LAMBDA r : r.path)

(* Every station is displayed whatever is wanted; the list of stations is  *)
(* read once, before all of them.                                          *)
AvayaScript(wanted, log) ==
  IF log = <<>> THEN <<ListStation>>
  ELSE LET stations == Rows(log, ListStation)
       IN <<ListStation>>
          \o [i \in DOMAIN stations |-> DisplayStation(stations[i].ext)]
          \o When("ForwardingRule" \in wanted,
                  [i \in DOMAIN CoveragePaths(stations) |->
                     DisplayCoverage(CoveragePaths(stations)[i])])
          \o When("HuntGroup" \in wanted, <<ListHuntGroup>>)
          \o When("User" \in wanted, <<SmgrUsers>>)

CorName(cor) == <<"COR", cor>>

AvayaCor(cor) == Entity("CallingPermission", <<CorName(cor)>>, {}, "DEGRADED")

(* owner_ref is always None and nothing fills it in. *)
AvayaExtension(ext) == Entity("Extension", <<ext>>, {}, "DEGRADED")

AvayaLine(ext, form) ==
  Entity("Line", <<ext, None>>,
         Ref("Extension", ext)
           \cup (IF form.cor = None THEN {} ELSE Ref("CallingPermission", CorName(form.cor))),
         Assess(form, FALSE))

(* A station without a set type yields no device. *)
AvayaDevice(ext, form) ==
  IF form.type = None THEN <<>>
  ELSE <<Entity("Device", <<ext>>, {Id("Line", <<ext, None>>)},
                Assess(form, form.type \in {"analogue", "legacy"}))>>

AvayaStation(wanted, ext, form) ==
  When("Extension" \in wanted, <<AvayaExtension(ext)>>)
    \o When("Line" \in wanted, <<AvayaLine(ext, form)>>)
    \o When("Device" \in wanted, AvayaDevice(ext, form))

(* One forwarding rule per criterion that is set. *)
AvayaCoverage(path, form) ==
  LET rule(condition) == Entity("ForwardingRule", <<path, condition>>, {}, "DEGRADED")
  IN SetToSeq({rule(c) : c \in form.criteria})

AvayaHuntGroup(r) == Entity("HuntGroup", <<r.ext>>, {}, "DEGRADED")

AvayaUser(r) == Entity("User", <<r.login>>, Ref("Extension", r.ext), "DEGRADED")

AvayaEntities(wanted, log) ==
  LET stations == Rows(log, ListStation)
      form(call) == Head(Rows(log, call))
  IN When("CallingPermission" \in wanted,
          [i \in DOMAIN Cors(stations) |-> AvayaCor(Cors(stations)[i])])
     \o FlattenSeq([i \in DOMAIN stations |->
          AvayaStation(wanted, stations[i].ext, form(DisplayStation(stations[i].ext)))])
     \o When("ForwardingRule" \in wanted,
          FlattenSeq([i \in DOMAIN CoveragePaths(stations) |->
            AvayaCoverage(CoveragePaths(stations)[i],
                          form(DisplayCoverage(CoveragePaths(stations)[i])))]))
     \o EntitiesWhen("HuntGroup" \in wanted, AvayaHuntGroup, log, ListHuntGroup)
     \o EntitiesWhen("User" \in wanted, AvayaUser, log, SmgrUsers)

----------------------------------------------------------------------------
(* Slack.  Every list is one request: the first page is all that is read.  *)

SlackKinds == {"User", "Group", "ChatChannel", "ChannelMembership", "MessageArchive"}

SlackTestCall == <<"users.list">>

SlackChannelKinds == {"ChatChannel", "ChannelMembership", "MessageArchive"}

SlackScript(wanted) ==
  When("User" \in wanted, << <<"users.list">> >>)
    \o When("Group" \in wanted, << <<"usergroups.list">> >>)
    \o When(wanted \cap SlackChannelKinds # {}, << <<"conversations.list">> >>)

(* Bots and deleted accounts are skipped; a user goes by its e-mail. *)
SlackUser(r) ==
  Entity("User", <<IF r.email # None THEN r.email ELSE r.id>>, {}, Assess(r, FALSE))
SlackUsers(rows) == MappedWhen(LAMBDA r : ~r.skipped, SlackUser, rows)

SlackGroup(r) == Entity("Group", <<r.handle>>, {}, Assess(r, FALSE))

SlackChannel(r) ==
  Entity("ChatChannel", <<r.name>>, Ref("MessageArchive", r.name), Assess(r, FALSE))

(* The member is referred to by the id of the account. *)
SlackMemberships(r) ==
  SetToSeq({Entity("ChannelMembership", <<r.name, member>>,
                   Ref("ChatChannel", r.name) \cup Ref("User", member), "LOSSLESS")
              : member \in r.members})

(* History leaves the workspace on Enterprise Grid only. *)
SlackArchive(r) ==
  Entity("MessageArchive", <<r.name>>, Ref("ChatChannel", r.name),
         IF r.grid THEN "DEGRADED" ELSE "UNMAPPABLE")

SlackEntities(wanted, log) ==
  LET channels == <<"conversations.list">>
      wants(kind) == kind \in wanted
  IN When(wants("User"), IF wants("User") THEN SlackUsers(Rows(log, <<"users.list">>)) ELSE <<>>)
     \o EntitiesWhen(wants("Group"), SlackGroup, log, <<"usergroups.list">>)
     \o EntitiesWhen(wants("ChatChannel"), SlackChannel, log, channels)
     \o FlattenSeq(EntitiesWhen(wants("ChannelMembership"), SlackMemberships, log, channels))
     \o EntitiesWhen(wants("MessageArchive"), SlackArchive, log, channels)

----------------------------------------------------------------------------
(* Skype for Business Server. *)

SfbKinds == {"CallingPolicy", "DigitManipulationRule", "User", "CallQueue"}

SfbTestCall == <<"Get-CsUser">>

SfbScript(wanted) ==
  When("CallingPolicy" \in wanted, << <<"Get-CsVoicePolicy">> >>)
    \o When("DigitManipulationRule" \in wanted, << <<"Get-CsDialPlan">> >>)
    \o When("User" \in wanted, << <<"Get-CsTeamsUpgradePolicy">>, <<"Get-CsUser">> >>)
    \o When("CallQueue" \in wanted, << <<"Get-CsRgsQueue">>, <<"Get-CsRgsWorkflow">> >>)

SfbPolicy(r) == Entity("CallingPolicy", <<r.name>>, {}, Assess(r, FALSE))

(* One rule per normalisation rule with a pattern, keyed by plan and name. *)
SfbRules(plan) ==
  SetToSeq({Entity("DigitManipulationRule", <<plan.name, rule>>, {}, "LOSSLESS")
              : rule \in plan.rules})

(* _MODE_BY_POLICY, NOT_STAGED where no policy row names the user. *)
UpgradeMode(upgrade, user) ==
  LET of == {i \in DOMAIN upgrade : upgrade[i].user = user}
  IN IF of = {} THEN "NOT_STAGED" ELSE upgrade[Max(of)].mode

SfbUser(upgrade, r) ==
  Entity("User", <<r.user>>, {}, Assess(r, UpgradeMode(upgrade, r.user) = "ISLANDS"))

(* The crawl only warns of who has already moved. *)
AlreadyUpgraded(upgrade, users) ==
  {r.user : r \in {u \in ToSet(users) : UpgradeMode(upgrade, u.user) = "TEAMS_ONLY"}}

(* The agent groups of the queue a workflow names; none when the queue is  *)
(* not among those read before the workflows.                              *)
SfbCallQueue(queues, r) ==
  LET named == {i \in DOMAIN queues : queues[i].id = r.queue}
  IN Entity("CallQueue", <<r.name>>,
            IF named = {} THEN {} ELSE Refs("Group", queues[Max(named)].groups), "DEGRADED")

SfbEntities(wanted, log) ==
  EntitiesWhen("CallingPolicy" \in wanted, SfbPolicy, log, <<"Get-CsVoicePolicy">>)
    \o FlattenSeq(EntitiesWhen("DigitManipulationRule" \in wanted, SfbRules, log,
                               <<"Get-CsDialPlan">>))
    \o EntitiesWhen("User" \in wanted,
         LAMBDA r : SfbUser(Rows(log, <<"Get-CsTeamsUpgradePolicy">>), r), log, <<"Get-CsUser">>)
    \o EntitiesWhen("CallQueue" \in wanted,
         LAMBDA r : SfbCallQueue(Rows(log, <<"Get-CsRgsQueue">>), r), log,
         <<"Get-CsRgsWorkflow">>)

----------------------------------------------------------------------------
(* Genesys Cloud. *)

\* RoutingStrategy is declared and never produced.
GenesysKinds ==
  {"Skill", "Queue", "AgentProfile", "RoutingStrategy", "WrapUpCode", "RecordingPolicy"}

GenesysTestCall == <<"queues">>

(* The skills are read whatever is wanted. *)
GenesysScript(wanted) ==
  << <<"skills">> >>
    \o When("Queue" \in wanted, << <<"queues">> >>)
    \o When("WrapUpCode" \in wanted, << <<"wrapupcodes">> >>)
    \o When("AgentProfile" \in wanted, << <<"users">> >>)
    \o When("RecordingPolicy" \in wanted, << <<"mediaretentionpolicies">> >>)

GenesysSkill(r) == Entity("Skill", <<r.name>>, {}, Assess(r, FALSE))
GenesysQueue(r) == Entity("Queue", <<r.name>>, {}, Assess(r, FALSE))
GenesysWrapUp(r) == Entity("WrapUpCode", <<r.name>>, {}, Assess(r, FALSE))

(* rescale_proficiency: the loss is declared when the source scale is      *)
(* finer than 0-5 or empty.                                                *)
RescaleLoses(scale) == scale[2] <= scale[1] \/ scale[2] - scale[1] > 5

(* The agent's user is referred to and never extracted. *)
GenesysAgent(r) ==
  Entity("AgentProfile", <<r.email>>, Ref("User", r.email),
         Assess(r, \E scale \in r.scales : RescaleLoses(scale)))

GenesysRecording(r) == Entity("RecordingPolicy", <<r.name>>, {}, "DEGRADED")

GenesysEntities(wanted, log) ==
  EntitiesWhen("Skill" \in wanted, GenesysSkill, log, <<"skills">>)
    \o EntitiesWhen("Queue" \in wanted, GenesysQueue, log, <<"queues">>)
    \o EntitiesWhen("WrapUpCode" \in wanted, GenesysWrapUp, log, <<"wrapupcodes">>)
    \o EntitiesWhen("AgentProfile" \in wanted, GenesysAgent, log, <<"users">>)
    \o EntitiesWhen("RecordingPolicy" \in wanted, GenesysRecording, log,
                    <<"mediaretentionpolicies">>)

----------------------------------------------------------------------------
(* Microsoft Teams: the reading side. *)

TeamsKinds == {"EmergencyLocation", "E164Number", "User", "LicenseAssignment", "VoiceRoutingPolicy"}

TeamsTestCall == <<"Graph", "subscribedSkus">>

TeamsScript(wanted) ==
  When("EmergencyLocation" \in wanted, << <<"Get-CsOnlineLisLocation">> >>)
    \o When("E164Number" \in wanted, << <<"Get-CsPhoneNumberAssignment">> >>)
    \o When("VoiceRoutingPolicy" \in wanted, << <<"Get-CsOnlineVoiceRoutingPolicy">> >>)
    \o When(wanted \cap {"User", "LicenseAssignment"} # {}, << <<"Graph", "users">> >>)
    \o When("User" \in wanted, << <<"Get-CsOnlineUser">> >>)
    \o When("LicenseAssignment" \in wanted, << <<"Graph", "subscribedSkus">> >>)

(* A location goes by its description, or its city, and only then its id. *)
TeamsLocation(r) ==
  LET key == CASE r.description # None -> r.description
               [] r.description = None /\ r.city # None -> r.city
               [] OTHER -> r.location
  IN Entity("EmergencyLocation", <<key>>, {}, Assess(r, ~r.validated))

(* The location of a number is referred to by its id, its user by the id   *)
(* of the account.                                                         *)
TeamsNumber(r) ==
  Entity("E164Number", <<r.number>>,
         Ref("User", r.assigned) \cup Ref("EmergencyLocation", r.location), Assess(r, FALSE))

TeamsPolicy(r) ==
  Entity("VoiceRoutingPolicy", <<r.name>>, Refs("PSTNUsage", r.usages), Assess(r, FALSE))

(* The number of a user, cloud-held or else held on-premises, is known     *)
(* only to Teams; users come from the first page of Graph.                 *)
TeamsUser(voice, r) ==
  LET mine == {i \in DOMAIN voice : voice[i].upn = r.upn}
      line == IF mine = {} THEN None ELSE voice[Max(mine)].line
      onprem == IF mine = {} THEN None ELSE voice[Max(mine)].onprem
  IN Entity("User", <<r.upn>>, Ref("E164Number", IF line # None THEN line ELSE onprem),
            Assess(r, onprem # None /\ line = None))

TeamsLicences(r) ==
  SetToSeq({Entity("LicenseAssignment", <<r.upn, sku>>, Ref("User", r.upn), "LOSSLESS")
              : sku \in r.licences})

TeamsEntities(wanted, log) ==
  EntitiesWhen("EmergencyLocation" \in wanted, TeamsLocation, log, <<"Get-CsOnlineLisLocation">>)
    \o EntitiesWhen("E164Number" \in wanted, TeamsNumber, log, <<"Get-CsPhoneNumberAssignment">>)
    \o EntitiesWhen("VoiceRoutingPolicy" \in wanted, TeamsPolicy, log,
                    <<"Get-CsOnlineVoiceRoutingPolicy">>)
    \o EntitiesWhen("User" \in wanted,
         LAMBDA r : TeamsUser(Rows(log, <<"Get-CsOnlineUser">>), r), log, <<"Graph", "users">>)
    \o FlattenSeq(EntitiesWhen("LicenseAssignment" \in wanted, TeamsLicences, log,
                               <<"Graph", "users">>))

----------------------------------------------------------------------------
(* The reference connector: one synchronous read of the in-memory estate.  *)

ReferenceKinds == {"EmergencyLocation", "E164Number", "User", "Line"}

ReferenceTestCall == <<"list_records">>

ReferenceScript == << <<"list_records">> >>

ReferenceSite(r) ==
  Entity("EmergencyLocation", <<r.site>>, Ref("E164Number", r.elin),
         IF r.validated THEN "LOSSLESS" ELSE "DEGRADED")

ReferenceNumber(r) ==
  Entity("E164Number", <<r.number>>, Ref("User", r.user) \cup Ref("EmergencyLocation", r.site),
         "LOSSLESS")

ReferenceUser(r) == Entity("User", <<r.user>>, Ref("E164Number", r.did), "DEGRADED")

ReferenceLine(r) ==
  Entity("Line", <<r.extension, r.line>>, Ref("User", r.user) \cup Ref("E164Number", r.did),
         IF r.shared THEN "DEGRADED" ELSE "LOSSLESS")

(* Sites first, then numbers, users and lines; those that are wanted. *)
ReferenceEntities(wanted, log) ==
  LET estate == Head(Rows(log, <<"list_records">>))
  IN When("EmergencyLocation" \in wanted, Mapped(ReferenceSite, estate.sites))
     \o When("E164Number" \in wanted, Mapped(ReferenceNumber, estate.numbers))
     \o When("User" \in wanted, Mapped(ReferenceUser, estate.users))
     \o When("Line" \in wanted, Mapped(ReferenceLine, estate.lines))
=============================================================================
