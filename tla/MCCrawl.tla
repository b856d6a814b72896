------------------------------ MODULE MCCrawl ------------------------------
(***************************************************************************)
(* A small estate behind each connector, in two versions that one edit     *)
(* separates, and queues that bring two agents to them.                    *)
(***************************************************************************)
EXTENDS Crawl, TLC

CONSTANTS a1, a2, v1, v2,
  cucm, cucmLines, aura, slack, sfb, genesys, teams, memory, probe, write, wrong, late

MCQueues ==
  { <<cucm>>, <<cucmLines, late>>, <<aura>>, <<slack, wrong>>, <<sfb>>, <<genesys>>,
    <<teams>>, <<memory, probe, write>> }

MCConnectorOf ==
  [j \in Job |->
     CASE j \in {cucm, cucmLines} -> "cisco-cucm"
       [] j \in {aura, late}   -> "avaya-aura"
       [] j \in {slack, wrong} -> "slack"
       [] j = sfb     -> "microsoft-sfb-server"
       [] j = genesys -> "genesys-cloud"
       [] j = teams   -> "microsoft-teams"
       [] OTHER       -> "reference-memory"]

MCKindOf ==
  [j \in Job |-> CASE j = probe -> "CONNECTIVITY_TEST" [] j = write -> "APPLY"
                   [] j = cucmLines -> "VALIDATION_READ" [] OTHER -> "DISCOVERY"]

MCWantedOf ==
  [j \in Job |-> CASE j = cucmLines -> {"Line", "Extension"} [] j = wrong -> {"E164Number"}
                   [] OTHER -> {}]

MCLeaseEnds == [j \in Job |-> IF j = late THEN 1 ELSE 2]

MCCapabilities ==
  [a \in Agent |-> {MCConnectorOf[j] : j \in Job} \ (IF a = a2 THEN {"slack"} ELSE {})]

----------------------------------------------------------------------------
Line(pattern, partition) == [pattern |-> pattern, partition |-> partition]

\* 1001 is a line in two partitions; the edit moves one of them away.
CucmLines(v) ==
  << Line("1001", "internal"), Line(IF v = v1 THEN "1001" ELSE "1002", "lobby"),
     Line("+4989", "internal"), Line("9.@", None) >>

CucmRows(v, operation) ==
  CASE operation = "listRoutePartition" ->
         << [name |-> "internal"], [name |-> "lobby"], [name |-> "desk"], [name |-> "spare", unmapped |-> TRUE] >>
    [] operation = "listCss" -> << [name |-> "css", members |-> {"internal"}] >>
    [] operation = "listDevicePool" -> << [name |-> "pool", css |-> "css", srst |-> "gw"] >>
    [] operation = "listLine" -> CucmLines(v)
    [] operation = "listUser" ->
         << [userid |-> "ann", primary |-> "1001"],
            [userid |-> "bob", primary |-> IF v = v1 THEN None ELSE "1002"] >>
    [] operation = "listPhone" ->
         << [name |-> "SEP1", pool |-> "pool", owner |-> "ann", model |-> "7960"] >>
    [] operation = "listDeviceProfile" -> << [name |-> "profile"] >>
    [] operation = "listRoutePattern" ->
         << [pattern |-> "0.!", partition |-> "internal", destination |-> "list"],
            [pattern |-> "112", partition |-> None, destination |-> "gw"] >>
    [] operation = "listTransPattern" ->
         << [pattern |-> "8XXX", partition |-> "internal", css |-> "css"] >>
    [] operation = "listRouteList" -> << [name |-> "list", members |-> {"group"}] >>
    [] operation = "listRouteGroup" -> << [name |-> "group", members |-> {"trunk", "gw"}] >>
    [] operation = "listLineGroup" -> << [name |-> "agents", members |-> {"1001"}] >>
    [] operation = "listHuntPilot" -> << [pattern |-> "2000", partition |-> "desk"] >>
    [] operation = "listCallPickupGroup" -> << [name |-> "pickup", partition |-> None] >>
    [] operation = "listSipTrunk" -> << [name |-> "trunk", css |-> "css", pool |-> "pool"] >>
    [] OTHER -> << [version |-> "14"] >>

\* The edit removes a station.
AuraRows(v, call) ==
  CASE call = ListStation ->
         << [ext |-> "4001", cor |-> "1", path |-> "1"] >>
         \o When(v = v1, << [ext |-> "4002", cor |-> None, path |-> "1"] >>)
    [] call = DisplayStation("4001") -> << [cor |-> "1", type |-> "analogue"] >>
    [] call = DisplayStation("4002") ->
         IF v = v1 THEN << [cor |-> None, type |-> None] >> ELSE Refused
    [] call = DisplayCoverage("1") -> << [criteria |-> {"Busy", "All"}] >>
    [] call = ListHuntGroup -> << [ext |-> "4900"] >>
    [] call = SmgrUsers -> IF v = v1 THEN << [login |-> "ann", ext |-> "4001"] >> ELSE Refused
    [] OTHER -> << [system |-> "up"] >>

SlackRows(v, call) ==
  CASE call = <<"users.list">> ->
         << [id |-> "U1", email |-> "ann@x", skipped |-> FALSE],
            [id |-> "U2", email |-> None, skipped |-> v = v2],
            [id |-> "B1", email |-> None, skipped |-> TRUE] >>
    [] call = <<"usergroups.list">> -> << [handle |-> "ops"] >>
    [] call = <<"conversations.list">> ->
         << [name |-> "general", members |-> {"U1", "U2"}, grid |-> FALSE] >>

SfbRows(v, call) ==
  CASE call = <<"Get-CsVoicePolicy">> -> << [name |-> "Global"] >>
    [] call = <<"Get-CsDialPlan">> -> << [name |-> "Global", rules |-> {"local", "long"}] >>
    [] call = <<"Get-CsTeamsUpgradePolicy">> ->
         << [user |-> "ann", mode |-> "ISLANDS"], [user |-> "bob", mode |-> "TEAMS_ONLY"] >>
    [] call = <<"Get-CsUser">> -> << [user |-> "ann"], [user |-> "bob"], [user |-> "eve"] >>
    [] call = <<"Get-CsRgsQueue">> -> << [id |-> v, groups |-> {"desk"}] >>
    [] call = <<"Get-CsRgsWorkflow">> -> << [name |-> "sales", queue |-> v] >>

GenesysRows(v, call) ==
  CASE call = <<"users">> ->
         << [email |-> "ann@x", scales |-> {<<1, 10>>}], [email |-> "bob@x", scales |-> {<<0, 5>>}] >>
    [] OTHER -> IF v = v1 THEN << [name |-> "one"] >> ELSE << [name |-> "one"], [name |-> "two"] >>

TeamsRows(v, call) ==
  CASE call = <<"Get-CsOnlineLisLocation">> ->
         << [location |-> "L1", description |-> "HQ", city |-> None, validated |-> TRUE],
            [location |-> "L2", description |-> None, city |-> None, validated |-> FALSE] >>
    [] call = <<"Get-CsPhoneNumberAssignment">> ->
         << [number |-> "+1", assigned |-> "guid-ann", location |-> "L1"],
            [number |-> "+2", assigned |-> None, location |-> "L2"] >>
    [] call = <<"Get-CsOnlineVoiceRoutingPolicy">> -> << [name |-> "Global", usages |-> {"EMEA"}] >>
    [] call = <<"Graph", "users">> ->
         << [upn |-> "ann", licences |-> {"E5"}], [upn |-> "bob", licences |-> {}] >>
    [] call = <<"Get-CsOnlineUser">> ->
         << [upn |-> "ann", line |-> "+1", onprem |-> None],
            [upn |-> "bob", line |-> None, onprem |-> IF v = v1 THEN "+2" ELSE None] >>
    [] OTHER -> << [sku |-> "E5"] >>

MemoryRows(v) ==
  << [sites |-> << [site |-> "HQ", elin |-> "+3", validated |-> FALSE] >>,
      numbers |-> << [number |-> "+3", user |-> IF v = v1 THEN "ann" ELSE None, site |-> "HQ"] >>,
      users |-> << [user |-> "ann", did |-> "+3"] >>,
      lines |-> << [extension |-> "31", line |-> "L31", user |-> "ann", did |-> "+3",
                    shared |-> TRUE] >>] >>

MCEstate(c, v, call) ==
  CASE c = "cisco-cucm"          -> CucmRows(v, call)
    [] c = "avaya-aura"          -> AuraRows(v, call)
    [] c = "slack"               -> SlackRows(v, call)
    [] c = "microsoft-sfb-server" -> SfbRows(v, call)
    [] c = "genesys-cloud"       -> GenesysRows(v, call)
    [] c = "microsoft-teams"     -> TeamsRows(v, call)
    [] c = "reference-memory"    -> MemoryRows(v)

\* Both versions of the estate name only what they hold.
ASSUME EstateIsWhole == WholeEstate
=============================================================================
