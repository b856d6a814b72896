---------------------------- MODULE CucmExtract ----------------------------
(***************************************************************************)
(* What the CUCM connector reads and what it makes of it                   *)
(* (connectors/cucm/connector.py, vendor/axl.py).                          *)
(*                                                                         *)
(* A row is a record of the fields that decide identity, references and    *)
(* fidelity.  Rows without a name are skipped by every mapper and are left *)
(* out of the model; rows a mapper skips for another reason are kept.      *)
(***************************************************************************)
EXTENDS Canonical

CONSTANT Digits,     \* the patterns made of digits only
         PlusDigits, \* the patterns of digits with a plus sign
         EndOfLife,  \* phone models with no path to a modern target
         Analogue    \* phone models hinting at an analogue port

(* EXTRACTORS: each kind, in the order of extraction, and its operation. *)
CucmExtractors ==
  << <<"Partition", "listRoutePartition">>, <<"CallingPermission", "listCss">>,
     <<"DevicePool", "listDevicePool">>, <<"Extension", "listLine">>, <<"Line", "listLine">>,
     <<"User", "listUser">>, <<"Device", "listPhone">>, <<"DeviceProfile", "listDeviceProfile">>,
     <<"RoutePattern", "listRoutePattern">>, <<"TranslationPattern", "listTransPattern">>,
     <<"RouteList", "listRouteList">>, <<"RouteGroup", "listRouteGroup">>,
     <<"LineGroup", "listLineGroup">>, <<"HuntGroup", "listHuntPilot">>,
     <<"PickupGroup", "listCallPickupGroup">>, <<"SIPTrunk", "listSipTrunk">> >>

CucmKinds == {CucmExtractors[i][1] : i \in DOMAIN CucmExtractors}

CucmTestCall == <<"Version", "getCCMVersion">>

(* The reviewed read operations; call refuses any other name. *)
AxlReads ==
  {"getCCMVersion", "listUser", "listPhone", "getPhone", "listLine", "listRoutePartition",
   "listCss", "listRoutePattern", "listTransPattern", "listDevicePool", "listHuntPilot",
   "listLineGroup", "listHuntList", "listCallPickupGroup", "listSipTrunk", "listGateway",
   "listRouteList", "listRouteGroup", "listDeviceProfile", "listCallPark", "listTimeSchedule"}

AxlWrites ==
  {"addPhone", "updatePhone", "removePhone", "addLine", "updateLine", "removeLine", "addUser",
   "updateUser", "addRoutePartition", "addCss", "addRoutePattern", "updateRoutePattern",
   "removeRoutePattern", "addSipTrunk", "addRouteList", "addRouteGroup"}

AxlPermits(operation) == operation \in AxlReads \cup AxlWrites \cup {"executeSQLQuery"}

(* The calls of one extraction: the wanted kinds, sorted by EXTRACTORS.    *)
(* listLine is called once for the extensions and once for the lines.      *)
CucmCalls(wanted) ==
  FlattenSeq([i \in DOMAIN CucmExtractors |->
                When(CucmExtractors[i][1] \in wanted, <<CucmExtractors[i]>>)])

----------------------------------------------------------------------------
(* The mappers. *)

MapPartition(r) == Entity("Partition", <<r.name>>, {}, Assess(r, FALSE))

(* A calling search space; the tier is never known, so it always degrades. *)
MapCallingPermission(r) ==
  Entity("CallingPermission", <<r.name>>, Refs("Partition", r.members), Assess(r, TRUE))

(* SRST survivability has no equivalent on a cloud target. *)
MapDevicePool(r) ==
  Entity("DevicePool", <<r.name>>, Ref("CallingPermission", r.css), Assess(r, r.srst # None))

(* Wildcard patterns are dial plan, not extensions. *)
IsExtension(r) == r.pattern \in Digits \cup PlusDigits

\* mutant: the extension is keyed like the line
ExtensionKeyedWithPartition(r) ==
  Entity("Extension", <<r.pattern, r.partition>>, Ref("Partition", r.partition), Assess(r, TRUE))

(* The key drops the partition. *)
MapExtension(r) ==
  Entity("Extension", <<r.pattern>>, Ref("Partition", r.partition), Assess(r, TRUE))

MapLine(r) ==
  Entity("Line", <<r.pattern, r.partition>>,
         Ref("Partition", r.partition)
           \cup (IF r.pattern \in Digits THEN Ref("Extension", r.pattern) ELSE {}),
         Assess(r, TRUE))

MapUser(r) == Entity("User", <<r.userid>>, Ref("Extension", r.primary), Assess(r, TRUE))

(* The owner of a phone is the user the record names; owner_ref of an     *)
(* extension or a line is filled in afterwards, by LinkOwners.             *)
MapDevice(r) ==
  Entity("Device", <<r.name>>, Ref("DevicePool", r.pool) \cup Ref("User", r.owner),
         Assess(r, r.model \in EndOfLife \cup Analogue))

MapDeviceProfile(r) == Entity("DeviceProfile", <<r.name>>, {}, Assess(r, TRUE))

(* Whatever the destination is, it is referred to as a route list. *)
MapRoutePattern(r) ==
  Entity("RoutePattern", <<r.pattern>>,
         Ref("Partition", r.partition) \cup Ref("RouteList", r.destination), Assess(r, FALSE))

MapTranslationPattern(r) ==
  Entity("TranslationPattern", <<r.pattern>>,
         Ref("Partition", r.partition) \cup Ref("CallingPermission", r.css), Assess(r, TRUE))

MapRouteList(r) ==
  Entity("RouteList", <<r.name>>, Refs("RouteGroup", r.members), Assess(r, FALSE))

(* Whatever a member is, it is referred to as a SIP trunk. *)
MapRouteGroup(r) ==
  Entity("RouteGroup", <<r.name>>, Refs("SIPTrunk", r.members), Assess(r, FALSE))

(* The members are referred to as lines in no partition. *)
MapLineGroup(r) ==
  Entity("LineGroup", <<r.name>>, {Id("Line", <<m, None>>) : m \in r.members},
         Assess(r, FALSE))

\* mutant: the partition of the pilot is forgotten
HuntGroupWithoutPartition(r) == Entity("HuntGroup", <<r.pattern>>, {}, Assess(r, TRUE))

(* The hunt list of the pilot counts as consumed and is not carried. *)
MapHuntGroup(r) ==
  Entity("HuntGroup", <<r.pattern>>, Ref("Partition", r.partition), Assess(r, TRUE))

(* Membership is held on the line; the group arrives without members. *)
MapPickupGroup(r) ==
  Entity("PickupGroup", <<r.name>>, Ref("Partition", r.partition), Assess(r, TRUE))

MapSipTrunk(r) ==
  Entity("SIPTrunk", <<r.name>>,
         Ref("CallingPermission", r.css) \cup Ref("DevicePool", r.pool), Assess(r, FALSE))

(* mappers: what a row of each kind becomes. *)
CucmEntity(kind, r) ==
  CASE kind = "Partition"          -> MapPartition(r)
    [] kind = "CallingPermission"  -> MapCallingPermission(r)
    [] kind = "DevicePool"         -> MapDevicePool(r)
    [] kind = "Extension"          -> MapExtension(r)
    [] kind = "Line"               -> MapLine(r)
    [] kind = "User"               -> MapUser(r)
    [] kind = "Device"             -> MapDevice(r)
    [] kind = "DeviceProfile"      -> MapDeviceProfile(r)
    [] kind = "RoutePattern"       -> MapRoutePattern(r)
    [] kind = "TranslationPattern" -> MapTranslationPattern(r)
    [] kind = "RouteList"          -> MapRouteList(r)
    [] kind = "RouteGroup"         -> MapRouteGroup(r)
    [] kind = "LineGroup"          -> MapLineGroup(r)
    [] kind = "HuntGroup"          -> MapHuntGroup(r)
    [] kind = "PickupGroup"        -> MapPickupGroup(r)
    [] kind = "SIPTrunk"           -> MapSipTrunk(r)

(* What the rows of one call become. *)
CucmMap(kind, rows) ==
  IF kind = "Extension" THEN MappedWhen(IsExtension, MapExtension, rows)
  ELSE [i \in DOMAIN rows |-> CucmEntity(kind, rows[i])]

(* _link_extension_owners: the association is held on the user, so it is   *)
(* filled in when everything is collected.  A later user wins.             *)
OwnersOf(collected, extension) ==
  {i \in DOMAIN collected : collected[i].kind = "User" /\ extension \in collected[i].refs}

Owned(e, extension, collected) ==
  LET owners == OwnersOf(collected, extension)
  IN IF owners = {} THEN e ELSE [e EXCEPT !.owner = IdOf(collected[Max(owners)])]

LinkOwners(collected) ==
  [i \in DOMAIN collected |->
     LET e == collected[i]
         extensions == {r \in e.refs : r[1] = "Extension"}
     IN IF e.kind = "Extension" THEN Owned(e, IdOf(e), collected)
        ELSE IF e.kind = "Line" /\ extensions # {}
             THEN Owned(e, CHOOSE x \in extensions : TRUE, collected)
             ELSE e]

(* The extensions the crawl warns of. *)
Ownerless(collected) ==
  {e.key[1] : e \in {x \in ToSet(LinkOwners(collected)) :
     x.kind = "Extension" /\ x.owner = None}}

(* What an extraction yields from its calls and the rows they answered.    *)
(* The batches carry the linked entities in this order.                    *)
CucmEntities(log) ==
  LinkOwners(FlattenSeq([i \in DOMAIN log |-> CucmMap(log[i].call[1], log[i].rows)]))
=============================================================================
