------------------------------- MODULE Crawl -------------------------------
(***************************************************************************)
(* The collector agents of Collector running the extractions of            *)
(* CucmExtract and VendorExtract, and what the discovery report makes of   *)
(* the snapshots they upload.                                              *)
(***************************************************************************)
EXTENDS Collector, CucmExtract, VendorExtract

CONSTANT Estate(_, _, _)  \* of connector, version and request: rows, or Refused

(* extractable_kinds of the manifests. *)
CrawlExtractable(c) ==
  CASE c = "cisco-cucm"          -> CucmKinds
    [] c = "avaya-aura"          -> AvayaKinds
    [] c = "slack"               -> SlackKinds
    [] c = "microsoft-sfb-server" -> SfbKinds
    [] c = "genesys-cloud"       -> GenesysKinds
    [] c = "microsoft-teams"     -> TeamsKinds
    [] c = "reference-memory"    -> ReferenceKinds

(* _extract_batches: the calls. *)
CrawlScript(c, wanted, log) ==
  CASE c = "cisco-cucm"          -> CucmCalls(wanted)
    [] c = "avaya-aura"          -> AvayaScript(wanted, log)
    [] c = "slack"               -> SlackScript(wanted)
    [] c = "microsoft-sfb-server" -> SfbScript(wanted)
    [] c = "genesys-cloud"       -> GenesysScript(wanted)
    [] c = "microsoft-teams"     -> TeamsScript(wanted)
    [] c = "reference-memory"    -> ReferenceScript

(* _extract_batches: the entities. *)
CrawlAssemble(c, wanted, log) ==
  CASE c = "cisco-cucm"          -> CucmEntities(log)
    [] c = "avaya-aura"          -> AvayaEntities(wanted, log)
    [] c = "slack"               -> SlackEntities(wanted, log)
    [] c = "microsoft-sfb-server" -> SfbEntities(wanted, log)
    [] c = "genesys-cloud"       -> GenesysEntities(wanted, log)
    [] c = "microsoft-teams"     -> TeamsEntities(wanted, log)
    [] c = "reference-memory"    -> ReferenceEntities(wanted, log)

(* Aura survives a System Manager it cannot read, with a warning. *)
CrawlTolerated(call) == call = SmgrUsers

(* test_connection: one harmless call. *)
CrawlTestCall(c) ==
  CASE c = "cisco-cucm"          -> CucmTestCall
    [] c = "avaya-aura"          -> AvayaTestCall
    [] c = "slack"               -> SlackTestCall
    [] c = "microsoft-sfb-server" -> SfbTestCall
    [] c = "genesys-cloud"       -> GenesysTestCall
    [] c = "microsoft-teams"     -> TeamsTestCall
    [] c = "reference-memory"    -> ReferenceTestCall

(* What the transports let through: the reviewed AXL operations, the       *)
(* read-only SAT verbs, the listed cmdlets.                                *)
Permitted(c, call) ==
  CASE c = "cisco-cucm" -> AxlPermits(call[2])
    [] c = "avaya-aura" -> call = SmgrUsers \/ call[1] \in SatReads
    [] OTHER -> TRUE

(* What reaches the source: of a CUCM call, the operation alone. *)
Request(c, call) == IF c = "cisco-cucm" THEN call[2] ELSE call

(* A call that is not let through fails before it reaches the source. *)
CrawlAnswer(c, version, call) ==
  IF Permitted(c, call) THEN Estate(c, version, Request(c, call)) ELSE Refused

----------------------------------------------------------------------------
(* What can be relied on in an answer: it is a finite list of records whose *)
(* sets are finite, a partition has a name, and of the CUCM objects only   *)
(* those the connector reads a partition of have one.                      *)

IsRows(rows) == rows \in Seq(ToSet(rows))

Partitioned ==
  {"listLine", "listRoutePattern", "listTransPattern", "listHuntPilot", "listCallPickupGroup"}

CucmAnswers(v) ==
  /\ \A i \in DOMAIN CucmExtractors :
       LET operation == CucmExtractors[i][2]
           rows == Estate("cisco-cucm", v, operation)
       IN rows # Refused =>
            /\ IsRows(rows)
            /\ operation \notin Partitioned => \A r \in ToSet(rows) : "partition" \notin DOMAIN r
  /\ LET rows == Estate("cisco-cucm", v, "listRoutePartition")
     IN rows # Refused => \A r \in ToSet(rows) : r.name # None

AvayaAnswers(v) ==
  /\ \A call \in {ListStation, ListHuntGroup, SmgrUsers} :
       LET rows == Estate("avaya-aura", v, call) IN rows # Refused => IsRows(rows)
  /\ LET stations == Estate("avaya-aura", v, ListStation)
     IN stations # Refused =>
          \A r \in ToSet(stations), u \in Version :
            LET form == Estate("avaya-aura", u, DisplayCoverage(r.path))
            IN r.path # None /\ form # Refused => IsFiniteSet(Head(form).criteria)

(* The field that holds a set, of the calls whose rows have one. *)
SetFields ==
  { <<"slack", <<"conversations.list">>, "members">>,
    <<"microsoft-sfb-server", <<"Get-CsDialPlan">>, "rules">>,
    <<"microsoft-teams", <<"Graph", "users">>, "licences">> }

VendorAnswers(c, v) ==
  \A call \in ToSet(CrawlScript(c, CrawlExtractable(c), <<>>)) :
    LET rows == Estate(c, v, call)
    IN rows # Refused =>
         /\ IsRows(rows)
         /\ \A f \in SetFields : f[1] = c /\ f[2] = call =>
              \A r \in ToSet(rows) : IsFiniteSet(r[f[3]])

MemoryAnswers(v) ==
  LET rows == Estate("reference-memory", v, <<"list_records">>)
  IN rows # Refused =>
       /\ IsRows(Head(rows).sites) /\ IsRows(Head(rows).numbers)
       /\ IsRows(Head(rows).users) /\ IsRows(Head(rows).lines)

ASSUME EstateAssumption ==
  \A v \in Version :
    /\ CucmAnswers(v)
    /\ AvayaAnswers(v)
    /\ \A c \in {"slack", "microsoft-sfb-server", "genesys-cloud", "microsoft-teams"} :
         VendorAnswers(c, v)
    /\ MemoryAnswers(v)

----------------------------------------------------------------------------
(* A whole estate: what an object names is there, by the name the object   *)
(* gives.  Nothing here relies on it but what is said of dangling          *)
(* references: what dangles although the estate is whole, the crawl broke. *)

Objects(c, v, request) ==
  IF Estate(c, v, request) = Refused THEN {} ELSE ToSet(Estate(c, v, request))

CucmWhole(v) ==
  LET Listed(operation) == Objects("cisco-cucm", v, operation)
      partitions == {r.name : r \in Listed("listRoutePartition")}
      spaces     == {r.name : r \in Listed("listCss")}
      pools      == {r.name : r \in Listed("listDevicePool")}
      extensions == {r.pattern : r \in {x \in Listed("listLine") : IsExtension(x)}}
  IN /\ \A operation \in Partitioned : \A r \in Listed(operation) :
          r.partition \in partitions \cup {None}
     /\ \A r \in Listed("listCss") : r.members \subseteq partitions
     /\ \A operation \in {"listDevicePool", "listTransPattern", "listSipTrunk"} :
          \A r \in Listed(operation) : r.css \in spaces \cup {None}
     /\ \A operation \in {"listPhone", "listSipTrunk"} :
          \A r \in Listed(operation) : r.pool \in pools \cup {None}
     /\ \A r \in Listed("listPhone") :
          r.owner \in {u.userid : u \in Listed("listUser")} \cup {None}
     /\ \A r \in Listed("listUser") : r.primary \in extensions \cup {None}
     /\ \A r \in Listed("listRouteList") :
          r.members \subseteq {g.name : g \in Listed("listRouteGroup")}

AvayaWhole(v) ==
  LET stations == Objects("avaya-aura", v, ListStation)
  IN /\ \A r \in stations :
          LET form == Estate("avaya-aura", v, DisplayStation(r.ext))
          IN form # Refused => Head(form).cor \in {s.cor : s \in stations} \cup {None}
     /\ \A r \in Objects("avaya-aura", v, SmgrUsers) :
          r.ext \in {s.ext : s \in stations} \cup {None}

TeamsWhole(v) ==
  \A r \in Objects("microsoft-teams", v, <<"Get-CsOnlineUser">>) :
    {r.line, r.onprem} \subseteq
      {n.number : n \in Objects("microsoft-teams", v, <<"Get-CsPhoneNumberAssignment">>)}
        \cup {None}

MemoryWhole(v) ==
  LET rows == Estate("reference-memory", v, <<"list_records">>)
      estate == Head(rows)
  IN rows # Refused =>
    LET numbers == {n.number : n \in ToSet(estate.numbers)} \cup {None}
        users   == {u.user : u \in ToSet(estate.users)} \cup {None}
    IN /\ \A s \in ToSet(estate.sites) : s.elin \in numbers
       /\ \A n \in ToSet(estate.numbers) :
            /\ n.user \in users
            /\ n.site \in {s.site : s \in ToSet(estate.sites)} \cup {None}
       /\ \A u \in ToSet(estate.users) : u.did \in numbers
       /\ \A l \in ToSet(estate.lines) : l.user \in users /\ l.did \in numbers

WholeEstate ==
  \A v \in Version : CucmWhole(v) /\ AvayaWhole(v) /\ TeamsWhole(v) /\ MemoryWhole(v)

----------------------------------------------------------------------------
(* The references the connectors are known to make by another key than the *)
(* one their target is extracted under: who, what refers, and to what.      *)
KeyMismatches ==
  { <<"cisco-cucm", "LineGroup", "Line">>, <<"cisco-cucm", "RoutePattern", "RouteList">>,
    <<"cisco-cucm", "RouteGroup", "SIPTrunk">>, <<"slack", "ChannelMembership", "User">>,
    <<"microsoft-sfb-server", "CallQueue", "Group">>, <<"genesys-cloud", "AgentProfile", "User">>,
    <<"microsoft-teams", "E164Number", "EmergencyLocation">>,
    <<"microsoft-teams", "E164Number", "User">>,
    <<"microsoft-teams", "VoiceRoutingPolicy", "PSTNUsage">> }

(* A crawl of everything over a source nobody edited meanwhile. *)
Quiet(j) ==
  /\ snapshots[j] # NoSnapshot
  /\ WantedOf[j] = {}
  /\ Cardinality(snapshots[j].seen) <= 1

Entities(j) == snapshots[j].entities

ReportOn(j) == EstateReport(Entities(j))

(* In a quiet, full crawl every reference leads to an entity, but for the   *)
(* references made by another key; the orphan section of the discovery      *)
(* report would otherwise accuse the estate of what the crawl did.          *)
DanglingIsExplained ==
  \A j \in Job : Quiet(j) =>
    \A o \in ReportOn(j).orphans : <<ConnectorOf[j], o[1], o[2][1]>> \in KeyMismatches

(* An extension that two lines collapsed into, its partition dropped from   *)
(* the key, is among the duplicate numbers of the report: by_id keeps one   *)
(* of them and says nothing.                                                *)
CollapsedExtensionsAreReported ==
  \A j \in Job : Quiet(j) =>
    \A id \in Collapsed(Entities(j)) :
      id[1] = "Extension" => id[2][1] \in ReportOn(j).duplicate_directory_numbers

(* The partitions the report calls unused are named by no row the crawl     *)
(* read: an administrator deletes them on its word.                         *)
UnusedPartitionsAreUnused ==
  \A j \in Job : Quiet(j) /\ ConnectorOf[j] = "cisco-cucm" =>
    \A p \in ReportOn(j).unused_partitions, v \in snapshots[j].seen, i \in DOMAIN CucmExtractors :
      \A r \in ToSet(CrawlAnswer("cisco-cucm", v, CucmExtractors[i])) :
        /\ "partition" \in DOMAIN r => r.partition # p
        /\ "members" \in DOMAIN r /\ CucmExtractors[i][1] = "CallingPermission"
             => p \notin r.members
=============================================================================
