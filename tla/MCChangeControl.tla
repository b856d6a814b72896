-------------------------- MODULE MCChangeControl --------------------------
(***************************************************************************)
(* Two estates: one whose target may be written to beside one whose target *)
(* may not, or the two other classes of target nobody may write to; plans  *)
(* that touch emergency calling or the unmappable; profiles of every       *)
(* outcome.                                                                *)
(***************************************************************************)
EXTENDS ChangeControl, TLC

CONSTANTS c1, c2, p1, p2, west, east, munich, number, address, ecbn, bad, contoso, fabrikam

MCDesc ==
    number  :> [kind |-> "E164Number", verb |-> "ASSIGN", site |-> None,
                fidelity |-> "FULL", depends_on |-> {}]
 @@ address :> [kind |-> "EmergencyLocation", verb |-> "CREATE", site |-> munich,
                fidelity |-> "DEGRADED", depends_on |-> {number}]
 @@ ecbn    :> [kind |-> "EmergencyNumber", verb |-> "CREATE", site |-> None,
                fidelity |-> "FULL", depends_on |-> {}]
 @@ bad     :> [kind |-> "E164Number", verb |-> "ASSIGN", site |-> munich,
                fidelity |-> "UNMAPPABLE", depends_on |-> {}]

\* c2's headers name no role, which makes it a planner.
MCRolesOf == c1 :> {"OPERATOR", "ADMIN"} @@ c2 :> {}

MCPlans == {{number, address}, {ecbn}, {bad}}
MCWindow == {<<1, 2>>, <<1, 1>>}
\* In LIVE mode, opted in to header identity or not.
MCProcesses == {[live |-> TRUE, header_auth |-> h] : h \in BOOLEAN}

Verbs == [E164Number |-> {"ASSIGN", "UNASSIGN"}, EmergencyLocation |-> {"CREATE"},
          EmergencyNumber |-> {"CREATE"}]
Numbers == [E164Number |-> {"ASSIGN"}, EmergencyLocation |-> {}]
Verified == [api |-> TRUE]
ReadyTarget ==
    [scope |-> "READ_WRITE", synthetic |-> {},
     manifest |-> [verbs |-> Verbs, verified |-> Verified]]
ReadOnlyTarget == [ReadyTarget EXCEPT !.scope = "READ_ONLY"]
LabTarget == [ReadyTarget EXCEPT !.synthetic = {"teams-tenant"}, !.manifest.verbs = Numbers]
UnverifiedTarget == [ReadyTarget EXCEPT !.manifest.verified = [api |-> FALSE]]
MCTarget == {ReadyTarget, ReadOnlyTarget, LabTarget, UnverifiedTarget}
MCTargets == {west :> ReadyTarget @@ east :> UnverifiedTarget,
              west :> ReadOnlyTarget @@ east :> LabTarget}

MCEnv == [file |-> TRUE, dev |-> TRUE]
Cred(provider, kind, tenant, stored) ==
    [provider |-> provider, kind |-> kind, tenant |-> tenant, scope |-> "READ_ONLY",
     stored |-> stored]
Login == Cred("env", "USERNAME_PASSWORD", contoso, {"username", "password"})
Token == Cred("env", "API_TOKEN", None, {"token"})
Profile(connector, transport, options, cred) ==
    [connector |-> connector, tenant |-> contoso, mode |-> "LIVE",
     endpoint |-> [transport |-> transport, options |-> options],
     credential |-> cred, intended_use |-> "READ_ONLY"]
MCProfiles ==
    {Profile("cisco-cucm", "AXL_SOAP", {"wsdl_path"}, Login),
     Profile("cisco-cucm", "AXL_SOAP", {}, Login),
     Profile("cisco-cucm", "AXL_SOAP", {"wsdl_path"},
             Cred("vault", "USERNAME_PASSWORD", contoso, {"username"})),
     Profile("slack", "REST", {}, Token),
     Profile("slack", "POWERSHELL", {}, Token),
     Profile("genesys-cloud", "REST", {}, [Token EXCEPT !.tenant = fabrikam]),
     Profile("genesys-cloud", "REST", {}, Cred("file", "CERTIFICATE", None, {"pem"})),
     Profile("microsoft-teams", "REST", {}, Token),
     Profile("avaya-aura", "SSH_SAT", {}, Login),
     [Profile("slack", "REST", {}, Token) EXCEPT !.mode = "DEMO"]}
=============================================================================
