---------------------------- MODULE Connections ----------------------------
(***************************************************************************)
(* What a connector is before it does anything: its connection profile,    *)
(* the credential the profile points at, its capability manifest and its   *)
(* readiness.  These are the pure parts that the API and the gate of       *)
(* ChangeControl.tla consult; nothing here has state.                      *)
(*                                                                         *)
(* A secret is the set of the fields it holds; a credential reference      *)
(* carries the fields its store holds for it ("stored").                   *)
(***************************************************************************)
EXTENDS Naturals, FiniteSets, FiniteSetsExt

CONSTANT None   \* Python's None

Connector == {"cisco-cucm", "microsoft-teams", "microsoft-sfb-server",
              "avaya-aura", "slack", "genesys-cloud", "reference-memorypbx"}
Transport == {"CASSETTE", "REST", "AXL_SOAP", "POWERSHELL", "SSH_SAT",
              "IN_PROCESS"}
Scope == {"READ_ONLY", "READ_WRITE"}
CredentialKind == {"USERNAME_PASSWORD", "CLIENT_CREDENTIALS", "CERTIFICATE",
                   "API_TOKEN", "SSH_KEY"}

-----------------------------------------------------------------------------
(***************************************************************************)
(* Credentials: providers, the broker, and what a bundle can serve.        *)
(***************************************************************************)

\* EnvCredentialProvider._FIELDS
EnvFields(kind) ==
    CASE kind = "USERNAME_PASSWORD"  -> {"username", "password"}
      [] kind = "CLIENT_CREDENTIALS" -> {"tenant_id", "client_id", "client_secret"}
      [] kind = "CERTIFICATE"        -> {"certificate_pem", "private_key"}
      [] kind = "API_TOKEN"          -> {"token"}
      [] kind = "SSH_KEY"            -> {"username", "private_key"}

\* build_broker: the file provider only where a credential file is configured.
Registered(env) == {"env"} \cup (IF env.file THEN {"file"} ELSE {})

\* CredentialBroker.resolve and the provider it routes to: no error.
CanServe(ref, tenant, env) ==
    /\ ref.tenant \in {None, tenant}
    /\ ref.provider \in Registered(env)
    /\ CASE ref.provider = "env"  -> EnvFields(ref.kind) \subseteq ref.stored
         [] ref.provider = "file" -> env.dev /\ ref.stored # {}

\* The fields of the SecretBundle: the kind's own, or the file's entry.
BundleOf(ref) ==
    IF ref.provider = "env" THEN EnvFields(ref.kind) ELSE ref.stored

\* factory._token_provider finds a bearer token in the bundle.
HasToken(ref) ==
    BundleOf(ref) \cap {"token", "access_token", "client_secret", "password"} # {}

-----------------------------------------------------------------------------
(***************************************************************************)
(* Connection profiles and the factory.                                    *)
(***************************************************************************)

\* TRANSPORT_SUPPORT: the transports declared, and whether each can execute.
TransportSupport(connector) ==
    CASE connector = "cisco-cucm"           -> [AXL_SOAP |-> TRUE]
      [] connector = "microsoft-teams"      -> [REST |-> TRUE, POWERSHELL |-> FALSE]
      [] connector = "microsoft-sfb-server" -> [POWERSHELL |-> FALSE]
      [] connector = "avaya-aura"           -> [SSH_SAT |-> FALSE, REST |-> TRUE]
      [] connector = "slack"                -> [REST |-> TRUE]
      [] connector = "genesys-cloud"        -> [REST |-> TRUE]
      [] connector = "reference-memorypbx"  -> [IN_PROCESS |-> TRUE]

\* ConnectionProfile's validator: the profiles that can exist.
ValidProfile(p) ==
    p.mode = "LIVE" =>
        /\ p.endpoint # None
        /\ p.credential # None
        /\ ~(p.credential.scope = "READ_ONLY" /\ p.intended_use = "READ_WRITE")

TransportKind(p) == IF p.endpoint # None THEN p.endpoint.transport ELSE "CASSETTE"

\* ConnectionProfile.blocking_reason, shown by the Connections screen.
Blocked(p) ==
    /\ p.mode = "LIVE"
    /\ LET support == TransportSupport(p.connector)
       IN  \/ TransportKind(p) \notin DOMAIN support
           \/ ~support[TransportKind(p)]

\* What the Connections screen says of a profile ("can_open").
CanOpen(p) == p.mode = "LIVE" /\ ~Blocked(p)

\* factory._build_cucm up to the credential.
CucmAccepts(endpoint) ==
    /\ endpoint.transport = "AXL_SOAP"
    /\ "wsdl_path" \in endpoint.options
    /\ "unknown_schema" \notin endpoint.options

FactoryTakesAnyTransport(p) ==   \* mutant: no check of the transport kind
    CASE p.connector = "cisco-cucm" -> CucmAccepts(p.endpoint)
      [] p.connector = "slack" -> TRUE
      [] OTHER -> FALSE
\* build_live_connector does not refuse the profile with TransportNotImplemented.
FactoryAccepts(p) ==
    CASE p.connector = "cisco-cucm" -> CucmAccepts(p.endpoint)
      [] p.connector \in {"slack", "genesys-cloud"} -> p.endpoint.transport = "REST"
      [] OTHER -> FALSE

\* POST /connections/{id}/test: what comes of opening the connection.  CUCM
\* needs its credential to be built at all, a REST connector its token at the
\* first call.
OpenOutcome(p, env) ==
    IF p.mode # "LIVE" THEN "StageNotReady"
    ELSE IF ~FactoryAccepts(p) THEN "TransportNotImplemented"
    ELSE IF /\ CanServe(p.credential, p.tenant, env)
            /\ IF p.connector = "cisco-cucm"
               THEN {"username", "password"} \subseteq BundleOf(p.credential)
               ELSE HasToken(p.credential)
         THEN "connected"
         ELSE "CredentialError"

-----------------------------------------------------------------------------
(***************************************************************************)
(* Manifest and readiness.  A manifest gives every kind the connector      *)
(* declares the set of verbs it applies, and every API surface whether it  *)
(* carries a verification record.                                          *)
(***************************************************************************)

\* CapabilityManifest.appliable_kinds
Appliable(manifest) == {k \in DOMAIN manifest.verbs : manifest.verbs[k] # {}}

\* assess_readiness
Readiness(manifest, synthetic) ==
    IF \E s \in DOMAIN manifest.verified : ~manifest.verified[s]
    THEN "UNVERIFIED"
    ELSE IF synthetic # {} THEN "LAB_ONLY"
    ELSE "PRODUCTION_READY"

\* assert_production_ready(connector.readiness())
MayWriteToProduction(c) == Readiness(c.manifest, c.synthetic) = "PRODUCTION_READY"
=============================================================================
