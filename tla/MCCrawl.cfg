SPECIFICATION Spec
CONSTANTS
    None = None
    a1 = a1
    a2 = a2
    v1 = v1
    v2 = v2
    cucm = cucm
    cucmLines = cucmLines
    aura = aura
    slack = slack
    sfb = sfb
    genesys = genesys
    teams = teams
    memory = memory
    probe = probe
    write = write
    wrong = wrong
    late = late
    NoJob = NoJob
    Refused = Refused
    Agent = {a1, a2}
    Job = {cucm, cucmLines, aura, slack, sfb, genesys, teams, memory, probe, write, wrong, late}
    Version = {v1, v2}
    Digits = {"1001", "1002"}
    PlusDigits = {"+4989"}
    EndOfLife = {"7960"}
    Analogue = {}
    Queues <- MCQueues
    KindOf <- MCKindOf
    ConnectorOf <- MCConnectorOf
    WantedOf <- MCWantedOf
    LeaseEnds <- MCLeaseEnds
    Capabilities <- MCCapabilities
    AllowWrites = {a1}
    MaxTime = 1
    MaxEdits = 1
    MaxFaults = 1
    Extractable <- CrawlExtractable
    Script <- CrawlScript
    Answer <- CrawlAnswer
    TestCall <- CrawlTestCall
    Tolerated <- CrawlTolerated
    Assemble <- CrawlAssemble
    Estate <- MCEstate
INVARIANTS
    TypeOK
    OneAgentPerJob
    CompletedHasSnapshot
    DanglingIsExplained
    CollapsedExtensionsAreReported
    UnusedPartitionsAreUnused
PROPERTIES
    LeasedJobsAreReported
