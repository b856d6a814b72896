SPECIFICATION RoutingSpec
CONSTANTS
    None = None
    Numbers <- MCNumbers
    Configurations <- MCConfigurations
INVARIANTS
    CallsStillLeave
