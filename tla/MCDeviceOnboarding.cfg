SPECIFICATION Spec
CONSTANTS
    Configurations <- MCConfigurations
    Items <- ConfigItems
    IPv4 <- MCIPv4
    IPv6 <- MCIPv6
    Camel <- MCCamel
INVARIANTS
    MadeOfTheConfiguration
    TemporariesGo
    OwnerIsDeclared
    ReferencesAreFound
CHECK_DEADLOCK FALSE
