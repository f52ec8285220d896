SPECIFICATION Spec
CONSTANTS
    Providers = {p1}
    Heads <- MCHeads
    Drivers <- MCDrivers
    Registered <- MCRegistered
    Prefixes <- MCPrefixes
    MaxRequests = 2
    DriverError = DriverError
    Nil = Nil
CHECK_DEADLOCK FALSE
INVARIANT SuccessCarriesList
