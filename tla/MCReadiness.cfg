SPECIFICATION ReadySpec
CONSTANTS
    Clients = {c1, c2}
    MaxRequests = 2
    WindowSeconds = 2
    MaxAttempts = 3
    Gateways = {g1}
    Services = {user}
    FailureThreshold = 2
INVARIANTS
    ReadyTypeOK
    LimitHolds
    OutageClosesGateways
PROPERTIES
    OnlyExcessRefused
    LimitLifts
    GatewaysReturn
