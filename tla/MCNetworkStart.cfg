CONSTANTS
    Server = {"A", "B"}
    Address <- Addresses
    Gateway <- Routers
    Static <- StaticAddress
    Hardware = {55}
    Initial = {1}
    Timeout = 1
    ResponseTimeout = 0
    WifiTimeout = 1
    MaxXid = 4
    MaxAnswers = 3
    MaxTime = 2
SPECIFICATION Spec
INVARIANTS
    TypeOK
    AddressWasGranted
    GatewayOfAddress
    NoAddressUnlessStarted
PROPERTIES
    CallsReturn
