\* Four sockets: NTP, a listener, and two connections that can exhaust the rest.
CONSTANT NumSockets = 4
SPECIFICATION Spec
INVARIANTS
    TypeOK
    NtpSocketOpen
    OneListener
    NoLostConnection
    DhcpSocketOpen
PROPERTIES
    ReopenSucceeds
