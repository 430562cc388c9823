CONSTANT NumSockets = 3
SPECIFICATION Spec
INVARIANTS
    SocketsNotShared
