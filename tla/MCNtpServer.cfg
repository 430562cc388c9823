\* Two clients that can be answered and one that cannot, and two datagrams: they wait in
\* one queue, or one in each, or one of them while the other is answered; counters of two
\* values wrap at the second request.  No symmetry: a liveness property is checked.
CONSTANTS
    NoClient = NoClient
    Client = {c1, c2, c3}
    Refused = {c3}
    MillisWord = 4
    PulseMillis = 1
    ErrorMillis = 2
    CounterWord = 2
    QueueLen = 2
    MaxDatagrams = 2
    MaxTime = 1
SPECIFICATION Spec
INVARIANTS
    TypeOK
    CountersAgree
    ClosedListenerIsIdle
PROPERTIES
    NeverStartedLater
    ImplementsService
    QueuedIsConsumed
