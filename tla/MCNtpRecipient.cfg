\* One client that can be answered and one that cannot.
CONSTANTS
    NoClient = NoClient
    Client = {c1, c2}
    Refused = {c2}
    MillisWord = 4
    PulseMillis = 1
    ErrorMillis = 2
    CounterWord = 2
    QueueLen = 2
    MaxDatagrams = 2
    MaxTime = 1
SPECIFICATION SafeSpec
INVARIANTS
    AnswersItsSender
