\* Seconds of 4 ms; a word of 62 values is no multiple of 4, so millis() wraps in the
\* middle of a second as 2^32 does; the epoch offset makes the seconds wrap too.
CONSTANTS
    Word = 62
    EpochOffset = 59
    MillisPerSecond = 4
    MaxRtc = 24
    ReadDelay = 2
    Unread = Unread
SPECIFICATION Spec
INVARIANTS
    TypeOK
    ServedWithinASecond
    DecodedTimeIsServed
PROPERTIES
    OrderedWhenASecondApart
