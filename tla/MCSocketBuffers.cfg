SPECIFICATION Spec
CONSTANTS
    NumSockets = 2
    SSize = 8
    Word = 16
    NoByte = NoByte
    Chips = {52, 55}
    Socket = 1
    Header = 2
    Batch = 4
    Source = {1}
    Lengths = {0, 1, 3}
    ReadSizes = {1, 2}
    Pieces <- MCPieces
INVARIANTS TypeOK PointersAgree RemainingIsThere InFlightIsWritten
PROPERTIES ImplementsInbox 
CHECK_DEADLOCK FALSE
