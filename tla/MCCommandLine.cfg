\* Two settings whose values are checked and a switch, two octets for a MAC; lines of at
\* most two parts, and a WiFi console that refuses the second.
CONSTANTS
    NoAddress = NoAddress
    NoSettings = NoSettings
    Keys = {"wifi_en", "mac", "ntp_interval"}
    Address = {a1}
    Name = {n1}
    MacText <- Macs
    MacLen = 2
    Number <- Numbers
    HoursWord = 4
    Default <- DefaultSettings
    MaxParts = 2
    MaxCommand = 1
SPECIFICATION Spec
INVARIANTS
    TypeOK
    BufferIsLine
    SavedIsLoaded
    UsableSettings
