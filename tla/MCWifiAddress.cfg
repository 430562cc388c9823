\* The address of either interface, one part in a line.
CONSTANTS
    NoAddress = NoAddress
    NoSettings = NoSettings
    Keys = {"wifi ip", "ip"}
    Address = {a1}
    Name = {n1}
    MacText <- Macs
    MacLen = 2
    Number <- Numbers
    HoursWord = 4
    Default <- DefaultSettings
    MaxParts = 1
    MaxCommand = 1
SPECIFICATION Spec
PROPERTIES
    WifiAddressTaken
