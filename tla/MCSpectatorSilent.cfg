SPECIFICATION FairSpec
CONSTANTS
    Capacity = 4
    HighMark = 3
    Burst = 1
    Stall = 2
    LongHide = 2
    Attempts = 2
    ForceEvery = 3
    MaxFaults = 2
PROPERTY NoPacketRejoins
