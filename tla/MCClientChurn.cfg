SPECIFICATION FairSpec
CONSTANTS
    Slots = 2
    MaxFaults = 1
PROPERTIES
    RebuildSettles
CHECK_DEADLOCK FALSE
