SPECIFICATION FairSpec
CONSTANTS
    Room = 3
    Parts = 1
    ClientAuth = TRUE
    Offers <- MCOffers
    Implemented = {"X25519"}
    MaxFaults = 1
PROPERTY ReaderReturns
CHECK_DEADLOCK FALSE
