SPECIFICATION Spec
CONSTANTS
    u1 = u1
    u2 = u2
    Users <- MCUsers
    Writers <- MCWriters
    Closers <- MCClosers
    MaxWrites <- MCMaxWrites
    Window = 2
    MaxSeq = 2
    Psk = FALSE
    MaxFaults = 1
INVARIANTS
    TypeOK
    WriteReported
PROPERTIES
    IsDatagramService
    GenuineAccepted
    CloseEndsReader
    CloseReachesPeer
    AcceptedIsRead
CHECK_DEADLOCK FALSE
