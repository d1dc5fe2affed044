CONSTANTS
    Socket = {s1, s2}
    NoSocket = NoSocket
    MaxCommands = 2
    HangUps = TRUE
    Strangers = TRUE

SPECIFICATION FairSpec

\* The server really stops when two threads meet in a vector.
CHECK_DEADLOCK FALSE

PROPERTY Served
PROPERTY AcceptorReturns
INVARIANT TypeOK
INVARIANT PayloadsInStep
PROPERTY CollectedStays
PROPERTY LostOnlyInWindow
