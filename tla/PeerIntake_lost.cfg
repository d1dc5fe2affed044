CONSTANTS
    Socket = {s1, s2}
    NoSocket = NoSocket
    MaxCommands = 1
    HangUps = FALSE
    Strangers = FALSE

SPECIFICATION Spec

\* The server really stops when two threads meet in a vector.
CHECK_DEADLOCK FALSE

INVARIANT AnnouncedIsHeld
