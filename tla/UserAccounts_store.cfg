CONSTANTS
    Caller = {d}
    Name = {n1, n2}
    EmptyName = EmptyName
    Letter <- Letters
    Pass <- Passwords
    NoUser = NoUser
    NoCaller = NoCaller
    Garbage <- Scores
    Points <- OnePoint
    MaxScore = 2

SPECIFICATION FairSpec

INVARIANT TypeOK
INVARIANT AckedOnDisk
INVARIANT MapAgreesWithDisk
INVARIANT LoginAsRegistered

PROPERTY ImplementsUserStore
PROPERTY CallsReturn
