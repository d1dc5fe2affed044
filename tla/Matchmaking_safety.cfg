CONSTANTS
    n1 = n1
    n2 = n2
    Socket = {1, 2}
    LastAddress = 2
    Name = {n1, n2}
    Pass = {"p"}
    NameLength <- Lengths
    NoPass = NoPass
    NoUser = NoUser
    Null = Null
    Wild = Wild
    Nobody = Nobody
    MaxChallenges = 2
    MaxGames = 1
    MaxLogins = 3

SPECIFICATION Spec

\* The server really stops when it follows a bad pointer.
CHECK_DEADLOCK FALSE

INVARIANT TypeOK
INVARIANT GameOfLastChallenge
INVARIANT PlayersLoggedIn
PROPERTY NamedIsChallenged
