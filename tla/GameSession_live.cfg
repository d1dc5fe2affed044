\* Three challenges on one port or two or the one that is not bound, three
\* games, one lost datagram.
CONSTANTS
    Port = {1, 2, 9999}
    None = None
    MaxChallenges = 3
    MaxGames = 3
    MaxLost = 1

SPECIFICATION FairSpec

\* All games may be over.
CHECK_DEADLOCK FALSE

INVARIANT TypeOK
INVARIANT AnsweredAsHeard
INVARIANT Balanced
PROPERTY HandshakeEnds
