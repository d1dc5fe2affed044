\* Two peers of two messages each, two clients, one reply.
CONSTANTS
    MaxPeers = 2
    MaxMessages = 2
    MaxClients = 2
    MaxReplies = 1

SPECIFICATION FairSpec

\* The program may crash.
CHECK_DEADLOCK FALSE

INVARIANT TypeOK
INVARIANT HeardInOrder
INVARIANT SessionLostOnlyBy
INVARIANT CrashedOnlyBy
PROPERTY RepliesToLastHeard
PROPERTY PeersAreHeard
PROPERTY FirstReplyIsHandled
