\* Three clients, two brokers, three commands.
CONSTANTS
    Socket = {1, 2, 3}
    Broker = {1, 2}
    NoSocket = NoSocket
    MaxSent = 3

SPECIFICATION Spec

\* The server really stops when it writes to a client that has gone.
CHECK_DEADLOCK FALSE

PROPERTY PairIsRemoved
