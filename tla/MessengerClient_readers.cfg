\* Two connections, a reader and two texts or two readers and one, of a word or none.
CONSTANTS
    Lengths = {0, 1}
    Wild = Wild
    MaxConnects = 2
    MaxThreads = 3
    MaxWaiting = 2

SPECIFICATION FairSpec

\* The client may crash.
CHECK_DEADLOCK FALSE

INVARIANT TypeOK
INVARIANT WholeInOrder
INVARIANT CrashedOnlyBy
PROPERTY TextsAreHandled
PROPERTY ClosedAtHangUp
