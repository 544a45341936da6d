CONSTANTS
    Jobs = {j1, j2, j3}
SPECIFICATION FairSpec
INVARIANTS
    TypeOK
    GracefulStop
    ClosedAtExit
PROPERTY StopEnds
\* A process that has exited does nothing more.
CHECK_DEADLOCK FALSE
