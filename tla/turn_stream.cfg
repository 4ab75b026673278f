\* Three requests over two turn ids of one conversation, with failing statements
\* and a shutdown.
SPECIFICATION FairSpec
CONSTANTS
    MaxRequests = 3
    MaxTurns = 2
    MaxDeltas = 1
    MaxFaults = 1
    None = None
INVARIANTS
    RunnerInv
    StreamFaithful
    ShutdownFreesSlot
PROPERTIES
    EveryRequestAnswered
CHECK_DEADLOCK FALSE
