CONSTANTS
    Pids = {p1, p2}
    Commands <- MCCommands
    Watched = {c1}
    PidReuse = FALSE
    MaxTicks = 3
    MaxCpu = 1
    Gaps = {1}
    Target = 2
    None = None
    Modes = {"closed", "soak", "fleet"}
    Plans = {0, 2}
    Turns = 2
    MintBatch = 1
    MaxInFlight = 1
    Scored = {1, 19}
    MaxLost = 1
    MaxBacklog = 1
SPECIFICATION MCSpec
INVARIANTS
    PassIsTrue
    CpuAttributed
PROPERTIES
    RunEnds
CHECK_DEADLOCK FALSE
