SPECIFICATION Spec
CONSTANTS
    MaxTurns = 3
    MaxNudges = 1
    MaxReports = 2
    MaxReleases = 1
    Deciders = {"scripted", "openai"}
    Clients <- AllClients
    None = None
INVARIANTS
    AuditAgrees
    HoldWatchesReadBack
    PromptFaithful
CONSTRAINT ThreeAsides
CHECK_DEADLOCK FALSE
