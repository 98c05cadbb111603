\* Two scheduled processes, passing time and recurring sessions, a crash, and a
\* write or a read that fails; a call can last until its lock counts as stale.
SPECIFICATION FairSpec
CONSTANTS
    Proc = {"p", "q"}
    Entry = {"x"}
    BodyOf <- MCBody
    NoBody = ""
    Threshold = 2
    Staleness = 1
    LockStale = 1
    MaxDelay = 1
    MaxLog = 2
    MaxCrashes = 1
    MaxRaises = 1
INVARIANTS
    TypeOK
    BodiesKept
    MutualExclusion
    PromptHoldersKeepTheLock
PROPERTIES
    PauseConsolidates
