\* One scheduled process, killed, raising and unable to read its files, under
\* passing time and recurring sessions; entries with headers, and one without a
\* body.
SPECIFICATION FairSpec
CONSTANTS
    Proc = {"p"}
    Entry <- MCStamped
    BodyOf <- MCBodyOfStamped
    NoBody = ""
    Threshold = 2
    Staleness = 1
    LockStale = 0
    MaxDelay = 1
    MaxLog = 3
    MaxCrashes = 1
    MaxRaises = 1
INVARIANTS
    AloneNeverInterferes
    CountExactAlone
    CompactionExact
PROPERTIES
    KeepsPromise
    PendingIsConsolidated
