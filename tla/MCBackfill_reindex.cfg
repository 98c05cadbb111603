\* A rebuild beside the running daemon thread of the same provider.
SPECIFICATION Spec
CONSTANTS
    Proc = {"agent"}
    Sourced = {"agent"}
    Blank = "blank"
    Files = {"f"}
    Turns = {}
    Content <- MCContent
    Batch = 2
    OldRows = 3
    MaxRows = 3
    MaxStarts = 1
    MaxRebuilds = 1
INVARIANTS
    HistoryReindexed
CHECK_DEADLOCK FALSE
