\* An agent with a history source beside the rebuild command, which has none;
\* the scheduler runs every thread, processes come, go and rebuild.
SPECIFICATION FairSpec
CONSTANTS
    Proc = {"agent", "cli"}
    Sourced = {"agent"}
    Blank = "blank"
    Files = {"f"}
    Turns = {"u"}
    Content <- MCContent
    Batch = 1
    OldRows = 2
    MaxRows = 2
    MaxStarts = 2
    MaxRebuilds = 1
INVARIANTS
    TypeOK
    ResumeSound
    ColdFilesFound
PROPERTIES
    BackfillFinishes
CHECK_DEADLOCK FALSE
