\* One command line beside the memory tool and a person that edits; a turn more
\* than the extraction looks at, with times of their own.
SPECIFICATION Spec
CONSTANTS
    Proc = {"p"}
    Statement = {"a", "A", "b", "c", "n", "m"}
    Key <- MCKey
    IsPreference <- MCIsPreference
    Turn = {"t1", "t2", "t3"}
    Says <- MCSays
    Note = {"n"}
    RecentLimit = 2
    MaxItems = 2
    MaxShown = 1
    MaxTurns = 3
    MaxNotes = 1
    MaxEdits = 1
    MaxRuns = 2
    MaxTime = 1
INVARIANTS
    TypeOK
    NotesKept
    BlockManaged
    NewestCount
CHECK_DEADLOCK FALSE
