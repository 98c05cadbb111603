\* Two processes open a store that does not exist yet; they may fail.
SPECIFICATION Spec
CONSTANTS
    Proc = {"p", "q"}
    Legacy <- MCLegacy
    MaxEvents = 4
    MaxFaults = 2
INVARIANTS
    TypeOK
    CopiesBounded
    HistoryFollows
    ImportWhole
CHECK_DEADLOCK FALSE
