\* One process refines and restores beside the memory tool; MEMORY.md near and
\* far from its limit.
SPECIFICATION Spec
CONSTANTS
    Proc = {"p"}
    Body = {"long", "short", "huge", "mid", "giant"}
    Paras <- MCParas
    Chars <- MCChars
    Line <- MCLine
    Base <- MCBase
    BaseChars = 1
    CharLimit = 800
    Learned <- MCLearned
    Code <- MCCode
    MaxEntries = 2
    MaxAdds = 2
    MaxRuns = 3
    MaxTime = 1
INVARIANTS
    TypeOK
    EntriesKept
    PointersAnswer
    SkipSound
    NeverLonger
CHECK_DEADLOCK FALSE
