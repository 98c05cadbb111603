\* The memory tool writes while a refine is under way.
SPECIFICATION Spec
CONSTANTS
    Proc = {"p"}
    Body = {"long", "short"}
    Paras <- MCParas
    Chars <- MCChars
    Line <- MCLine
    Base <- MCBase
    BaseChars = 1
    CharLimit = 2200
    Learned <- MCLearned
    Code <- MCCode
    MaxEntries = 3
    MaxAdds = 2
    MaxRuns = 1
    MaxTime = 0
INVARIANTS
    NoSilentLoss
CHECK_DEADLOCK FALSE
