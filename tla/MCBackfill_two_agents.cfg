\* Two agents with a source racing over the marker while history grows.
SPECIFICATION Spec
CONSTANTS
    Proc = {a, b}
    Sourced = {a, b}
    Blank = "blank"
    Files = {"f"}
    Turns = {}
    Content <- MCContent
    Batch = 2
    OldRows = 3
    MaxRows = 4
    MaxStarts = 2
    MaxRebuilds = 1
SYMMETRY MCSymmetry
INVARIANTS
    NoteHonest
CHECK_DEADLOCK FALSE
