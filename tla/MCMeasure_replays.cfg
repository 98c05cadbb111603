\* Two replays over a store in memory or in a file, with and without the
\* trigram tokenizer; every sequence of four events.
SPECIFICATION Spec
CONSTANTS
    Word = {"long", "two", "deploy", "ui", "OR"}
    Operator = {"OR"}
    Cjk <- MCCjk
    Length <- MCLength
    Text = {"a", "b", "c", "d", "e"}
    Within <- MCWithin
    Whole <- MCWhole
    Snippet <- MCSnippet
    Item <- MCItem
    Knowledge <- MCKnowledge
    Question <- MCQuestion
    Expected <- MCExpected
    SnippetChars <- MCSnippetChars
    ResidentChars = 300
    LegendChars = 60
    SessionChars <- MCSessions
    Limit = 2
    Event <- MCEvent
    MaxTime = 3
    MaxReplays = 2
    MaxEvents = 4
INVARIANTS
    Recalled
    FresherFirst
    ShipMeansWin
    ReportsAgree
CHECK_DEADLOCK FALSE
