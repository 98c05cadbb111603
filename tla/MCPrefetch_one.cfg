\* One provider; its files and its index change under every call.
SPECIFICATION Spec
CONSTANTS
    Code = {"a"}
    Log = {"memory"}
    Session = {"s"}
    Text = {"m1", "m2", "r1", "t1"}
    NoText = "none"
    Says <- MCSays
    HotText = {"h0", "h1", "h2"}
    Size <- MCSize
    Query = {"q1", "q2"}
    Terms <- MCTerms
    HeadTerms <- MCHeadTerms
    Finds <- MCFinds
    Limit = 1
    MaxTime = 1
    MaxChanges = 2
INVARIANTS
    TypeOK
    HotZoneFresh
    MicroFresh
    Surfaced
