\* Two entries; sessions that recur, each with the
\* options it finds, some of them killed while starting or inactive.
SPECIFICATION FairSpec
CONSTANTS
    Entry = {"x", "y"}
    Threshold = 2
    Staleness = 1
    StaleAfter = 2
    MaxFaults = 2
INVARIANTS
    TypeOK
    ColdSearchable
    DreamIdleSeen
PROPERTIES
    SearchableForGood
