\* The in-memory store of local validation mode: every handler runs alone.
SPECIFICATION Spec
CONSTANTS
    MaxSessions = 3
    MaxEvents = 7
    MaxBeats = 3
    MaxTries = 1
    InMemory = TRUE
CHECK_DEADLOCK FALSE
INVARIANTS
    RowMatchesLastEvent
    LiveSessionTracked
PROPERTIES
    NoTickAfterEnd
