\* Local validation mode: in-memory stores, every handler runs alone.
SPECIFICATION Spec
CONSTANTS
    Sources = {s1}
    NoSource = NoSource
    Durations = {2, 5}
    Window = 4
    MaxFrames = 4
    MaxEvents = 5
    MaxBeats = 2
    MaxSignals = 2
    InMemory = TRUE
    Faults = FALSE
CHECK_DEADLOCK FALSE
INVARIANTS
    EndedAtExit
    AudioKeptAtExit
    ChunksHaveSession
PROPERTIES
    ManagerAsSpecified
