\* AWS stores whose writes overlap, are applied in any order and may fail.
SPECIFICATION Spec
CONSTANTS
    Sources = {s1}
    NoSource = NoSource
    Durations = {2}
    Window = 4
    MaxFrames = 2
    MaxEvents = 3
    MaxBeats = 1
    MaxSignals = 2
    InMemory = FALSE
    Faults = TRUE
CHECK_DEADLOCK FALSE
INVARIANTS
    HealthMatchesSource
    ErrorsShown
    LastWindowKept
PROPERTIES
    AssemblerAsSpecified
