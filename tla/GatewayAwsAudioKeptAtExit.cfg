\* AWS stores whose writes overlap; none fails.
SPECIFICATION Spec
CONSTANTS
    Sources = {s1}
    NoSource = NoSource
    Durations = {2}
    Window = 4
    MaxFrames = 3
    MaxEvents = 2
    MaxBeats = 1
    MaxSignals = 1
    InMemory = FALSE
    Faults = FALSE
CHECK_DEADLOCK FALSE
INVARIANTS
    AudioKeptAtExit
