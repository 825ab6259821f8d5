\* Windows of several frames, exactly full, exceeded and final ones; flushes
\* that overlap, writes that fail before or after being applied, and stops of
\* the process.
SPECIFICATION Spec
CONSTANTS
    Window = 4
    Durations = {0, 2, 5}
    MaxFrames = 3
    MaxSessions = 3
    MaxLegs = 3
    Faults = TRUE
CHECK_DEADLOCK FALSE
INVARIANTS
    TypeOK
    RowHasObject
    LossIsReported
    ToldOnlyPersisted
    WindowsDisjoint
    FramesOnce
    WindowsTight
PROPERTIES
    KeepsArchive
