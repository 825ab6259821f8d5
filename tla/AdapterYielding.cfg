\* A credential resolver that does I/O: other callbacks run during the lookup.
SPECIFICATION Spec
CONSTANTS
    NoRequest = NoRequest
    Requests = {r1, r2, r3}
    FrameDurations = {0, 2}
    MaxFrames = 3
    ResolverYields = TRUE
SYMMETRY Symmetry
INVARIANTS
    TypeOK
    TimelineContiguous
    ReconnectsCounted
    NoDuplicateEnd
    IdleIsReported
