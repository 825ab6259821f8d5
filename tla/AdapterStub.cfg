\* The stub resolver of main.ts: the lookup settles before any other callback.
SPECIFICATION FairSpec
CONSTANTS
    NoRequest = NoRequest
    Requests = {r1, r2, r3}
    FrameDurations = {0, 2}
    MaxFrames = 3
    ResolverYields = FALSE
INVARIANTS
    OneSource
PROPERTIES
    SilentWhenDisconnected
    ImplementsContract
    SlotFreed
