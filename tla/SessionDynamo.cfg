\* DynamoDB: calls overlap, are applied in any order and may fail.
SPECIFICATION Spec
CONSTANTS
    MaxSessions = 2
    MaxEvents = 4
    MaxBeats = 1
    MaxTries = 2
    InMemory = FALSE
CHECK_DEADLOCK FALSE
INVARIANTS
    TypeOK
    EndedIsForgotten
    HeartbeatsPersisted
    SessionOnRecord
