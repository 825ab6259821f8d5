--------------------------- MODULE IngestGateway ---------------------------
(***************************************************************************)
(* The ingest gateway as main.ts wires it: the adapter's events go to the  *)
(* session manager and to the health tracker, its frames to the chunk      *)
(* assembler, completed chunks, confirmed heartbeats and all errors to the *)
(* health tracker; and the shutdown on SIGTERM or SIGINT.                  *)
(*                                                                         *)
(* The adapter is its contract, ContributionSession, which the adapter of  *)
(* this code is proved to implement; main.ts calls fnConnect once, so one  *)
(* process serves one session.  The other components are themselves.       *)
(***************************************************************************)
EXTENDS Integers, Sequences

CONSTANTS
    Sources, NoSource, \* the requests that may become a leg's source
    Durations,         \* the durations of frames
    Window,            \* oEnv.nChunkDurationMs
    MaxFrames,         \* bound: frames emitted
    MaxEvents,         \* bound: lifecycle events before the shutdown
    MaxBeats,          \* bound: heartbeats sent
    MaxSignals,        \* bound: signals received
    InMemory,          \* oEnv.bUseInMemoryStores
    Faults             \* TRUE: store and object writes may fail

ASSUME SourcesAssumption == NoSource \notin Sources
ASSUME StoresAssumption == InMemory \in BOOLEAN /\ Faults \in BOOLEAN
ASSUME LocalAssumption == InMemory => ~Faults
ASSUME WindowAssumption == Window \in Nat \ {0}
ASSUME DurationsAssumption == Durations \subseteq Nat
ASSUME BoundsAssumption ==
    MaxFrames \in Nat /\ MaxEvents \in Nat /\ MaxBeats \in Nat /\ MaxSignals \in Nat

VARIABLES
    open, source, begun, events, frames,                        \* adapter
    current, timer, calls, sent, beats, row, told, storeErrors, \* manager
    last, handled,
    buffer, buffered, chunkSeq, putting, creating,              \* assembler
    objects, rows, completed, reported, ingested, flushed,
    health,                                                     \* tracker
    phase,   \* "running", "stopping" (fnShutdown awaits), "exited"
    awaited, \* the chunk that the first fnShutdown awaits, if any
    signals  \* how many signals were received

adapter == <<open, source, begun, events, frames>>
manager == <<current, timer, calls, sent, beats, row, told, storeErrors,
             last, handled>>
assembler == <<buffer, buffered, chunkSeq, putting, creating, objects, rows,
               completed, reported, ingested, flushed>>
process == <<phase, awaited, signals>>
vars == <<adapter, manager, assembler, health, process>>

\* Legs so far: each is a start and, but for the current one, an end.
Legs == (Len(events) + 1) \div 2

\* Where the adapter's timeline stands, as the assembler's module puts it.
Feed ==
    [session |-> 1, leg |-> IF events = <<>> THEN 1 ELSE Legs,
     offset |-> IF frames = <<>> THEN 0
                ELSE frames[Len(frames)].offset + frames[Len(frames)].duration]

Adapter == INSTANCE ContributionSession
\* Of the rows only the status is looked at here, and a request that the SDK
\* sends twice leaves the one that its second application alone would leave: one
\* try is enough.
Manager == INSTANCE SessionManager
    WITH MaxSessions <- 1, errors <- storeErrors, MaxTries <- 1,
         MaxEvents <- MaxEvents + 1
Assembler == INSTANCE ChunkAssembler
    WITH MaxSessions <- 1, MaxLegs <- MaxEvents, feed <- Feed, born <- 1
Tracker == INSTANCE IngestHealthTracker
Router == INSTANCE HealthRouter

\* Every component keeps its types behind the wiring.
TypeOK ==
    /\ Manager!TypeOK
    /\ Assembler!TypeOK
    /\ health \in Tracker!State
    /\ phase \in {"running", "stopping", "exited"}
    /\ awaited \subseteq flushed
    /\ signals \in Nat

Init ==
    /\ Adapter!Init
    /\ Manager!Init
    /\ buffer = <<>> /\ buffered = 0 /\ chunkSeq = 0
    /\ putting = {} /\ creating = {} /\ objects = {} /\ rows = {}
    /\ completed = <<>> /\ reported = {} /\ ingested = <<>> /\ flushed = {}
    /\ health = Tracker!Unknown
    /\ phase = "running"
    /\ awaited = {}
    /\ signals = 0

-----------------------------------------------------------------------------
\* In-memory writes settle in microtasks: everything that was begun finishes
\* before the event loop runs another callback.
Settled == InMemory => calls = {} /\ putting = {} /\ creating = {}

\* A plausible bug: fnFlush resolves as soon as the bytes are stored.
FlushOver_BytesOnly == awaited \cap putting = {}

\* What fnShutdown awaits has come to an end.
FlushOver == awaited \cap (putting \cup creating) = {}

\* With nothing left to await, process.exit runs in the next microtask.
ExitDue == phase = "stopping" /\ FlushOver /\ ~InMemory

Alive == phase # "exited" /\ ~ExitDue

\* What the health tracker makes of a lifecycle event; the heartbeats sent so
\* far stand for the time.
Notice(e) == health' = Tracker!AfterEvent(health, e, sent)

\* fnOnSessionEvent: the manager's handler up to its await, then the tracker.
Announce == LET e == events'[Len(events')] IN Manager!HandleEvent(e) /\ Notice(e)

\* An encoder is accepted: a first leg, or a further one.
EncoderConnects ==
    /\ Settled /\ phase = "running"
    /\ handled < MaxEvents
    /\ \E src \in Sources : Adapter!Begin(src) \/ Adapter!Resume(src)
    /\ Announce
    /\ UNCHANGED <<assembler, process>>

\* The encoder closes its connection.
EncoderCloses ==
    /\ Settled /\ phase = "running"
    /\ handled < MaxEvents
    /\ Adapter!Suspend("clean_disconnect")
    /\ Announce
    /\ UNCHANGED <<assembler, process>>

\* The connection breaks: the end of the leg, then fnOnError.
EncoderBreaks ==
    /\ Settled /\ phase = "running"
    /\ handled < MaxEvents
    /\ Adapter!Suspend("error")
    /\ LET e == events'[Len(events')] IN
          /\ Manager!HandleEvent(e)
          /\ health' = Tracker!AfterError(Tracker!AfterEvent(health, e, sent))
    /\ UNCHANGED <<assembler, process>>

\* A frame as the assembler's module describes it.
Normalized(f) ==
    [session |-> f.session, leg |-> (f.after + 1) \div 2, offset |-> f.offset,
     duration |-> f.duration, index |-> f.seqNo]

\* fnOnFrame.
FrameArrives ==
    /\ Settled /\ phase = "running"
    /\ Len(frames) < MaxFrames
    /\ \E d \in Durations :
          /\ Adapter!Emit(d)
          /\ Assembler!Ingest(Normalized(frames'[Len(frames')]))
    /\ UNCHANGED <<manager, health, process>>

-----------------------------------------------------------------------------
\* The session manager's timer and its answers.
HeartbeatTicks ==
    /\ Settled /\ Alive
    /\ Manager!Tick
    /\ UNCHANGED <<adapter, assembler, health, process>>

StoreStep(c) ==
    /\ Alive
    /\ \/ Manager!StoreAnswers(c)
       \/ Faults /\ Manager!StoreFails(c)
       \/ Faults /\ Manager!AnswerLost(c)
    /\ UNCHANGED <<adapter, assembler, health, process>>

\* fnOnError and fnOnHeartbeatEvent of the manager.
Hears(c) ==
    health' = IF c.outcome = "failed" THEN Tracker!AfterError(health)
              ELSE IF c.op = "heartbeat"
                   THEN Tracker!AfterHeartbeat(health, c.session, c.id)
                   ELSE health

HandlerReturns(c) ==
    /\ Alive
    /\ Manager!StartReturns(c) \/ Manager!EndReturns(c) \/ Manager!HeartbeatReturns(c)
    /\ Hears(c)
    /\ UNCHANGED <<adapter, assembler, process>>

-----------------------------------------------------------------------------
\* The assembler's answers; fnOnChunk and fnOnError of the assembler.
PutReturns(c) ==
    /\ Alive
    /\ UNCHANGED <<adapter, manager, process>>
    /\ \/ Assembler!PutSucceeds(c) /\ UNCHANGED health
       \/ /\ Faults
          /\ \E written \in BOOLEAN : Assembler!PutFails(c, written)
          /\ health' = Tracker!AfterError(health)

\* The metadata write fails.  It is never refused: the one flush that may cut a
\* chunk without extent is the last of the process, so no two chunks start
\* together (RowFree in IngestGatewayProofs).
CreateFailure(c) ==
    /\ Faults
    /\ \E written \in BOOLEAN : Assembler!CreateFails(c, written)

\* A plausible bug: the assembler's second error is not routed to the tracker.
CreateReturns_Unheard(c) ==
    /\ Alive
    /\ UNCHANGED <<adapter, manager, process>>
    /\ \/ Assembler!CreateSucceeds(c) /\ health' = Tracker!AfterChunk(health, c.seqNo)
       \/ CreateFailure(c) /\ UNCHANGED health

CreateReturns(c) ==
    /\ Alive
    /\ UNCHANGED <<adapter, manager, process>>
    /\ \/ Assembler!CreateSucceeds(c) /\ health' = Tracker!AfterChunk(health, c.seqNo)
       \/ CreateFailure(c) /\ health' = Tracker!AfterError(health)

-----------------------------------------------------------------------------
\* fnShutdown up to its last await.

\* A plausible bug: the session is forgotten without session.ended.
Disconnects_Silently ==
    IF open THEN Adapter!Close /\ UNCHANGED <<manager, health>>
            ELSE UNCHANGED <<adapter, manager, health>>

\* fnDisconnect: with a connected encoder the session is reported ended.
Disconnects ==
    IF open
    THEN /\ Adapter!Close
         /\ IF source # NoSource THEN Announce ELSE UNCHANGED <<manager, health>>
    ELSE UNCHANGED <<adapter, manager, health>>

\* The chunk of the final flush, if there was anything to flush.
Awaited == putting' \ putting

\* A plausible bug: the buffer is not flushed.
FlushesRest_Never ==
    UNCHANGED assembler

\* fnFlushRemaining: the buffer is cut off, and its chunk awaited.
FlushesRest ==
    IF buffer # <<>> THEN Assembler!FlushRemaining ELSE UNCHANGED assembler

Signal ==
    /\ Settled
    /\ phase = "running"
    /\ signals < MaxSignals
    /\ Disconnects
    /\ FlushesRest
    /\ awaited' = Awaited
    /\ phase' = "stopping"
    /\ signals' = signals + 1

\* A second signal runs fnShutdown again, on an adapter without session and an
\* empty buffer: it goes through to process.exit.
SignalAgain ==
    /\ Settled
    /\ phase = "stopping"
    /\ signals < MaxSignals
    /\ phase' = "exited"
    /\ signals' = signals + 1
    /\ UNCHANGED <<adapter, manager, assembler, health, awaited>>

\* process.exit after the last await: what is not written by now never is.
Exit ==
    /\ phase = "stopping"
    /\ FlushOver /\ Settled
    /\ phase' = "exited"
    /\ UNCHANGED <<adapter, manager, assembler, health, awaited, signals>>

Next ==
    \/ EncoderConnects
    \/ EncoderCloses
    \/ EncoderBreaks
    \/ FrameArrives
    \/ HeartbeatTicks
    \/ \E c \in calls : StoreStep(c) \/ HandlerReturns(c)
    \/ \E c \in putting : PutReturns(c)
    \/ \E c \in creating : CreateReturns(c)
    \/ Signal
    \/ SignalAgain
    \/ Exit

Spec == Init /\ [][Next]_vars

-----------------------------------------------------------------------------
\* Both health routes tell the truth about the source, whatever the stores
\* answer and when: the gateway is healthy and the station online exactly while
\* the adapter has a source, under that source's session; a station is known
\* once it had one, and its reconnects stay shown between the legs
\* (ingest-health-tracker.ts:41: "Total reconnects on the current session").
HealthMatchesSource ==
    LET gateway == Router!GatewayHealth(IF health.known THEN {health} ELSE {})
        station == Router!StationHealth(health) IN
    /\ gateway.status = "healthy" <=> source # NoSource
    /\ station.code = 200 <=> begun # 0
    /\ station.code = 200 =>
          /\ station.body.status = "online" <=> source # NoSource
          /\ station.body.session = IF source # NoSource THEN begun ELSE 0
          /\ station.body.count = events[Len(events)].count

\* An error of any store is on /health from then on: with one session per
\* process nothing clears it ("errors from all three -> health tracker",
\* main.ts:146).
ErrorsShown == storeErrors > 0 \/ reported # {} => health.error

\* The window that was open when the signal came is not lost: at the exit it
\* has a row, or an error named it (lines 229 and 240).
LastWindowKept ==
    phase = "exited" /\ signals = 1 =>
        buffer = <<>> /\ awaited \subseteq rows \cup reported

\* At the exit the session record is not live any more (lines 25-26: the
\* shutdown "ends the session cleanly in DynamoDB ... before the process
\* exits").
EndedAtExit ==
    phase = "exited" => row[1].status \in {"absent", "ended", "failed"}

\* At the exit every frame that was accepted is in a stored chunk, unless an
\* error was reported (line 25: the shutdown "flushes remaining buffered
\* frames"; line 229: "so the last seconds of audio are not lost").
AudioKeptAtExit ==
    phase = "exited" /\ reported = {} =>
        \A i \in 1..Len(ingested) :
            \E c \in rows : \E j \in 1..Len(c.frames) : c.frames[j] = ingested[i]

\* The events that reach the session manager are those its module assumes of
\* an adapter: what is shown of the manager there holds of it here.
ManagerAsSpecified == Manager!Spec

\* The frames that reach the assembler are those its module assumes.
AssemblerAsSpecified == Assembler!Spec

\* Stored audio belongs to a session that is on record: no chunk row without
\* its live_sessions row.
ChunksHaveSession == rows # {} => row[1].status # "absent"
=============================================================================
