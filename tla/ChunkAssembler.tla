-------------------------- MODULE ChunkAssembler --------------------------
(***************************************************************************)
(* The chunk assembler (chunk/chunk-assembler.ts) and the two stores it    *)
(* writes to: S3 objects (chunk/audio-store.ts) and audio_chunks rows      *)
(* (chunk/chunk-store.ts).  Frames are buffered; a full window is cut off  *)
(* into a chunk, whose bytes go to S3 and whose metadata, only then, goes  *)
(* to DynamoDB.                                                            *)
(*                                                                         *)
(* fnIngestFrame is not awaited, so the flushes of successive windows      *)
(* overlap: a flush is cut at its two awaits, and the writes of different  *)
(* flushes are applied in any order.  A write may fail before or after it  *)
(* was applied, and the process may stop at any moment.                    *)
(***************************************************************************)
EXTENDS Integers, Sequences

CONSTANTS
    Window,      \* nChunkDurationMs
    Durations,   \* the durations a frame may have
    MaxFrames,   \* bound: frames ingested
    MaxSessions, \* bound: sessions the frames belong to
    MaxLegs,     \* bound: connection legs the frames come from
    Faults       \* TRUE: writes may fail and the process may stop

ASSUME WindowAssumption == Window \in Nat \ {0}
ASSUME DurationsAssumption == Durations \subseteq Nat
ASSUME BoundsAssumption ==
    MaxFrames \in Nat /\ MaxSessions \in Nat /\ MaxLegs \in Nat
ASSUME FaultsAssumption == Faults \in BOOLEAN

VARIABLES
    buffer,    \* aFrameBuffer
    buffered,  \* nBufferedDurationMs
    chunkSeq,  \* nSequenceNo
    putting,   \* chunks whose S3 write is under way
    creating,  \* chunks whose DynamoDB write is under way
    objects,   \* the S3 objects, by key
    rows,      \* the audio_chunks rows, by primary key
    completed, \* chunks passed to fnChunkHandler, in order
    reported,  \* chunks named in an error passed to fnEmitError
    feed,      \* where the adapter's timeline stands: session, leg, offset
    ingested,  \* every frame fnIngestFrame was given, in order
    flushed,   \* every chunk fnFlush cut off
    born       \* the first session of this process

stores == <<objects, rows>>
flights == <<putting, creating>>
vars == <<buffer, buffered, chunkSeq, flights, stores, completed, reported,
          feed, ingested, flushed, born>>

Feed == [session: Nat, leg: Nat, offset: Nat]

\* `index` tells the frames of a behaviour apart; `leg` stands for the codec,
\* rate and channels, which a connection fixes.
Frame == [session: Nat, leg: Nat, offset: Nat, duration: Nat, index: Nat]

\* A chunk with its bytes: the frames that were concatenated.
Chunk == [session: Nat, leg: Nat, seqNo: Nat, start: Nat, end: Nat,
          frames: Seq(Frame)]

\* Every variable keeps the shape the code gives it: among others, lengths,
\* numbers and offsets are never negative.
TypeOK ==
    /\ buffer \in Seq(Frame)
    /\ buffered \in Nat
    /\ chunkSeq \in Nat
    /\ putting \subseteq Chunk
    /\ creating \subseteq Chunk
    /\ objects \subseteq Chunk
    /\ rows \subseteq Chunk
    /\ completed \in Seq(Chunk)
    /\ reported \subseteq Chunk
    /\ feed \in Feed
    /\ ingested \in Seq(Frame)
    /\ flushed \subseteq Chunk
    /\ born \in Nat

Init ==
    /\ buffer = <<>>
    /\ buffered = 0
    /\ chunkSeq = 0
    /\ putting = {}
    /\ creating = {}
    /\ objects = {}
    /\ rows = {}
    /\ completed = <<>>
    /\ reported = {}
    /\ feed = [session |-> 1, leg |-> 1, offset |-> 0]
    /\ ingested = <<>>
    /\ flushed = {}
    /\ born = 1

-----------------------------------------------------------------------------
\* fnBuildChunkS3Key: station, session and sequence number.  The extension is
\* the codec's; no two chunks of a session share a number, whatever their codec.
SameKey(c, d) == c.session = d.session /\ c.seqNo = d.seqNo

\* The primary key of audio_chunks: session_id and chunk_started_at.
SameRow(c, d) == c.session = d.session /\ c.start = d.start

\* The chunk made of `frames`, whose durations add up to `total`: identity,
\* start and codec are the first frame's.
ChunkOf(frames, total) ==
    [session |-> frames[1].session, leg |-> frames[1].leg, seqNo |-> chunkSeq,
     start |-> frames[1].offset, end |-> frames[1].offset + total,
     frames |-> frames]

\* A plausible bug: the overshoot of a window is carried into the next one.
Cut_CarriesOver(frames, total) ==
    /\ buffer' = <<>>
    /\ buffered' = total - Window
    /\ chunkSeq' = chunkSeq + 1
    /\ putting' = putting \cup {ChunkOf(frames, total)}
    /\ flushed' = flushed \cup {ChunkOf(frames, total)}

\* A plausible bug: the frames stay in the buffer until the chunk is stored.
Cut_KeepsBuffer(frames, total) ==
    /\ buffer' = frames
    /\ buffered' = 0
    /\ chunkSeq' = chunkSeq + 1
    /\ putting' = putting \cup {ChunkOf(frames, total)}
    /\ flushed' = flushed \cup {ChunkOf(frames, total)}

\* A plausible bug: the number is advanced only when the buffer was full.
Cut_StaleNumber(frames, total) ==
    /\ buffer' = <<>>
    /\ buffered' = 0
    /\ chunkSeq' = IF total > Window THEN chunkSeq + 1 ELSE chunkSeq
    /\ putting' = putting \cup {ChunkOf(frames, total)}
    /\ flushed' = flushed \cup {ChunkOf(frames, total)}

\* A plausible bug: the frame that exceeds the window is left out of the chunk.
Cut_LosesLast(frames, total) ==
    LET kept == IF total > Window /\ Len(frames) > 1
                THEN SubSeq(frames, 1, Len(frames) - 1) ELSE frames
    IN
    /\ buffer' = <<>>
    /\ buffered' = 0
    /\ chunkSeq' = chunkSeq + 1
    /\ putting' = putting \cup {ChunkOf(kept, total)}
    /\ flushed' = flushed \cup {ChunkOf(kept, total)}

\* fnFlush up to its first await: the buffer is emptied and the number taken
\* before anything asynchronous.
Cut(frames, total) ==
    /\ buffer' = <<>>
    /\ buffered' = 0
    /\ chunkSeq' = chunkSeq + 1
    /\ putting' = putting \cup {ChunkOf(frames, total)}
    /\ flushed' = flushed \cup {ChunkOf(frames, total)}

\* A plausible bug: a window that is exactly full is not flushed.
Full_Exceeded(total) == total > Window

Full(total) == total >= Window

\* fnIngestFrame.
Ingest(f) ==
    LET frames == Append(buffer, f)
        total == buffered + f.duration
    IN
    /\ ingested' = Append(ingested, f)
    /\ IF Full(total)
       THEN Cut(frames, total)
       ELSE /\ buffer' = frames
            /\ buffered' = total
            /\ UNCHANGED <<chunkSeq, putting, flushed>>
    /\ UNCHANGED <<creating, stores, completed, reported, born>>

\* fnFlushRemaining: a final chunk of whatever is buffered.
FlushRemaining ==
    /\ buffer # <<>>
    /\ Cut(buffer, buffered)
    /\ UNCHANGED <<creating, stores, completed, reported, feed, ingested, born>>

-----------------------------------------------------------------------------
\* fnFlush after its first await.
Rest == <<buffer, buffered, chunkSeq, feed, ingested, flushed, born>>

\* A put replaces what is stored under the key.
Stored(c) == {d \in objects : ~SameKey(c, d)} \cup {c}

PutSucceeds(c) ==
    /\ putting' = putting \ {c}
    /\ objects' = Stored(c)
    /\ creating' = creating \cup {c}
    /\ UNCHANGED <<Rest, rows, completed, reported>>

\* A plausible bug: the metadata is written although the bytes were not.
PutFails_GoesOn(c, written) ==
    /\ putting' = putting \ {c}
    /\ objects' = IF written THEN Stored(c) ELSE objects
    /\ creating' = creating \cup {c}
    /\ reported' = reported \cup {c}
    /\ UNCHANGED <<Rest, rows, completed>>

\* A plausible bug: the failure is swallowed.
PutFails_Silent(c, written) ==
    /\ putting' = putting \ {c}
    /\ objects' = IF written THEN Stored(c) ELSE objects
    /\ UNCHANGED <<Rest, creating, rows, completed, reported>>

\* An error, and no metadata; the object may have been written all the same.
PutFails(c, written) ==
    /\ putting' = putting \ {c}
    /\ objects' = IF written THEN Stored(c) ELSE objects
    /\ reported' = reported \cup {c}
    /\ UNCHANGED <<Rest, creating, rows, completed>>

\* fnFlush after its second await.
RowTaken(c) == \E d \in rows : SameRow(c, d)

CreateSucceeds(c) ==
    /\ ~RowTaken(c)
    /\ creating' = creating \ {c}
    /\ rows' = rows \cup {c}
    /\ completed' = Append(completed, c)
    /\ UNCHANGED <<Rest, putting, objects, reported>>

\* A plausible bug: downstream is told whatever became of the row.
CreateFails_StillTells(c, written) ==
    /\ creating' = creating \ {c}
    /\ rows' = IF written THEN rows \cup {c} ELSE rows
    /\ reported' = reported \cup {c}
    /\ completed' = Append(completed, c)
    /\ UNCHANGED <<Rest, putting, objects>>

\* Refused by the condition, or failed; in the second case the row may have
\* been written.  Nothing is passed on.
CreateFails(c, written) ==
    /\ creating' = creating \ {c}
    /\ rows' = IF written THEN rows \cup {c} ELSE rows
    /\ reported' = reported \cup {c}
    /\ UNCHANGED <<Rest, putting, objects, completed>>

-----------------------------------------------------------------------------
\* What the adapter may send next: a frame where its timeline stands.
NextFrame(d) ==
    [session |-> feed.session, leg |-> feed.leg, offset |-> feed.offset,
     duration |-> d, index |-> Len(ingested)]

Receive ==
    /\ Len(ingested) < MaxFrames
    /\ \E d \in Durations :
          /\ Ingest(NextFrame(d))
          /\ feed' = [feed EXCEPT !.offset = @ + d]

Idle == <<buffer, buffered, chunkSeq, flights, stores, completed, reported,
          ingested, flushed, born>>

\* The encoder reconnects: a new leg on the same timeline.
Reconnect ==
    /\ feed.leg < MaxLegs
    /\ feed' = [feed EXCEPT !.leg = @ + 1]
    /\ UNCHANGED Idle

\* The adapter is disconnected and connected again: a new session, from zero.
NewSession ==
    /\ feed.session < MaxSessions /\ feed.leg < MaxLegs
    /\ feed' = [session |-> feed.session + 1, leg |-> feed.leg + 1, offset |-> 0]
    /\ UNCHANGED Idle

\* The process stops and is started again: the buffer and the flushes in
\* flight are gone, the stores stay, the adapter mints a new session.
Restart ==
    /\ Faults
    /\ feed.session < MaxSessions /\ feed.leg < MaxLegs
    /\ feed' = [session |-> feed.session + 1, leg |-> feed.leg + 1, offset |-> 0]
    /\ born' = feed.session + 1
    /\ buffer' = <<>>
    /\ buffered' = 0
    /\ chunkSeq' = 0
    /\ putting' = {}
    /\ creating' = {}
    /\ UNCHANGED <<stores, completed, reported, ingested, flushed>>

Next ==
    \/ Receive
    \/ FlushRemaining
    \/ Reconnect
    \/ NewSession
    \/ Restart
    \/ \E c \in putting :
          \/ PutSucceeds(c)
          \/ Faults /\ \E written \in BOOLEAN : PutFails(c, written)
    \/ \E c \in creating :
          \/ CreateSucceeds(c)
          \/ RowTaken(c) /\ CreateFails(c, FALSE)
          \/ Faults /\ \E written \in {FALSE, ~RowTaken(c)} : CreateFails(c, written)

Spec == Init /\ [][Next]_vars

-----------------------------------------------------------------------------
\* Every row points at an S3 object that holds exactly the bytes the row
\* describes: metadata never outruns the audio, and no later chunk overwrites
\* it (line 172: "This MUST succeed before we attempt the DynamoDB write").
RowHasObject == rows \subseteq objects

\* A session's chunks are numbered once each, and their windows follow each
\* other in that order without overlap: each moment of audio is in one chunk at
\* most, so the overlap query of DATA-MODEL.md returns it once.
WindowsDisjoint ==
    \A c, d \in flushed :
        c.session = d.session /\ c.seqNo <= d.seqNo => c = d \/ c.end <= d.start

\* No frame is stored twice, torn or moved: the frames of a chunk are
\* consecutive frames of the input, and two chunks share none.
FramesOnce ==
    /\ \A c \in flushed :
          \E i \in 1..Len(ingested) :
              c.frames = SubSeq(ingested, i, i + Len(c.frames) - 1)
    /\ \A c, d \in flushed :
          c # d => {c.frames[i].index : i \in 1..Len(c.frames)} \cap
                   {d.frames[i].index : i \in 1..Len(d.frames)} = {}

\* A chunk is lost only with an error: one that this process cut, that is not
\* being written and that has no row was reported (lines 182-222).
LossIsReported ==
    {c \in flushed : c.session >= born /\ c \notin putting \cup creating \cup rows}
        \subseteq reported

\* Downstream sees a chunk once and only when both stores hold it
\* (lines 219-220).
ToldOnlyPersisted ==
    /\ \A i \in 1..Len(completed) : completed[i] \in rows \cap objects
    /\ \A i, j \in 1..Len(completed) :
          i # j => ~SameKey(completed[i], completed[j])

\* A window is closed by the frame that fills it: without its last frame every
\* chunk is shorter than a window, whatever was buffered before a reconnect or
\* a new session (line 104).
WindowsTight ==
    \A c \in flushed :
        c.end - c.start - c.frames[Len(c.frames)].duration < Window
-----------------------------------------------------------------------------
\* The numbers of the frames of a chunk, or of the buffer.
Numbers(frames) == {frames[i].index : i \in 1..Len(frames)}

FramesOf(chunks) == UNION {Numbers(c.frames) : c \in chunks}

\* The assembler keeps an archive: a frame is held in the buffer or in a flush,
\* and stored with the row of its chunk.
Archive == INSTANCE AudioArchive
    WITH accepted <- Len(ingested),
         held <- Numbers(buffer) \cup FramesOf(putting \cup creating),
         stored <- FramesOf(rows),
         reported <- FramesOf(reported)

\* Whatever the windows, the order of the writes and their failures: an accepted
\* frame is held, stored or reported, goes from the first to the others once,
\* and is lost in silence only when the process stops (lines 3-12 and 171-222).
KeepsArchive == Archive!Spec
=============================================================================
