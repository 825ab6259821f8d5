----------------------- MODULE ChunkAssemblerProofs -----------------------
(***************************************************************************)
(* Proofs about the chunk assembler, for every window, every set of frame  *)
(* durations, every number of frames and with or without faults.           *)
(*                                                                         *)
(* All safety properties follow from one inductive invariant, ChunkInv:    *)
(* a number is used once per session (Numbering), writes are ordered       *)
(* object before row before announcement (Storing, Announcing), and the    *)
(* buffer starts where the session's last chunk ended (Windows).           *)
(***************************************************************************)
EXTENDS ChunkAssembler, SequenceTheorems, TLAPS

-----------------------------------------------------------------------------
\* The invariant.

\* The session of the chunk that the buffer would become.
BufferSession == buffer[1].session

Numbering ==
    /\ born <= feed.session
    /\ buffer # <<>> => BufferSession \in born..feed.session
    /\ \A c \in flushed : c.session <= feed.session
    /\ \A c \in flushed : c.session >= born => c.seqNo < chunkSeq
    /\ \A c, d \in flushed : SameKey(c, d) => c = d

Storing ==
    /\ putting \cup creating \cup objects \subseteq flushed
    /\ creating \cup rows \subseteq objects

Announcing ==
    /\ \A i \in 1..Len(completed) : completed[i] \in rows
    /\ \A i, j \in 1..Len(completed) : i # j => completed[i] # completed[j]

\* Where the next chunk of the session will start.
Windows ==
    /\ buffer = <<>> =>
          /\ buffered = 0
          /\ \A c \in flushed : c.session = feed.session => c.end <= feed.offset
    /\ buffer # <<>> =>
          /\ BufferSession = feed.session => buffer[1].offset + buffered = feed.offset
          /\ \A c \in flushed :
                /\ c.session <= BufferSession
                /\ c.session = BufferSession => c.end <= buffer[1].offset

ChunkInv == /\ TypeOK
            /\ Numbering
            /\ Storing
            /\ Announcing
            /\ Windows
            /\ WindowsDisjoint
            /\ LossIsReported

-----------------------------------------------------------------------------
\* The invariant holds initially: nothing is buffered and nothing is stored.
LEMMA ChunkInit == Init => ChunkInv
<1> SUFFICES ASSUME Init PROVE ChunkInv
  OBVIOUS
<1>1. TypeOK
  BY EmptySeq DEF Init, TypeOK, Feed
<1>2. Numbering /\ Storing /\ Announcing /\ Windows
  BY DEF Init, Numbering, Storing, Announcing, Windows
<1>3. WindowsDisjoint /\ LossIsReported
  BY DEF Init, WindowsDisjoint, LossIsReported
<1> QED
  BY <1>1, <1>2, <1>3 DEF ChunkInv

-----------------------------------------------------------------------------
\* Cutting a chunk, which both a full window and the final flush do.

\* The frames about to be cut, and what is known of them: they start where the
\* session's last chunk ended and reach to where the timeline stands after the
\* step.
Cuttable(frames, total) ==
    /\ frames \in Seq(Frame)
    /\ frames # <<>>
    /\ total \in Nat
    /\ frames[1].session \in born..feed.session
    /\ frames[1].session = feed.session => frames[1].offset + total = feed'.offset
    /\ \A c \in flushed :
          /\ c.session <= frames[1].session
          /\ c.session = frames[1].session => c.end <= frames[1].offset

\* What a cut makes of non-empty frames is a chunk.
LEMMA ChunkType ==
    ASSUME TypeOK, NEW frames \in Seq(Frame), frames # <<>>, NEW total \in Nat
    PROVE  ChunkOf(frames, total) \in Chunk
<1>1. frames[1] \in Frame
  OBVIOUS
<1>2. frames[1].session \in Nat /\ frames[1].leg \in Nat /\ frames[1].offset \in Nat
  BY <1>1 DEF Frame
<1>3. frames[1].offset + total \in Nat /\ chunkSeq \in Nat
  BY <1>2 DEF TypeOK
<1> QED
  BY <1>2, <1>3 DEF ChunkOf, Chunk

\* Cutting a chunk off keeps the invariant (fnFlush up to its first await).
LEMMA CutStep ==
    ASSUME ChunkInv, NEW frames, NEW total, Cuttable(frames, total),
           Cut(frames, total), feed' \in Feed, feed'.session = feed.session,
           ingested' \in Seq(Frame),
           UNCHANGED <<creating, objects, rows, completed, reported, born>>
    PROVE  ChunkInv'
<1> DEFINE new == ChunkOf(frames, total)
<1> USE DEF ChunkInv
<1>1. new \in Chunk
  BY ChunkType DEF Cuttable
<1>2. /\ new.session = frames[1].session
      /\ new.seqNo = chunkSeq
      /\ new.start = frames[1].offset
      /\ new.end = frames[1].offset + total
  BY DEF ChunkOf
<1>3. /\ buffer' = <<>> /\ buffered' = 0 /\ chunkSeq' = chunkSeq + 1
      /\ putting' = putting \cup {new} /\ flushed' = flushed \cup {new}
  BY DEF Cut
<1> HIDE DEF new
<1>4. TypeOK'
  BY <1>1, <1>3, EmptySeq DEF TypeOK
<1>5. chunkSeq \in Nat /\ flushed \subseteq Chunk /\ born \in Nat /\ feed \in Feed
  BY DEF TypeOK
<1>6. \A c \in flushed : /\ c.session \in Nat /\ c.seqNo \in Nat
                         /\ c.start \in Nat /\ c.end \in Nat
  BY <1>5 DEF Chunk
<1>7. /\ new.session \in Nat /\ new.session \in born..feed.session
      /\ feed.session \in Nat
  BY <1>1, <1>2, <1>5 DEF Chunk, Feed, Cuttable
<1>8. Numbering'
  <2>1. \A c \in flushed : c.session = new.session => c.seqNo < new.seqNo
    BY <1>2, <1>5, <1>6, <1>7 DEF Numbering
  <2>2. \A c, d \in flushed' : SameKey(c, d) => c = d
    BY <2>1, <1>2, <1>3, <1>5, <1>6 DEF Numbering, SameKey
  <2>3. \A c \in flushed' : c.session >= born' => c.seqNo < chunkSeq'
    BY <1>2, <1>3, <1>5, <1>6 DEF Numbering
  <2>4. \A c \in flushed' : c.session <= feed'.session
    BY <1>3, <1>7 DEF Numbering
  <2>5. born' <= feed'.session
    BY DEF Numbering
  <2> QED
    BY <2>2, <2>3, <2>4, <2>5, <1>3 DEF Numbering, SameKey
<1>9. Storing' /\ Announcing'
  BY <1>3 DEF Storing, Announcing
<1>10. Windows'
  <2>1. new.session = feed.session => new.end = feed'.offset
    BY <1>2 DEF Cuttable
  <2>2. \A c \in flushed : c.session = feed.session =>
            /\ new.session = feed.session
            /\ c.end <= new.start
    BY <1>2, <1>5, <1>6, <1>7 DEF Cuttable, Numbering
  <2>3. new.start \in Nat /\ new.start <= new.end /\ new.end \in Nat
    BY <1>1, <1>2 DEF Chunk, Cuttable
  <2>4. \A c \in flushed' : c.session = feed'.session => c.end <= feed'.offset
    BY <2>1, <2>2, <2>3, <1>3, <1>6
  <2> QED
    BY <2>4, <1>3 DEF Windows
<1>11. WindowsDisjoint'
  <2>1. \A c \in flushed : c.session = new.session => c.end <= new.start
    BY <1>2 DEF Cuttable
  <2>2. \A c \in flushed : c.session = new.session => c.seqNo < new.seqNo
    BY <1>2, <1>5, <1>6, <1>7 DEF Numbering
  <2>3. new.seqNo \in Nat
    BY <1>2, <1>5
  <2> QED
    BY <2>1, <2>2, <2>3, <1>3, <1>6 DEF WindowsDisjoint
<1>12. LossIsReported'
  BY <1>3 DEF LossIsReported
<1> QED
  BY <1>4, <1>8, <1>9, <1>10, <1>11, <1>12

\* A frame of the adapter keeps the invariant, whether it fills the window or
\* not (fnIngestFrame).
LEMMA ReceiveStep == ChunkInv /\ Receive => ChunkInv'
<1> SUFFICES ASSUME ChunkInv, Receive PROVE ChunkInv'
  OBVIOUS
<1> USE DEF ChunkInv
<1>1. PICK d \in Durations : /\ Ingest(NextFrame(d))
                             /\ feed' = [feed EXCEPT !.offset = @ + d]
  BY DEF Receive
<1> DEFINE f == NextFrame(d)
           frames == Append(buffer, f)
           total == buffered + d
<1>2. d \in Nat /\ f \in Frame /\ f.duration = d
  BY DurationsAssumption DEF NextFrame, Frame, TypeOK, Feed
<1>3. /\ feed' \in Feed /\ feed'.session = feed.session
      /\ feed'.offset = feed.offset + d
      /\ feed.offset \in Nat /\ feed.session \in Nat
  <2>1. feed \in Feed /\ feed' = [feed EXCEPT !.offset = @ + d]
    BY <1>1 DEF TypeOK
  <2>2. /\ feed.offset \in Nat /\ feed.session \in Nat
        /\ feed'.session = feed.session /\ feed'.offset = feed.offset + d
    BY <2>1 DEF Feed
  <2>3. feed.offset + d \in Nat
    BY <2>2, <1>2
  <2>4. feed' \in Feed
    BY <2>1, <2>2, <2>3 DEF Feed
  <2> QED
    BY <2>2, <2>4
<1>4. /\ frames \in Seq(Frame) /\ frames # <<>>
      /\ frames[1] = IF buffer = <<>> THEN f ELSE buffer[1]
  <2>1. buffer \in Seq(Frame)
    BY DEF TypeOK
  <2>2. f \in Frame
    BY <1>2
  <2> HIDE DEF f
  <2>3. /\ frames \in Seq(Frame) /\ Len(frames) = Len(buffer) + 1
        /\ frames[Len(buffer) + 1] = f
        /\ \A i \in 1..Len(buffer) : frames[i] = buffer[i]
    BY <2>1, <2>2, AppendProperties
  <2>4. CASE buffer = <<>>
    BY <2>3, <2>4
  <2>5. CASE buffer # <<>>
    <3>1. Len(buffer) \in Nat /\ Len(buffer) >= 1
      BY <2>1, <2>5, EmptySeq, LenProperties
    <3> HIDE DEF frames
    <3> QED
      BY <3>1, <2>3, <2>5
  <2> QED
    BY <2>4, <2>5
<1>5. f.session = feed.session /\ f.offset = feed.offset
  BY DEF NextFrame
<1>6. total \in Nat /\ buffered \in Nat
  BY <1>2 DEF TypeOK
<1>7. /\ ingested' = Append(ingested, f)
      /\ UNCHANGED <<creating, objects, rows, completed, reported, born>>
  BY <1>1 DEF Ingest, stores
<1>8. ingested' \in Seq(Frame)
  BY <1>2, <1>7, AppendProperties DEF TypeOK
<1>9. /\ frames[1].session \in born..feed.session
      /\ frames[1].session = feed.session
            => frames[1].offset + total = feed'.offset
      /\ \A c \in flushed :
            /\ c.session <= frames[1].session
            /\ c.session = frames[1].session => c.end <= frames[1].offset
  <2>1. CASE buffer = <<>>
    <3>1. frames[1] = f /\ buffered = 0
      BY <2>1, <1>4 DEF Windows
    <3>2. born \in Nat /\ born <= feed.session
      BY DEF TypeOK, Numbering
    <3> HIDE DEF f, frames
    <3> QED
      BY <3>1, <3>2, <2>1, <1>2, <1>3, <1>5 DEF Windows, Numbering
  <2>2. CASE buffer # <<>>
    <3>1. frames[1] = buffer[1] /\ buffer[1] \in Frame
      BY <2>2, <1>4 DEF TypeOK
    <3>2. buffer[1].offset \in Nat
      BY <3>1 DEF Frame
    <3> HIDE DEF f, frames
    <3> QED
      BY <3>1, <3>2, <2>2, <1>2, <1>3, <1>6
      DEF Windows, Numbering, BufferSession
  <2> QED
    BY <2>1, <2>2
<1>10. Cuttable(frames, total)
  <2> HIDE DEF frames, total
  <2> QED
    BY <1>4, <1>6, <1>9 DEF Cuttable
<1>11. CASE Full(total)
  <2>1. Cut(frames, total)
    BY <1>1, <1>2, <1>11 DEF Ingest
  <2> HIDE DEF frames, total
  <2> QED
    BY <2>1, <1>3, <1>7, <1>8, <1>10, CutStep
<1>12. CASE ~Full(total)
  <2>1. /\ buffer' = frames /\ buffered' = total
        /\ UNCHANGED <<chunkSeq, putting, flushed>>
    BY <1>1, <1>2, <1>12 DEF Ingest
  <2> HIDE DEF f, frames, total
  <2>2. TypeOK'
    BY <2>1, <1>3, <1>4, <1>6, <1>7, <1>8 DEF TypeOK
  <2>3. Numbering'
    BY <2>1, <1>3, <1>7, <1>9 DEF Numbering, BufferSession, SameKey
  <2>4. Windows'
    BY <2>1, <1>3, <1>4, <1>9 DEF Windows, BufferSession
  <2>5. Storing' /\ Announcing' /\ WindowsDisjoint' /\ LossIsReported'
    BY <2>1, <1>7 DEF Storing, Announcing, WindowsDisjoint, LossIsReported
  <2> QED
    BY <2>2, <2>3, <2>4, <2>5
<1> QED
  BY <1>11, <1>12

\* The final flush keeps the invariant (fnFlushRemaining).
LEMMA FlushRemainingStep == ChunkInv /\ FlushRemaining => ChunkInv'
<1> SUFFICES ASSUME ChunkInv, FlushRemaining PROVE ChunkInv'
  OBVIOUS
<1> USE DEF ChunkInv
<1>1. /\ buffer # <<>> /\ Cut(buffer, buffered)
      /\ UNCHANGED <<creating, objects, rows, completed, reported, feed,
                     ingested, born>>
  BY DEF FlushRemaining, stores
<1>2. Cuttable(buffer, buffered)
  BY <1>1 DEF Cuttable, TypeOK, Numbering, Windows, BufferSession
<1>3. feed' \in Feed /\ feed'.session = feed.session /\ ingested' \in Seq(Frame)
  BY <1>1 DEF TypeOK
<1> QED
  BY <1>1, <1>2, <1>3, CutStep

-----------------------------------------------------------------------------
\* The adapter and the process.

\* A new connection of the same session keeps the invariant: the timeline goes
\* on where it stood.
LEMMA ReconnectStep == ChunkInv /\ Reconnect => ChunkInv'
<1> SUFFICES ASSUME ChunkInv, Reconnect PROVE ChunkInv'
  OBVIOUS
<1> USE DEF ChunkInv
<1>1. /\ feed' \in Feed
      /\ feed'.session = feed.session /\ feed'.offset = feed.offset
  BY DEF Reconnect, TypeOK, Feed
<1>2. UNCHANGED <<buffer, buffered, chunkSeq, putting, creating, objects, rows,
                  completed, reported, ingested, flushed, born>>
  BY DEF Reconnect, Idle, flights, stores
<1>3. TypeOK'
  BY <1>1, <1>2 DEF TypeOK
<1>4. Numbering' /\ Windows'
  BY <1>1, <1>2 DEF Numbering, Windows, BufferSession, SameKey
<1>5. Storing' /\ Announcing' /\ WindowsDisjoint' /\ LossIsReported'
  BY <1>2 DEF Storing, Announcing, WindowsDisjoint, LossIsReported
<1> QED
  BY <1>3, <1>4, <1>5

\* What a new session shares with a restart: no chunk belongs to it yet.
LEMMA FreshSession ==
    ASSUME ChunkInv
    PROVE  /\ feed.session \in Nat
           /\ \A c \in flushed : c.session \in Nat /\ c.session < feed.session + 1
<1>1. feed.session \in Nat
  BY DEF ChunkInv, TypeOK, Feed
<1>2. \A c \in flushed : c.session \in Nat /\ c.session <= feed.session
  BY DEF ChunkInv, TypeOK, Numbering, Chunk
<1> QED
  BY <1>1, <1>2

\* A new session keeps the invariant, frames of the old one still buffered.
LEMMA NewSessionStep == ChunkInv /\ NewSession => ChunkInv'
<1> SUFFICES ASSUME ChunkInv, NewSession PROVE ChunkInv'
  OBVIOUS
<1> USE DEF ChunkInv
<1>1. /\ feed' \in Feed
      /\ feed'.session = feed.session + 1 /\ feed'.offset = 0
  BY DEF NewSession, TypeOK, Feed
<1>2. UNCHANGED <<buffer, buffered, chunkSeq, putting, creating, objects, rows,
                  completed, reported, ingested, flushed, born>>
  BY DEF NewSession, Idle, flights, stores
<1>3. born \in Nat
  BY DEF TypeOK
<1>4. Numbering'
  BY <1>1, <1>2, <1>3, FreshSession DEF Numbering, BufferSession, SameKey
<1>5. Windows'
  <2>1. buffer # <<>> => BufferSession \in born..feed.session
    BY DEF Numbering
  <2> QED
    BY <2>1, <1>1, <1>2, <1>3, FreshSession DEF Windows, BufferSession
<1>6. TypeOK' /\ Storing' /\ Announcing' /\ WindowsDisjoint' /\ LossIsReported'
  BY <1>1, <1>2 DEF TypeOK, Storing, Announcing, WindowsDisjoint, LossIsReported
<1> QED
  BY <1>4, <1>5, <1>6

\* A stop and start of the process keeps the invariant: the numbers start over,
\* under a session that has no chunk.
LEMMA RestartStep == ChunkInv /\ Restart => ChunkInv'
<1> SUFFICES ASSUME ChunkInv, Restart PROVE ChunkInv'
  OBVIOUS
<1> USE DEF ChunkInv
<1>1. /\ feed' \in Feed
      /\ feed'.session = feed.session + 1 /\ feed'.offset = 0
      /\ born' = feed.session + 1 /\ born' \in Nat
  BY DEF Restart, TypeOK, Feed
<1>2. /\ buffer' = <<>> /\ buffered' = 0 /\ chunkSeq' = 0
      /\ putting' = {} /\ creating' = {}
      /\ UNCHANGED <<objects, rows, completed, reported, ingested, flushed>>
  BY DEF Restart, stores
<1>3. TypeOK'
  BY <1>1, <1>2, EmptySeq DEF TypeOK
<1>4. Numbering' /\ Windows' /\ LossIsReported'
  BY <1>1, <1>2, FreshSession
  DEF Numbering, Windows, LossIsReported, BufferSession, SameKey
<1>5. Storing' /\ Announcing' /\ WindowsDisjoint'
  BY <1>2 DEF Storing, Announcing, WindowsDisjoint
<1> QED
  BY <1>3, <1>4, <1>5

-----------------------------------------------------------------------------
\* The two writes of a flush.

\* Storing an object never replaces that of another chunk.
LEMMA StoredKeeps ==
    ASSUME ChunkInv, NEW c \in flushed
    PROVE  Stored(c) = objects \cup {c}
BY DEF ChunkInv, Numbering, Storing, Stored, SameKey

\* What a write's answer leaves alone, spelled out.
LEMMA RestUnchanged ==
    ASSUME ChunkInv, UNCHANGED Rest,
           putting' \subseteq flushed, creating' \subseteq flushed,
           objects' \subseteq flushed, rows' \subseteq flushed,
           reported' \subseteq flushed \cup reported, completed' \in Seq(Chunk)
    PROVE  TypeOK' /\ Numbering' /\ Windows' /\ WindowsDisjoint'
<1> USE DEF ChunkInv
<1>1. UNCHANGED <<buffer, buffered, chunkSeq, feed, ingested, flushed, born>>
  BY DEF Rest
<1>2. TypeOK'
  BY <1>1 DEF TypeOK
<1>3. Numbering' /\ Windows' /\ WindowsDisjoint'
  BY <1>1 DEF Numbering, Windows, WindowsDisjoint, BufferSession, SameKey
<1> QED
  BY <1>2, <1>3

\* The answers to the S3 write keep the invariant (lines 175-186).
LEMMA PutStep ==
    ASSUME ChunkInv, NEW c \in putting,
           \/ PutSucceeds(c)
           \/ \E written \in BOOLEAN : PutFails(c, written)
    PROVE  ChunkInv'
<1> USE DEF ChunkInv
<1>1. c \in flushed /\ Stored(c) = objects \cup {c}
  BY StoredKeeps DEF Storing
<1>2. /\ UNCHANGED <<rows, completed>> /\ UNCHANGED Rest
      /\ putting' = putting \ {c}
      /\ \/ /\ objects' = objects \cup {c} /\ creating' = creating \cup {c}
            /\ reported' = reported
         \/ /\ objects' \in {objects, objects \cup {c}} /\ creating' = creating
            /\ reported' = reported \cup {c}
  BY <1>1 DEF PutSucceeds, PutFails
<1>3. flushed' = flushed /\ born' = born
  BY <1>2 DEF Rest
<1>4. TypeOK' /\ Numbering' /\ Windows' /\ WindowsDisjoint'
  BY <1>1, <1>2, RestUnchanged DEF Storing, TypeOK
<1>5. Storing' /\ Announcing'
  BY <1>1, <1>2, <1>3 DEF Storing, Announcing
<1>6. LossIsReported'
  BY <1>2, <1>3 DEF LossIsReported
<1> QED
  BY <1>4, <1>5, <1>6

\* The answers to the DynamoDB write keep the invariant (lines 208-227).
LEMMA CreateStep ==
    ASSUME ChunkInv, NEW c \in creating,
           \/ CreateSucceeds(c)
           \/ \E written \in BOOLEAN : CreateFails(c, written)
    PROVE  ChunkInv'
<1> USE DEF ChunkInv
<1>1. c \in flushed /\ c \in objects /\ c \in Chunk /\ completed \in Seq(Chunk)
  BY DEF Storing, TypeOK
<1>2. CASE CreateSucceeds(c)
  <2>1. /\ UNCHANGED <<putting, objects, reported>> /\ UNCHANGED Rest
        /\ creating' = creating \ {c} /\ rows' = rows \cup {c}
        /\ completed' = Append(completed, c)
        /\ c \notin rows
    BY <1>2 DEF CreateSucceeds, RowTaken, SameRow
  <2>2. flushed' = flushed /\ born' = born
    BY <2>1 DEF Rest
  <2>3. completed' \in Seq(Chunk) /\ Len(completed') = Len(completed) + 1
        /\ \A i \in 1..Len(completed') :
              completed'[i] = IF i = Len(completed) + 1 THEN c ELSE completed[i]
    BY <2>1, <1>1, AppendProperties
  <2>4. TypeOK' /\ Numbering' /\ Windows' /\ WindowsDisjoint'
    BY <2>1, <2>3, <1>1, RestUnchanged DEF Storing, TypeOK
  <2>5. Storing'
    BY <2>1, <2>2, <1>1 DEF Storing
  <2>6. Announcing'
    <3>1. Len(completed) \in Nat
      BY <1>1
    <3>2. \A i \in 1..Len(completed') :
              \/ i \in 1..Len(completed) /\ completed'[i] = completed[i]
              \/ i = Len(completed) + 1 /\ completed'[i] = c
      BY <2>3, <3>1
    <3> QED
      BY <3>1, <3>2, <2>1 DEF Announcing
  <2>7. LossIsReported'
    BY <2>1, <2>2 DEF LossIsReported
  <2> QED
    BY <2>4, <2>5, <2>6, <2>7
<1>3. CASE \E written \in BOOLEAN : CreateFails(c, written)
  <2>1. /\ UNCHANGED <<putting, objects, completed>> /\ UNCHANGED Rest
        /\ creating' = creating \ {c} /\ rows' \in {rows, rows \cup {c}}
        /\ reported' = reported \cup {c}
    BY <1>3 DEF CreateFails
  <2>2. flushed' = flushed /\ born' = born
    BY <2>1 DEF Rest
  <2>3. TypeOK' /\ Numbering' /\ Windows' /\ WindowsDisjoint'
    BY <2>1, <1>1, RestUnchanged DEF Storing, TypeOK
  <2>4. Storing' /\ Announcing' /\ LossIsReported'
    BY <2>1, <2>2, <1>1 DEF Storing, Announcing, LossIsReported
  <2> QED
    BY <2>3, <2>4
<1> QED
  BY <1>2, <1>3

-----------------------------------------------------------------------------
\* Every step keeps the invariant.
LEMMA ChunkStep == ChunkInv /\ [Next]_vars => ChunkInv'
<1> SUFFICES ASSUME ChunkInv, [Next]_vars PROVE ChunkInv'
  OBVIOUS
<1>1. CASE Receive
  BY <1>1, ReceiveStep
<1>2. CASE FlushRemaining
  BY <1>2, FlushRemainingStep
<1>3. CASE Reconnect
  BY <1>3, ReconnectStep
<1>4. CASE NewSession
  BY <1>4, NewSessionStep
<1>5. CASE Restart
  BY <1>5, RestartStep
<1>6. ASSUME NEW c \in putting,
             \/ PutSucceeds(c)
             \/ Faults /\ \E written \in BOOLEAN : PutFails(c, written)
      PROVE  ChunkInv'
  BY <1>6, PutStep
<1>7. ASSUME NEW c \in creating,
             \/ CreateSucceeds(c)
             \/ RowTaken(c) /\ CreateFails(c, FALSE)
             \/ Faults /\ \E written \in {FALSE, ~RowTaken(c)} :
                              CreateFails(c, written)
      PROVE  ChunkInv'
  <2>1. \/ CreateSucceeds(c)
        \/ \E written \in BOOLEAN : CreateFails(c, written)
    BY <1>7 DEF RowTaken
  <2> QED
    BY <2>1, CreateStep
<1>8. CASE UNCHANGED vars
  BY <1>8 DEF vars, flights, stores, ChunkInv, TypeOK, Numbering, Storing,
              Announcing, Windows, WindowsDisjoint, LossIsReported,
              BufferSession, SameKey
<1> QED
  BY <1>1, <1>2, <1>3, <1>4, <1>5, <1>6, <1>7, <1>8 DEF Next

\* The invariant is inductive, hence holds in every reachable state.
LEMMA ChunkInvariant == Spec => []ChunkInv
BY ChunkInit, ChunkStep, PTL DEF Spec

-----------------------------------------------------------------------------
\* Every variable keeps its type.
THEOREM TypeCorrect == Spec => []TypeOK
<1>1. ChunkInv => TypeOK
  BY DEF ChunkInv
<1> QED
  BY <1>1, ChunkInvariant, PTL

\* A metadata row always points at an S3 object that holds its bytes, through
\* overlapping flushes, failed and half-failed writes and restarts.
THEOREM RowsHaveObjects == Spec => []RowHasObject
<1>1. ChunkInv => RowHasObject
  BY DEF ChunkInv, Storing, RowHasObject
<1> QED
  BY <1>1, ChunkInvariant, PTL

\* The windows of a session's chunks follow one another without overlap.
THEOREM ChunksDisjoint == Spec => []WindowsDisjoint
<1>1. ChunkInv => WindowsDisjoint
  BY DEF ChunkInv
<1> QED
  BY <1>1, ChunkInvariant, PTL

\* A chunk is lost only with an error that names it.
THEOREM LossReported == Spec => []LossIsReported
<1>1. ChunkInv => LossIsReported
  BY DEF ChunkInv
<1> QED
  BY <1>1, ChunkInvariant, PTL

\* Downstream is told of a chunk once, and only when both stores hold it.
THEOREM ToldPersisted == Spec => []ToldOnlyPersisted
<1>1. ChunkInv => ToldOnlyPersisted
  <2> SUFFICES ASSUME ChunkInv PROVE ToldOnlyPersisted
    OBVIOUS
  <2>1. \A i \in 1..Len(completed) : completed[i] \in rows \cap objects
    BY DEF ChunkInv, Storing, Announcing
  <2>2. ASSUME NEW i \in 1..Len(completed), NEW j \in 1..Len(completed), i # j
        PROVE  ~SameKey(completed[i], completed[j])
    <3>1. completed[i] # completed[j]
      BY <2>2 DEF ChunkInv, Announcing
    <3>2. completed[i] \in flushed /\ completed[j] \in flushed
      BY <2>1 DEF ChunkInv, Storing
    <3> QED
      BY <3>1, <3>2 DEF ChunkInv, Numbering
  <2> QED
    BY <2>1, <2>2 DEF ToldOnlyPersisted
<1> QED
  BY <1>1, ChunkInvariant, PTL

-----------------------------------------------------------------------------
(***************************************************************************)
(* Which frames a chunk is made of.  The buffer is what was ingested last, *)
(* and every chunk is a stretch of the input before the buffer.            *)
(***************************************************************************)
Indexed == \A i \in 1..Len(ingested) : ingested[i].index = i - 1

BufferIsLast ==
    /\ Len(buffer) <= Len(ingested)
    /\ \A i \in 1..Len(buffer) :
          buffer[i] = ingested[Len(ingested) - Len(buffer) + i]

\* The frames are a stretch of the input that ends at position n at the latest.
Stretch(frames, input, n) ==
    /\ frames # <<>>
    /\ \E i \in 1..n :
          /\ i + Len(frames) - 1 <= n
          /\ \A k \in 1..Len(frames) : frames[k] = input[i + k - 1]

Apart ==
    \A c, d \in flushed :
        c # d => \A i \in 1..Len(c.frames), j \in 1..Len(d.frames) :
                    c.frames[i].index # d.frames[j].index

FramesInv ==
    /\ Indexed
    /\ BufferIsLast
    /\ \A c \in flushed : Stretch(c.frames, ingested, Len(ingested) - Len(buffer))
    /\ Apart

\* A chunk cut off the end of the input shares no frame with those before it.
LEMMA CutFrames ==
    ASSUME TypeOK, NEW frames \in Seq(Frame), frames # <<>>, NEW total,
           Cut(frames, total), ingested' \in Seq(Frame), Indexed', Apart,
           NEW n \in Nat, Len(ingested') = n + Len(frames),
           \A i \in 1..Len(frames) : frames[i] = ingested'[n + i],
           \A c \in flushed : Stretch(c.frames, ingested', n)
    PROVE  FramesInv'
<1> DEFINE new == ChunkOf(frames, total)
           m == Len(frames)
<1>1. new.frames = frames
  BY DEF ChunkOf
<1>2. buffer' = <<>> /\ flushed' = flushed \cup {new}
  BY DEF Cut
<1> HIDE DEF new
<1>3. m \in Nat \ {0} /\ Len(ingested') = n + m /\ Len(buffer') = 0
  BY <1>2
<1>4. \A c \in flushed : c.frames \in Seq(Frame) /\ Len(c.frames) \in Nat
  BY DEF TypeOK, Chunk
<1>5. \A i \in 1..m : frames[i].index = n + i - 1
  BY <1>3 DEF Indexed
<1>6. ASSUME NEW c \in flushed, NEW k \in 1..Len(c.frames)
      PROVE  c.frames[k].index \in 0..n - 1
  <2>1. PICK i \in 1..n : /\ i + Len(c.frames) - 1 <= n
                          /\ \A l \in 1..Len(c.frames) : c.frames[l] = ingested'[i + l - 1]
    BY DEF Stretch
  <2>2. i + k - 1 \in 1..n /\ c.frames[k] = ingested'[i + k - 1]
    BY <1>4, <1>6, <2>1
  <2>3. ingested'[i + k - 1].index = i + k - 2
    BY <1>3, <2>2 DEF Indexed
  <2> QED
    BY <2>2, <2>3
<1>7. Apart'
  <2> SUFFICES ASSUME NEW c \in flushed', NEW d \in flushed', c # d,
                      NEW i \in 1..Len(c.frames), NEW j \in 1..Len(d.frames)
               PROVE  c.frames[i].index # d.frames[j].index
    BY DEF Apart
  <2>1. CASE c \in flushed /\ d \in flushed
    BY <2>1 DEF Apart
  <2>2. CASE c \in flushed /\ d = new
    <3>1. c.frames[i].index \in 0..n - 1
      BY <1>6, <2>2
    <3>2. j \in 1..m /\ d.frames[j].index = n + j - 1
      BY <1>1, <1>5, <2>2
    <3> QED
      BY <1>3, <3>1, <3>2
  <2>3. CASE c = new /\ d \in flushed
    <3>1. d.frames[j].index \in 0..n - 1
      BY <1>6, <2>3
    <3>2. i \in 1..m /\ c.frames[i].index = n + i - 1
      BY <1>1, <1>5, <2>3
    <3> QED
      BY <1>3, <3>1, <3>2
  <2> QED
    BY <1>2, <2>1, <2>2, <2>3
<1>8. ASSUME NEW c \in flushed'
      PROVE  Stretch(c.frames, ingested', n + m)
  <2>1. CASE c = new
    <3>0. Len(c.frames) = m
      BY <1>1, <2>1
    <3> HIDE DEF m
    <3>1. n + 1 \in 1..n + m /\ (n + 1) + Len(c.frames) - 1 <= n + m
      BY <1>3, <3>0
    <3> USE DEF m
    <3>2. \A k \in 1..Len(c.frames) : c.frames[k] = ingested'[(n + 1) + k - 1]
      BY <1>1, <1>3, <2>1
    <3> QED
      BY <1>1, <2>1, <3>1, <3>2 DEF Stretch
  <2>2. CASE c \in flushed
    <3>1. PICK i \in 1..n : /\ i + Len(c.frames) - 1 <= n
                            /\ \A l \in 1..Len(c.frames) : c.frames[l] = ingested'[i + l - 1]
      BY <2>2 DEF Stretch
    <3>2. c.frames # <<>>
      BY <2>2 DEF Stretch
    <3>3. i \in 1..n + m /\ i + Len(c.frames) - 1 <= n + m
      BY <1>3, <1>4, <2>2, <3>1
    <3> QED
      BY <3>1, <3>2, <3>3 DEF Stretch
  <2> QED
    BY <1>2, <2>1, <2>2
<1>9. Len(ingested') - Len(buffer') = n + m
  BY <1>3
<1>10. BufferIsLast'
  BY <1>3 DEF BufferIsLast
<1> QED
  BY <1>7, <1>8, <1>9, <1>10 DEF FramesInv

\* A frame joins the input and the buffer, or closes a chunk.
LEMMA ReceiveFrames ==
    ASSUME TypeOK, TypeOK', FramesInv, Receive
    PROVE  FramesInv'
<1>1. PICK d \in Durations : Ingest(NextFrame(d))
  BY DEF Receive
<1> DEFINE f == NextFrame(d)
           frames == Append(buffer, f)
           total == buffered + f.duration
           n == Len(ingested) - Len(buffer)
<1>2. f \in Frame /\ f.index = Len(ingested)
  BY DurationsAssumption DEF NextFrame, Frame, TypeOK, Feed
<1>3. /\ ingested' = Append(ingested, f)
      /\ \/ Cut(frames, total)
         \/ buffer' = frames /\ flushed' = flushed
  BY <1>1 DEF Ingest
<1>4. /\ buffer \in Seq(Frame) /\ ingested \in Seq(Frame)
      /\ Len(buffer) \in Nat /\ Len(ingested) \in Nat /\ n \in Nat
  BY DEF TypeOK, FramesInv, BufferIsLast
<1> HIDE DEF f, total
<1>5. /\ frames \in Seq(Frame) /\ Len(frames) = Len(buffer) + 1 /\ frames # <<>>
      /\ frames[Len(buffer) + 1] = f
      /\ \A i \in 1..Len(buffer) : frames[i] = buffer[i]
  BY <1>2, <1>4
<1>6. /\ ingested' \in Seq(Frame) /\ Len(ingested') = Len(ingested) + 1
      /\ ingested'[Len(ingested) + 1] = f
      /\ \A i \in 1..Len(ingested) : ingested'[i] = ingested[i]
  BY <1>2, <1>3, <1>4
<1> HIDE DEF frames, n
<1>7. Len(ingested') = n + Len(frames)
  BY <1>4, <1>5, <1>6 DEF n
<1>8. \A i \in 1..Len(frames) : frames[i] = ingested'[n + i]
  <2> TAKE i \in 1..Len(frames)
  <2>1. CASE i = Len(buffer) + 1
    BY <1>4, <1>5, <1>6, <2>1 DEF n
  <2>2. CASE i # Len(buffer) + 1
    <3>1. i \in 1..Len(buffer) /\ n + i \in 1..Len(ingested)
      BY <1>4, <1>5, <2>2 DEF n
    <3>2. buffer[i] = ingested[n + i]
      BY <3>1 DEF FramesInv, BufferIsLast, n
    <3> QED
      BY <1>5, <1>6, <3>1, <3>2
  <2> QED
    BY <2>1, <2>2
<1>9. Indexed'
  BY <1>2, <1>4, <1>6 DEF FramesInv, Indexed
<1>10. \A c \in flushed : Stretch(c.frames, ingested', n)
  <2> TAKE c \in flushed
  <2>1. c.frames # <<>> /\ Len(c.frames) \in Nat
    BY DEF FramesInv, Stretch, TypeOK, Chunk
  <2>2. PICK i \in 1..n : /\ i + Len(c.frames) - 1 <= n
                          /\ \A k \in 1..Len(c.frames) : c.frames[k] = ingested[i + k - 1]
    BY DEF FramesInv, Stretch, n
  <2>3. \A k \in 1..Len(c.frames) : i + k - 1 \in 1..Len(ingested)
    BY <1>4, <2>1, <2>2 DEF n
  <2> QED
    BY <1>6, <2>1, <2>2, <2>3 DEF Stretch
<1>11. Apart
  BY DEF FramesInv
<1>12. CASE Cut(frames, total)
  BY <1>4, <1>5, <1>6, <1>7, <1>8, <1>9, <1>10, <1>11, <1>12, CutFrames
<1>13. CASE buffer' = frames /\ flushed' = flushed
  <2>1. Len(ingested') - Len(buffer') = n
    BY <1>4, <1>5, <1>7, <1>13
  <2>2. BufferIsLast'
    <3>1. Len(buffer') = Len(frames) /\ Len(frames) \in Nat
      BY <1>4, <1>5, <1>13
    <3>2. Len(buffer') <= Len(ingested')
      BY <1>4, <1>7, <3>1
    <3> QED
      BY <1>8, <1>13, <2>1, <3>2 DEF BufferIsLast
  <2>3. Apart'
    BY <1>11, <1>13 DEF Apart
  <2> QED
    BY <1>9, <1>10, <1>13, <2>1, <2>2, <2>3 DEF FramesInv
<1> QED
  BY <1>3, <1>12, <1>13

\* Every step keeps every chunk a stretch of the input.
LEMMA FramesInvariant == Spec => []FramesInv
<1>1. Init => FramesInv
  BY EmptySeq DEF Init, FramesInv, Indexed, BufferIsLast, Apart
<1>2. TypeOK /\ TypeOK' /\ FramesInv /\ [Next]_vars => FramesInv'
  <2> SUFFICES ASSUME TypeOK, TypeOK', FramesInv, [Next]_vars
               PROVE  FramesInv'
    OBVIOUS
  <2>1. CASE FlushRemaining
    <3> DEFINE n == Len(ingested) - Len(buffer)
    <3>1. /\ buffer # <<>> /\ Cut(buffer, buffered) /\ ingested' = ingested
          /\ buffer \in Seq(Frame) /\ ingested' \in Seq(Frame)
      BY <2>1 DEF FlushRemaining, TypeOK
    <3>2. n \in Nat /\ Len(ingested') = n + Len(buffer)
      BY <3>1 DEF FramesInv, BufferIsLast
    <3>3. /\ \A i \in 1..Len(buffer) : buffer[i] = ingested'[n + i]
          /\ \A c \in flushed : Stretch(c.frames, ingested', n)
          /\ Indexed' /\ Apart
      BY <3>1 DEF FramesInv, BufferIsLast, Indexed
    <3> HIDE DEF n
    <3> QED
      BY <3>1, <3>2, <3>3, CutFrames
  <2>2. ASSUME UNCHANGED <<buffer, ingested, flushed>>
        PROVE  FramesInv'
    BY <2>2 DEF FramesInv, Indexed, BufferIsLast, Apart
  <2>3. CASE Restart
    <3>1. buffer' = <<>> /\ UNCHANGED <<ingested, flushed>>
      BY <2>3 DEF Restart
    <3>2. Indexed' /\ BufferIsLast' /\ Apart'
      BY <3>1 DEF FramesInv, Indexed, BufferIsLast, Apart, TypeOK
    <3>3. ASSUME NEW c \in flushed
          PROVE  Stretch(c.frames, ingested, Len(ingested))
      <4>1. /\ Len(buffer) \in Nat /\ Len(ingested) \in Nat /\ Len(c.frames) \in Nat
            /\ Stretch(c.frames, ingested, Len(ingested) - Len(buffer))
        BY DEF FramesInv, TypeOK, Chunk
      <4>2. c.frames # <<>>
        BY <4>1 DEF Stretch
      <4>3. PICK i \in 1..Len(ingested) - Len(buffer) :
               /\ i + Len(c.frames) - 1 <= Len(ingested) - Len(buffer)
               /\ \A k \in 1..Len(c.frames) : c.frames[k] = ingested[i + k - 1]
        BY <4>1 DEF Stretch
      <4>4. i \in 1..Len(ingested) /\ i + Len(c.frames) - 1 <= Len(ingested)
        BY <4>1, <4>3
      <4> QED
        BY <4>2, <4>3, <4>4 DEF Stretch
    <3>4. Len(ingested') - Len(buffer') = Len(ingested)
      BY <3>1 DEF TypeOK
    <3> QED
      BY <3>1, <3>2, <3>3, <3>4 DEF FramesInv
  <2>4. CASE Reconnect \/ NewSession
    BY <2>2, <2>4 DEF Reconnect, NewSession, Idle
  <2>5. ASSUME NEW c \in putting,
               PutSucceeds(c) \/ \E written \in BOOLEAN : PutFails(c, written)
        PROVE  FramesInv'
    BY <2>2, <2>5 DEF PutSucceeds, PutFails, Rest
  <2>6. ASSUME NEW c \in creating,
               CreateSucceeds(c) \/ \E written : CreateFails(c, written)
        PROVE  FramesInv'
    BY <2>2, <2>6 DEF CreateSucceeds, CreateFails, Rest
  <2>7. CASE UNCHANGED vars
    BY <2>2, <2>7 DEF vars
  <2> QED
    BY <2>1, <2>3, <2>4, <2>5, <2>6, <2>7, ReceiveFrames DEF Next
<1> QED
  BY <1>1, <1>2, TypeCorrect, PTL DEF Spec

\* No frame is stored twice, torn or moved, for any window and any durations.
THEOREM EachFrameOnce == Spec => []FramesOnce
<1>1. TypeOK /\ FramesInv => FramesOnce
  <2> SUFFICES ASSUME TypeOK, FramesInv
               PROVE  FramesOnce
    OBVIOUS
  <2>1. ASSUME NEW c \in flushed
        PROVE  \E i \in 1..Len(ingested) :
                  c.frames = SubSeq(ingested, i, i + Len(c.frames) - 1)
    <3>1. /\ c.frames \in Seq(Frame) /\ Len(c.frames) \in Nat \ {0}
          /\ ingested \in Seq(Frame) /\ Len(ingested) \in Nat /\ Len(buffer) \in Nat
      BY DEF TypeOK, Chunk, FramesInv, Stretch
    <3>2. PICK i \in 1..Len(ingested) - Len(buffer) :
             /\ i + Len(c.frames) - 1 <= Len(ingested) - Len(buffer)
             /\ \A k \in 1..Len(c.frames) : c.frames[k] = ingested[i + k - 1]
      BY DEF FramesInv, Stretch
    <3>3. i \in 1..Len(ingested) /\ i + Len(c.frames) - 1 \in 1..Len(ingested)
      BY <3>1, <3>2
    <3> DEFINE sub == SubSeq(ingested, i, i + Len(c.frames) - 1)
    <3>4. /\ sub \in Seq(Frame) /\ Len(sub) = Len(c.frames)
          /\ \A k \in 1..Len(c.frames) : sub[k] = ingested[i + k - 1]
      BY <3>1, <3>3
    <3> HIDE DEF sub
    <3>5. c.frames = sub
      BY <3>1, <3>2, <3>4, SeqEqual
    <3> QED
      BY <3>3, <3>5 DEF sub
  <2>2. ASSUME NEW c \in flushed, NEW d \in flushed, c # d
        PROVE  {c.frames[i].index : i \in 1..Len(c.frames)} \cap
               {d.frames[i].index : i \in 1..Len(d.frames)} = {}
    BY <2>2 DEF FramesInv, Apart
  <2> QED
    BY <2>1, <2>2 DEF FramesOnce
<1> QED
  BY <1>1, FramesInvariant, TypeCorrect, PTL

-----------------------------------------------------------------------------
\* The frame that fills a window closes it: what is buffered never fills one.
THEOREM ChunksTight == Spec => []WindowsTight
<1> DEFINE TightInv == buffered < Window /\ WindowsTight
<1>1. Init => TightInv
  BY WindowAssumption DEF Init, WindowsTight
<1>2. TypeOK /\ TypeOK' /\ TightInv /\ [Next]_vars => TightInv'
  <2> SUFFICES ASSUME TypeOK, TypeOK', TightInv, [Next]_vars
               PROVE  TightInv'
    OBVIOUS
  <2>1. ASSUME NEW frames \in Seq(Frame), frames # <<>>, NEW total \in Nat,
               Cut(frames, total), total - frames[Len(frames)].duration < Window
        PROVE  TightInv'
    <3> DEFINE new == ChunkOf(frames, total)
    <3>1. /\ new.frames = frames /\ new.start = frames[1].offset
          /\ new.end = frames[1].offset + total
      BY DEF ChunkOf
    <3>6. frames[1].offset \in Nat
      <4>1. frames[1] \in Frame
        BY <2>1, EmptySeq, LenProperties, ElementOfSeq
      <4> QED
        BY <4>1 DEF Frame
    <3>2. buffered' = 0 /\ flushed' = flushed \cup {new}
      BY <2>1 DEF Cut
    <3> HIDE DEF new
    <3>3. new.end - new.start = total
      BY <2>1, <3>1, <3>6
    <3>4. new.end - new.start - new.frames[Len(new.frames)].duration < Window
      BY <2>1, <3>1, <3>3
    <3> QED
      BY <3>2, <3>4, WindowAssumption DEF WindowsTight
  <2>2. CASE Receive
    <3>1. PICK d \in Durations : Ingest(NextFrame(d))
      BY <2>2 DEF Receive
    <3> DEFINE f == NextFrame(d)
               frames == Append(buffer, f)
               total == buffered + f.duration
    <3>2. f \in Frame /\ f.duration = d /\ d \in Nat
      BY DurationsAssumption DEF NextFrame, Frame, TypeOK, Feed
    <3>3. IF Full(total) THEN Cut(frames, total)
          ELSE buffered' = total /\ flushed' = flushed
      BY <3>1 DEF Ingest
    <3>4. total \in Nat /\ total - f.duration < Window
      BY <3>2 DEF TypeOK
    <3> HIDE DEF f, total
    <3>5. frames \in Seq(Frame) /\ frames # <<>> /\ frames[Len(frames)] = f
      <4>1. buffer \in Seq(Frame)
        BY DEF TypeOK
      <4>2. /\ frames \in Seq(Frame) /\ frames # <<>>
            /\ Len(frames) = Len(buffer) + 1 /\ frames[Len(buffer) + 1] = f
        BY <3>2, <4>1, AppendProperties
      <4> HIDE DEF frames
      <4> QED
        BY <4>2
    <3> HIDE DEF frames
    <3>6. CASE Full(total)
      BY <2>1, <3>3, <3>4, <3>5, <3>6
    <3>7. CASE ~Full(total)
      BY <3>3, <3>4, <3>7, WindowAssumption DEF Full, WindowsTight
    <3> QED
      BY <3>6, <3>7
  <2>3. CASE FlushRemaining
    <3>1. buffer \in Seq(Frame) /\ buffer # <<>> /\ buffered \in Nat
      BY <2>3 DEF FlushRemaining, TypeOK
    <3>2. buffer[Len(buffer)].duration \in Nat
      <4>1. buffer[Len(buffer)] \in Frame
        BY <3>1, EmptySeq, LenProperties, ElementOfSeq
      <4> QED
        BY <4>1 DEF Frame
    <3>3. buffered - buffer[Len(buffer)].duration < Window
      BY <3>1, <3>2, WindowAssumption
    <3> QED
      BY <2>1, <2>3, <3>1, <3>3 DEF FlushRemaining
  <2>4. ASSUME flushed' = flushed, buffered' \in {buffered, 0}
        PROVE  TightInv'
    BY <2>4, WindowAssumption DEF WindowsTight
  <2>5. CASE Reconnect \/ NewSession \/ Restart
    BY <2>4, <2>5 DEF Reconnect, NewSession, Restart, Idle
  <2>6. ASSUME NEW c \in putting,
               PutSucceeds(c) \/ \E written \in BOOLEAN : PutFails(c, written)
        PROVE  TightInv'
    BY <2>4, <2>6 DEF PutSucceeds, PutFails, Rest
  <2>7. ASSUME NEW c \in creating,
               CreateSucceeds(c) \/ \E written : CreateFails(c, written)
        PROVE  TightInv'
    BY <2>4, <2>7 DEF CreateSucceeds, CreateFails, Rest
  <2>8. CASE UNCHANGED vars
    BY <2>4, <2>8 DEF vars
  <2> QED
    BY <2>2, <2>3, <2>5, <2>6, <2>7, <2>8 DEF Next
<1> QED
  BY <1>1, <1>2, TypeCorrect, PTL DEF Spec
-----------------------------------------------------------------------------
(***************************************************************************)
(* The assembler implements AudioArchive.  A flush takes frames out of the *)
(* archive's memory that no other flush and no later frame can take out    *)
(* again, and they are a stretch of the input: both follow from FramesInv. *)
(***************************************************************************)

\* What is in memory: the buffer and the flushes in flight.
Held == Numbers(buffer) \cup FramesOf(putting \cup creating)

\* A chunk whose object is being written has none yet, so that it is not in both
\* halves of fnFlush.
PutOnce == putting \cap objects = {}

ArchiveInv == ChunkInv /\ FramesInv /\ PutOnce

\* A frame appended to others adds its number.
LEMMA NumbersAppend ==
    ASSUME NEW s \in Seq(Frame), NEW f \in Frame
    PROVE  Numbers(Append(s, f)) = Numbers(s) \cup {f.index}
<1> DEFINE t == Append(s, f)
<1>1. /\ Len(s) \in Nat /\ Len(t) = Len(s) + 1 /\ t[Len(s) + 1] = f
      /\ \A i \in 1..Len(s) : t[i] = s[i]
  BY AppendProperties
<1> HIDE DEF t
<1>2. ASSUME NEW n \in Numbers(t) PROVE n \in Numbers(s) \cup {f.index}
  <2>1. PICK i \in 1..Len(t) : n = t[i].index
    BY DEF Numbers
  <2>2. i \in 1..Len(s) \/ i = Len(s) + 1
    BY <1>1
  <2> QED
    BY <1>1, <2>1, <2>2 DEF Numbers
<1>3. ASSUME NEW n \in Numbers(s) PROVE n \in Numbers(t)
  <2>1. PICK i \in 1..Len(s) : n = s[i].index
    BY DEF Numbers
  <2>2. i \in 1..Len(t) /\ t[i].index = n
    BY <1>1, <2>1
  <2> QED
    BY <2>2 DEF Numbers
<1>4. f.index \in Numbers(t)
  <2>1. Len(s) + 1 \in 1..Len(t)
    BY <1>1
  <2> QED
    BY <1>1, <2>1 DEF Numbers
<1> QED
  BY <1>2, <1>3, <1>4 DEF t

\* The frames of a chunk are a run of consecutive numbers, from its first frame
\* to its last, all accepted before those of the buffer.
LEMMA ChunkNumbers ==
    ASSUME TypeOK, FramesInv, NEW c \in flushed
    PROVE  \E first, last \in Numbers(c.frames) :
              /\ Numbers(c.frames) = first..last
              /\ last < Len(ingested) - Len(buffer)
<1> DEFINE n == Len(ingested) - Len(buffer)
<1>1. PICK i \in 1..n :
         /\ i + Len(c.frames) - 1 <= n
         /\ \A k \in 1..Len(c.frames) : c.frames[k] = ingested[i + k - 1]
  BY DEF FramesInv, Stretch
<1>2. /\ Len(c.frames) \in Nat \ {0} /\ n \in Nat
      /\ Len(ingested) \in Nat /\ Len(buffer) \in Nat
  BY EmptySeq DEF FramesInv, BufferIsLast, Stretch, TypeOK, Chunk
<1>3. \A k \in 1..Len(c.frames) : c.frames[k].index = i + k - 2
  <2> TAKE k \in 1..Len(c.frames)
  <2> DEFINE p == i + k - 1
  <2>1. p \in 1..Len(ingested) /\ p - 1 = i + k - 2
    BY <1>1, <1>2
  <2>2. c.frames[k] = ingested[p]
    BY <1>1
  <2> HIDE DEF p
  <2>3. ingested[p].index = p - 1
    BY <2>1 DEF FramesInv, Indexed
  <2> QED
    BY <2>1, <2>2, <2>3
<1> DEFINE m == Len(c.frames)
<1>4. m \in Nat \ {0}
  BY <1>2
<1>5. \A k \in 1..m : c.frames[k].index = i + k - 2
  BY <1>3
<1>6. Numbers(c.frames) = {c.frames[k].index : k \in 1..m}
  BY DEF Numbers
<1>7. i + m - 1 <= n
  BY <1>1
<1> HIDE DEF m, n
<1>8. Numbers(c.frames) = (i - 1)..(i + m - 2)
  <2>1. ASSUME NEW x \in (i - 1)..(i + m - 2) PROVE x \in Numbers(c.frames)
    <3>1. x - i + 2 \in 1..m
      BY <1>4, <2>1
    <3>2. c.frames[x - i + 2].index = x
      BY <1>5, <3>1
    <3> QED
      BY <1>6, <3>1, <3>2
  <2>2. ASSUME NEW x \in Numbers(c.frames) PROVE x \in (i - 1)..(i + m - 2)
    BY <1>4, <1>5, <1>6
  <2> QED
    BY <2>1, <2>2
<1>9. i - 1 \in Numbers(c.frames) /\ i + m - 2 \in Numbers(c.frames)
  BY <1>4, <1>8
<1>10. i + m - 2 < n
  BY <1>2, <1>4, <1>7 DEF n
<1> QED
  BY <1>8, <1>9, <1>10 DEF n

\* The frames of the buffer are the last ones.
LEMMA BufferNumbers ==
    ASSUME TypeOK, FramesInv, NEW x \in Numbers(buffer)
    PROVE  x \in Int /\ x >= Len(ingested) - Len(buffer)
<1>1. PICK i \in 1..Len(buffer) : x = buffer[i].index
  BY DEF Numbers
<1>2. /\ Len(ingested) \in Nat /\ Len(buffer) \in Nat /\ Len(buffer) <= Len(ingested)
      /\ buffer[i] = ingested[Len(ingested) - Len(buffer) + i]
  BY DEF TypeOK, FramesInv, BufferIsLast
<1>3. Len(ingested) - Len(buffer) + i \in 1..Len(ingested)
  BY <1>2
<1> QED
  BY <1>1, <1>2, <1>3 DEF FramesInv, Indexed

\* What a flush in flight holds, nothing else holds: without it the memory is
\* what the buffer and the other flushes hold.
LEMMA FlushTakesOut ==
    ASSUME ArchiveInv, NEW c \in putting \cup creating
    PROVE  /\ Held \ Numbers(c.frames)
                = Numbers(buffer) \cup FramesOf((putting \cup creating) \ {c})
           /\ Numbers(c.frames) \subseteq Held
           /\ \E first, last \in Held :
                 first <= last /\ Numbers(c.frames) = first..last
<1> USE DEF ArchiveInv, ChunkInv
<1>1. c \in flushed /\ putting \cup creating \subseteq flushed
  BY DEF Storing
<1>2. PICK first, last \in Numbers(c.frames) :
         /\ Numbers(c.frames) = first..last
         /\ last < Len(ingested) - Len(buffer)
  BY <1>1, ChunkNumbers
<1>3. Numbers(buffer) \cap Numbers(c.frames) = {}
  <2> SUFFICES ASSUME NEW x \in Numbers(buffer), x \in Numbers(c.frames) PROVE FALSE
    OBVIOUS
  <2>1. x \in Int /\ x >= Len(ingested) - Len(buffer)
    BY BufferNumbers
  <2>2. x <= last /\ last \in Int /\ Len(ingested) \in Nat /\ Len(buffer) \in Nat
    <3>1. last \in Int
      BY <1>1, <1>2 DEF Numbers, TypeOK, Chunk, Frame
    <3> QED
      BY <1>2, <3>1 DEF TypeOK
  <2> QED
    BY <1>2, <2>1, <2>2
<1>4. \A d \in (putting \cup creating) \ {c} : Numbers(d.frames) \cap Numbers(c.frames) = {}
  BY <1>1 DEF FramesInv, Apart, Numbers
<1>5. Held \ Numbers(c.frames)
        = Numbers(buffer) \cup FramesOf((putting \cup creating) \ {c})
  BY <1>3, <1>4, Zenon DEF Held, FramesOf
<1>6. Numbers(c.frames) \subseteq Held
  BY Zenon DEF Held, FramesOf
<1>7. first \in Held /\ last \in Held
  BY <1>6
<1>8. first <= last
  BY <1>1, <1>2 DEF Numbers, TypeOK, Chunk, Frame
<1> QED
  BY <1>2, <1>5, <1>6, <1>7, <1>8
\* A chunk that is cut off was never cut off before: its number is new.
LEMMA CutIsNew ==
    ASSUME ChunkInv, NEW frames, NEW total, frames[1].session >= born
    PROVE  ChunkOf(frames, total) \notin flushed
BY DEF ChunkInv, TypeOK, Numbering, ChunkOf

\* The frames that Receive and FlushRemaining cut off belong to this process.
LEMMA CutBelongs ==
    ASSUME ChunkInv, NEW f \in Frame, f.session = feed.session
    PROVE  /\ buffer # <<>> => buffer[1].session >= born
           /\ Append(buffer, f)[1].session >= born
<1> USE DEF ChunkInv
<1>1. born \in Nat /\ feed.session \in Nat /\ born <= feed.session
  BY DEF TypeOK, Feed, Numbering
<1>2. buffer # <<>> => buffer[1].session >= born
  BY <1>1 DEF Numbering, BufferSession
<1>3. buffer \in Seq(Frame) /\ Len(buffer) \in Nat
  BY DEF TypeOK
<1>4. CASE buffer = <<>>
  BY <1>1, <1>4
<1>5. CASE buffer # <<>>
  <2>1. Append(buffer, f)[1] = buffer[1]
    BY <1>3, <1>5, AppendProperties
  <2> QED
    BY <1>2, <1>5, <2>1
<1> QED
  BY <1>2, <1>4, <1>5

\* No step begins a flush for a chunk that already has its object.
LEMMA PutOnceStep ==
    ASSUME ArchiveInv, [Next]_vars
    PROVE  PutOnce'
<1> USE DEF ArchiveInv, PutOnce
<1>1. ASSUME NEW frames, NEW total, Cut(frames, total), objects' = objects,
             frames[1].session >= born
      PROVE  PutOnce'
  <2>1. ChunkOf(frames, total) \notin objects
    BY <1>1, CutIsNew DEF ChunkInv, Storing
  <2> QED
    BY <1>1, <2>1 DEF Cut
<1>2. CASE Receive
  <2>1. PICK d \in Durations : Ingest(NextFrame(d))
    BY <1>2 DEF Receive
  <2> DEFINE f == NextFrame(d)
             frames == Append(buffer, f)
  <2>2. f \in Frame /\ f.session = feed.session
    BY DurationsAssumption DEF NextFrame, Frame, ChunkInv, TypeOK, Feed
  <2> HIDE DEF f
  <2>3. frames[1].session >= born
    BY <2>2, CutBelongs
  <2> HIDE DEF frames
  <2>4. /\ Cut(frames, buffered + f.duration) \/ putting' = putting
        /\ objects' = objects
    BY <2>1 DEF Ingest, f, frames, stores
  <2> QED
    BY <1>1, <2>3, <2>4
<1>3. CASE FlushRemaining
  <2>1. buffer[1].session >= born
    BY <1>3 DEF FlushRemaining, ChunkInv, Numbering, BufferSession, TypeOK, Feed
  <2> QED
    BY <1>1, <1>3, <2>1 DEF FlushRemaining, stores
<1>4. CASE Reconnect \/ NewSession \/ Restart \/ UNCHANGED vars
  BY <1>4 DEF Reconnect, NewSession, Restart, Idle, flights, stores, vars
<1>5. ASSUME NEW c \in putting,
             PutSucceeds(c) \/ \E written \in BOOLEAN : PutFails(c, written)
      PROVE  PutOnce'
  <2>1. Stored(c) = objects \cup {c}
    BY StoredKeeps DEF ChunkInv, Storing
  <2> QED
    BY <1>5, <2>1 DEF PutSucceeds, PutFails
<1>6. ASSUME NEW c \in creating,
             CreateSucceeds(c) \/ \E written : CreateFails(c, written)
      PROVE  PutOnce'
  BY <1>6 DEF CreateSucceeds, CreateFails
<1> QED
  BY <1>2, <1>3, <1>4, <1>5, <1>6 DEF Next

\* A flush that comes to an end, for what became of its chunk.
LEMMA FlushEnds ==
    ASSUME ArchiveInv, NEW c \in putting \cup creating,
           UNCHANGED <<buffer, ingested>>,
           putting' \cup creating' = (putting \cup creating) \ {c},
           \/ rows' = rows \cup {c} /\ reported' = reported
           \/ rows' \in {rows, rows \cup {c}} /\ reported' = reported \cup {c}
    PROVE  Archive!Next
<1> DEFINE stretch == Numbers(c.frames)
<1>1. /\ Held \ stretch = Numbers(buffer) \cup FramesOf((putting \cup creating) \ {c})
      /\ stretch \subseteq Held
      /\ \E first, last \in Held : first <= last /\ stretch = first..last
  BY FlushTakesOut
<1>2. \A chunks : FramesOf(chunks \cup {c}) = FramesOf(chunks) \cup stretch
  BY Zenon DEF FramesOf
<1>3. Numbers(buffer)' \cup FramesOf(putting \cup creating)' = Held \ stretch
  BY <1>1 DEF Numbers, FramesOf
<1>4. \/ /\ FramesOf(rows)' = FramesOf(rows) \cup stretch
         /\ FramesOf(reported)' = FramesOf(reported)
      \/ /\ FramesOf(rows)' \in {FramesOf(rows), FramesOf(rows) \cup stretch}
         /\ FramesOf(reported)' = FramesOf(reported) \cup stretch
  <2>1. FramesOf(rows)' = FramesOf(rows') /\ FramesOf(reported)' = FramesOf(reported')
    BY DEF FramesOf, Numbers
  <2> QED
    BY <1>2, <2>1
<1>5. Archive!Store(stretch) \/ Archive!Report(stretch)
  BY <1>3, <1>4 DEF Archive!Store, Archive!Report, Held
<1> HIDE DEF stretch
<1>6. PICK first \in Held, last \in Held : first <= last /\ stretch = first..last
  BY <1>1
<1>7. Archive!Store(first..last) \/ Archive!Report(first..last)
  BY <1>5, <1>6
<1> QED
  BY <1>1, <1>6, <1>7, Zenon DEF Archive!Next, Held

\* Every step of the assembler is one of the archive, or leaves it alone.
LEMMA ArchiveStep ==
    ASSUME ArchiveInv, [Next]_vars
    PROVE  [Archive!Next]_Archive!vars
<1> USE DEF ArchiveInv
<1> DEFINE held == Numbers(buffer) \cup FramesOf(putting \cup creating)
<1>1. ASSUME held' = held, UNCHANGED <<ingested, rows, reported>>
      PROVE  UNCHANGED Archive!vars
  BY <1>1 DEF Archive!vars, FramesOf, Numbers
<1>2. ASSUME UNCHANGED <<buffer, putting, creating, ingested, rows, reported>>
      PROVE  UNCHANGED Archive!vars
  BY <1>2 DEF Archive!vars, FramesOf, Numbers
\* Cutting moves the frames from the buffer to a flush.
<1>3. ASSUME NEW frames, NEW total, Cut(frames, total), creating' = creating
      PROVE  held' = Numbers(frames) \cup FramesOf(putting \cup creating)
  <2> DEFINE new == ChunkOf(frames, total)
  <2>1. new.frames = frames
    BY DEF ChunkOf
  <2>2. buffer' = <<>> /\ putting' = putting \cup {new}
    BY <1>3 DEF Cut
  <2> HIDE DEF new
  <2>3. held' = Numbers(<<>>) \cup FramesOf((putting \cup creating) \cup {new})
    <3>1. (putting \cup creating)' = (putting \cup creating) \cup {new}
      BY <1>3, <2>2
    <3> QED
      BY <2>2, <3>1 DEF FramesOf, Numbers
  <2>4. Numbers(<<>>) = {}
    BY DEF Numbers
  <2>5. FramesOf((putting \cup creating) \cup {new})
          = FramesOf(putting \cup creating) \cup Numbers(frames)
    BY <2>1, Zenon DEF FramesOf
  <2> QED
    BY <2>3, <2>4, <2>5
<1>4. CASE Receive
  <2>1. PICK d \in Durations : Ingest(NextFrame(d))
    BY <1>4 DEF Receive
  <2> DEFINE f == NextFrame(d)
             frames == Append(buffer, f)
  <2>2. f \in Frame /\ f.index = Len(ingested)
    BY DurationsAssumption DEF NextFrame, Frame, ChunkInv, TypeOK, Feed
  <2> HIDE DEF f
  <2>3. /\ ingested' = Append(ingested, f)
        /\ UNCHANGED <<creating, rows, reported>>
        /\ \/ Cut(frames, buffered + f.duration)
           \/ buffer' = frames /\ putting' = putting
    BY <2>1 DEF Ingest, stores, f
  <2>4. Numbers(frames) = Numbers(buffer) \cup {Len(ingested)}
    BY <2>2, NumbersAppend DEF ChunkInv, TypeOK
  <2> HIDE DEF frames
  <2>5. held' = Numbers(frames) \cup FramesOf(putting \cup creating)
    <3>1. CASE Cut(frames, buffered + f.duration)
      BY <1>3, <2>3, <3>1
    <3>2. CASE buffer' = frames /\ putting' = putting
      BY <2>3, <3>2 DEF Numbers, FramesOf
    <3> QED
      BY <2>3, <3>1, <3>2
  <2>6. Len(ingested)' = Len(ingested) + 1
    BY <2>2, <2>3 DEF ChunkInv, TypeOK
  <2>7. FramesOf(rows)' = FramesOf(rows) /\ FramesOf(reported)' = FramesOf(reported)
    BY <2>3 DEF FramesOf, Numbers
  <2>8. Archive!Accept
    BY <2>4, <2>5, <2>6, <2>7 DEF Archive!Accept
  <2> QED
    BY <2>8 DEF Archive!Next
<1>5. CASE FlushRemaining
  <2>1. Cut(buffer, buffered) /\ UNCHANGED <<creating, rows, reported, ingested>>
    BY <1>5 DEF FlushRemaining, stores
  <2> QED
    BY <1>1, <1>3, <2>1
<1>6. CASE Reconnect \/ NewSession
  BY <1>2, <1>6 DEF Reconnect, NewSession, Idle, flights, stores
<1>7. CASE Restart
  <2>1. /\ buffer' = <<>> /\ putting' = {} /\ creating' = {}
        /\ UNCHANGED <<rows, reported, ingested>>
    BY <1>7 DEF Restart, stores
  <2>2. held' = {}
    BY <2>1 DEF Numbers, FramesOf
  <2>3. Archive!Stop
    BY <2>1, <2>2 DEF Archive!Stop, FramesOf, Numbers
  <2> QED
    BY <2>3 DEF Archive!Next
<1>8. ASSUME NEW c \in putting,
             PutSucceeds(c) \/ \E written \in BOOLEAN : PutFails(c, written)
      PROVE  [Archive!Next]_Archive!vars
  <2>1. CASE PutSucceeds(c)
    <3>1. /\ UNCHANGED <<buffer, ingested, rows, reported>>
          /\ putting' \cup creating' = putting \cup creating
      BY <1>8, <2>1 DEF PutSucceeds, Rest
    <3>2. held' = held
      BY <3>1 DEF Numbers, FramesOf
    <3> QED
      BY <1>1, <3>1, <3>2
  <2>2. ASSUME NEW written \in BOOLEAN, PutFails(c, written)
        PROVE  Archive!Next
    <3>1. c \notin creating
      BY <1>8 DEF ChunkInv, Storing, PutOnce
    <3>2. /\ UNCHANGED <<buffer, ingested, rows>> /\ reported' = reported \cup {c}
          /\ putting' \cup creating' = (putting \cup creating) \ {c}
      BY <2>2, <3>1 DEF PutFails, Rest
    <3> QED
      BY <1>8, <3>2, FlushEnds
  <2> QED
    BY <1>8, <2>1, <2>2
<1>9. ASSUME NEW c \in creating,
             CreateSucceeds(c) \/ \E written : CreateFails(c, written)
      PROVE  Archive!Next
  <2>1. c \notin putting
    BY <1>9 DEF ChunkInv, Storing, PutOnce
  <2>2. /\ UNCHANGED <<buffer, ingested>>
        /\ putting' \cup creating' = (putting \cup creating) \ {c}
        /\ \/ rows' = rows \cup {c} /\ reported' = reported
           \/ rows' \in {rows, rows \cup {c}} /\ reported' = reported \cup {c}
    BY <1>9, <2>1 DEF CreateSucceeds, CreateFails, Rest
  <2> QED
    BY <1>9, <2>2, FlushEnds
<1>10. CASE UNCHANGED vars
  BY <1>2, <1>10 DEF vars, flights, stores
<1> QED
  BY <1>4, <1>5, <1>6, <1>7, <1>8, <1>9, <1>10 DEF Next

\* The assembler implements the archive, for every window, any durations and
\* any number of frames and restarts: a frame leaves the memory once, in a run
\* with its neighbours, stored or reported, or with the process.
THEOREM ArchiveKept == Spec => KeepsArchive
<1>1. Init => Archive!Init
  BY DEF Init, Archive!Init, Numbers, FramesOf
<1>2. Init => PutOnce
  BY DEF Init, PutOnce
<1>3. Spec => []ArchiveInv
  <2>1. ChunkInv /\ FramesInv /\ PutOnce /\ [Next]_vars => PutOnce'
    BY PutOnceStep DEF ArchiveInv
  <2> QED
    BY <1>2, <2>1, ChunkInvariant, FramesInvariant, PTL DEF Spec, ArchiveInv
<1>4. ArchiveInv /\ [Next]_vars => [Archive!Next]_Archive!vars
  BY ArchiveStep
<1> QED
  BY <1>1, <1>3, <1>4, PTL DEF Spec, Archive!Spec, KeepsArchive
=============================================================================
