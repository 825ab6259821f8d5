------------------- MODULE ShoutcastSourceAdapterProofs -------------------
(***************************************************************************)
(* Proofs about the source adapter, for any set of requests, any set of    *)
(* durations and any number of frames.                                     *)
(***************************************************************************)
EXTENDS ShoutcastSourceAdapter, FiniteSetTheorems, TLAPS

USE NoRequestAssumption, DurationsAssumption, MaxFramesAssumption

\* Whatever is appended to a sequence, its earlier elements stay.
LEMMA AppendKeeps ==
    ASSUME NEW S, NEW s \in Seq(S), NEW e \in S
    PROVE  /\ Append(s, e) \in Seq(S)
           /\ Len(Append(s, e)) = Len(s) + 1
           /\ Append(s, e)[Len(s) + 1] = e
           /\ \A i \in 1..Len(s) : Append(s, e)[i] = s[i]
  OBVIOUS

\* The events the adapter emits are lifecycle events.
LEMMA EventTypes ==
    ASSUME TypeOK
    PROVE  /\ \A reason \in {"clean_disconnect", "error"} :
                 EndedEvent(reason) \in Event
           /\ ReconnectedEvent \in Event
           /\ \A s \in Nat : CreatedEvent(s) \in Event
  BY DEF TypeOK, EndedEvent, ReconnectedEvent, CreatedEvent, Event

\* What the terminal listeners do keeps the fields they touch in their types.
LEMMA EndLegTypes ==
    ASSUME TypeOK, NEW reason \in {"clean_disconnect", "error"}, EndLeg(reason)
    PROVE  /\ active' = NoRequest
           /\ events' \in Seq(Event)
           /\ endedFlag' \in BOOLEAN
<1>1. active' = NoRequest /\ endedFlag' \in BOOLEAN
  BY Zenon DEF EndLeg, EndDue, TypeOK
<1>2. events' \in Seq(Event)
  BY EventTypes, AppendKeeps DEF EndLeg, TypeOK
<1> QED
  BY <1>1, <1>2

\* So does what step 3 does to the session.
LEMMA StartSessionTypes ==
    ASSUME TypeOK, StartSession
    PROVE  /\ session' \in Nat /\ minted' \in Nat /\ offset' \in Nat
           /\ seqNo' \in Nat /\ reconnects' \in Nat
           /\ events' \in Seq(Event)
<1>1. CASE session = 0
  <2>1. minted' \in Nat /\ session' \in Nat
    BY <1>1 DEF StartSession, TypeOK
  <2>2. CreatedEvent(session') \in Event
    BY <2>1, EventTypes
  <2>3. events' = Append(events, CreatedEvent(session'))
    BY <1>1, Zenon DEF StartSession
  <2>4. events' \in Seq(Event)
    BY <2>2, <2>3, AppendKeeps DEF TypeOK
  <2> QED
    BY <1>1, <2>1, <2>4 DEF StartSession, TypeOK
<1>2. CASE session # 0
  <2>1. /\ events' = Append(events, ReconnectedEvent)
        /\ reconnects' = reconnects + 1
        /\ UNCHANGED <<session, offset, seqNo, minted>>
    BY <1>2, Zenon DEF StartSession
  <2>2. events' \in Seq(Event)
    BY <2>1, EventTypes, AppendKeeps DEF TypeOK
  <2> QED
    BY <2>1, <2>2 DEF TypeOK
<1> QED
  BY <1>1, <1>2

-----------------------------------------------------------------------------
\* Type correctness: every field of the adapter and every emitted event and
\* frame keeps its shape.
THEOREM TypeCorrect == Spec => []TypeOK
<1>1. Init => TypeOK
  <2> SUFFICES ASSUME Init
               PROVE  TypeOK
    OBVIOUS
  <2>1. handler \in [Requests -> HandlerStates] /\ wire \in [Requests -> WireStates]
    BY DEF Init, HandlerStates, WireStates
  <2>2. configured \in BOOLEAN /\ ready \in BOOLEAN /\ endedFlag \in BOOLEAN
    BY Zenon DEF Init
  <2> QED
    BY <2>1, <2>2 DEF Init, TypeOK
<1>2. TypeOK /\ [Next]_vars => TypeOK'
  <2> SUFFICES ASSUME TypeOK, [Next]_vars
               PROVE  TypeOK'
    OBVIOUS
  <2> USE DEF TypeOK, lifecycle, Answer, HandlerStates, WireStates
  <2>1. CASE Connect
    BY <2>1 DEF Connect
  <2>2. CASE Disconnect
    BY <2>2, EventTypes, AppendKeeps DEF Disconnect, Reset
  <2>3. ASSUME NEW r \in Requests, AnswerUnavailable(r)
        PROVE  TypeOK'
    BY <2>3 DEF AnswerUnavailable
  <2>4. ASSUME NEW r \in Requests, AnswerBusy(r)
        PROVE  TypeOK'
    BY <2>4 DEF AnswerBusy
  <2>5. ASSUME NEW r \in Requests, AnswerNoPassword(r)
        PROVE  TypeOK'
    BY <2>5 DEF AnswerNoPassword
  <2>6. ASSUME NEW r \in Requests, StartLookup(r)
        PROVE  TypeOK'
    BY <2>6 DEF StartLookup
  <2>7. ASSUME NEW r \in Requests, LookupFails(r)
        PROVE  TypeOK'
    BY <2>7 DEF LookupFails
  <2>8. ASSUME NEW r \in Requests, WrongPassword(r)
        PROVE  TypeOK'
    BY <2>8 DEF WrongPassword
  <2>9. ASSUME NEW r \in Requests, Accept(r)
        PROVE  TypeOK'
    BY <2>9, StartSessionTypes, Zenon DEF Accept
  <2>10. ASSUME NEW r \in Requests, EncoderCloses(r)
         PROVE  TypeOK'
    BY <2>10 DEF EncoderCloses
  <2>11. ASSUME NEW r \in Requests, EncoderAborts(r)
         PROVE  TypeOK'
    BY <2>11 DEF EncoderAborts
  <2>12. ASSUME NEW r \in Requests, OnData(r)
         PROVE  TypeOK'
    <3>1. PICK d \in FrameDurations :
             /\ frames' = Append(frames, NewFrame(r, d))
             /\ offset' = offset + d
      BY <2>12 DEF OnData
    <3>2. NewFrame(r, d) \in Frame
      BY <3>1 DEF NewFrame, Frame
    <3> QED
      BY <2>12, <3>1, <3>2, AppendKeeps DEF OnData
  <2>13. ASSUME NEW r \in Requests, OnEnd(r)
         PROVE  TypeOK'
    <3>1. CASE Closing(r)
      BY <2>13, <3>1, EndLegTypes DEF OnEnd
    <3>2. CASE ~Closing(r)
      BY <2>13, <3>2 DEF OnEnd
    <3> QED
      BY <3>1, <3>2
  <2>14. ASSUME NEW r \in Requests, OnError(r)
         PROVE  TypeOK'
    <3>1. CASE Closing(r)
      BY <2>14, <3>1, EndLegTypes DEF OnError
    <3>2. CASE ~Closing(r)
      BY <2>14, <3>2 DEF OnError
    <3> QED
      BY <3>1, <3>2
  <2>15. CASE UNCHANGED vars
    BY <2>15 DEF vars
  <2> QED
    BY <2>1, <2>2, <2>3, <2>4, <2>5, <2>6, <2>7, <2>8, <2>9, <2>10, <2>11,
       <2>12, <2>13, <2>14, <2>15 DEF Next
<1> QED
  BY <1>1, <1>2, PTL DEF Spec

-----------------------------------------------------------------------------
(***************************************************************************)
(* The timeline.  That the frames emitted so far form a timeline says      *)
(* nothing of the next one: the adapter's session clock must stand where   *)
(* the last frame of the current session ended, or at zero when the        *)
(* current session, or no session, has emitted none.                       *)
(***************************************************************************)
OnTimeline == frames # <<>> /\ frames[Len(frames)].session = session

ClockStands ==
    IF OnTimeline
    THEN /\ seqNo = frames[Len(frames)].seqNo + 1
         /\ offset = frames[Len(frames)].offset + frames[Len(frames)].duration
    ELSE /\ seqNo = 0
         /\ offset = 0
         /\ \A i \in 1..Len(frames) : frames[i].session # session

SessionsMinted ==
    /\ session \in {0, minted}
    /\ \A i \in 1..Len(frames) : frames[i].session \in 1..minted

TimelineInv == TimelineContiguous /\ ClockStands /\ SessionsMinted

\* Steps that leave the clock and the frames alone preserve the invariant.
LEMMA TimelineFrame ==
    ASSUME TimelineInv, UNCHANGED <<session, offset, seqNo, minted, frames>>
    PROVE  TimelineInv'
  BY DEF TimelineInv, TimelineContiguous, ClockStands, OnTimeline, SessionsMinted

\* A disconnect sets the clock to zero and leaves no session.
LEMMA TimelineDisconnect ==
    ASSUME TypeOK, TimelineInv, Disconnect
    PROVE  TimelineInv'
<1>1. frames' = frames /\ minted' = minted /\ session' = 0 /\ offset' = 0 /\ seqNo' = 0
  BY DEF Disconnect, Reset
<1>2. TimelineContiguous'
  BY <1>1 DEF TimelineInv, TimelineContiguous
<1>3. SessionsMinted'
  BY <1>1 DEF TimelineInv, SessionsMinted
<1>4. \A i \in 1..Len(frames) : frames[i].session # 0
  BY DEF TypeOK, TimelineInv, SessionsMinted
<1>5. ~OnTimeline'
  BY <1>1, <1>4 DEF OnTimeline, TypeOK
<1>6. ClockStands'
  BY <1>1, <1>4, <1>5 DEF ClockStands
<1> QED
  BY <1>2, <1>3, <1>6 DEF TimelineInv

\* An accepted request revives the session or mints an id no frame carries.
LEMMA TimelineAccept ==
    ASSUME TypeOK, TimelineInv, NEW r \in Requests, Accept(r)
    PROVE  TimelineInv'
<1>1. frames' = frames
  BY DEF Accept
<1>2. CASE session # 0
  <2>1. UNCHANGED <<session, offset, seqNo, minted>>
    BY <1>2 DEF Accept, StartSession
  <2> QED
    BY <1>1, <2>1, TimelineFrame
<1>3. CASE session = 0
  <2>1. /\ minted' = minted + 1 /\ session' = minted + 1
        /\ offset' = offset /\ seqNo' = seqNo
    BY <1>3 DEF Accept, StartSession
  <2>2. \A i \in 1..Len(frames) : frames[i].session \in 1..minted
    BY DEF TimelineInv, SessionsMinted
  <2>3. minted \in Nat /\ Len(frames) \in Nat /\ (frames # <<>> => Len(frames) \in 1..Len(frames))
    BY DEF TypeOK
  <2>4. ~OnTimeline
    BY <1>3, <2>2, <2>3 DEF OnTimeline
  <2>5. offset = 0 /\ seqNo = 0
    BY <2>4 DEF TimelineInv, ClockStands
  <2>6. ~OnTimeline' /\ \A i \in 1..Len(frames) : frames[i].session # minted + 1
    BY <1>1, <2>1, <2>2, <2>3 DEF OnTimeline
  <2>7. ClockStands'
    BY <1>1, <2>1, <2>5, <2>6 DEF ClockStands
  <2>8. SessionsMinted'
    BY <1>1, <2>1, <2>2, <2>3 DEF SessionsMinted
  <2>9. TimelineContiguous'
    BY <1>1 DEF TimelineInv, TimelineContiguous
  <2> QED
    BY <2>7, <2>8, <2>9 DEF TimelineInv
<1> QED
  BY <1>2, <1>3

\* A frame takes the place the clock stands at and moves the clock to its end.
LEMMA TimelineOnData ==
    ASSUME TypeOK, TimelineInv, NEW r \in Requests, OnData(r)
    PROVE  TimelineInv'
<1> DEFINE n == Len(frames)
<1>1. PICK d \in FrameDurations :
         /\ frames' = Append(frames, NewFrame(r, d))
         /\ offset' = offset + d
  BY DEF OnData
<1>2. /\ UNCHANGED <<session, minted>> /\ seqNo' = seqNo + 1 /\ session # 0
      /\ n \in Nat /\ d \in Nat /\ session \in Nat
  BY DEF OnData, CanEmit, TypeOK
<1>3. NewFrame(r, d) \in Frame
  BY <1>2 DEF NewFrame, Frame, TypeOK
<1>4. /\ frames' \in Seq(Frame)
      /\ Len(frames') = n + 1
      /\ frames'[n + 1] = NewFrame(r, d)
      /\ \A i \in 1..n : frames'[i] = frames[i]
  BY <1>1, <1>3, AppendKeeps DEF TypeOK
<1> HIDE DEF n
<1>5. /\ frames'[n + 1].session = session /\ frames'[n + 1].seqNo = seqNo
      /\ frames'[n + 1].offset = offset /\ frames'[n + 1].duration = d
  BY <1>4 DEF NewFrame
<1>6. OnTimeline' /\ ClockStands'
  <2>1. frames' # <<>>
    BY <1>2, <1>4
  <2>2. OnTimeline'
    BY <1>2, <1>4, <1>5, <2>1 DEF OnTimeline
  <2> QED
    BY <1>1, <1>2, <1>4, <1>5, <2>2 DEF ClockStands
<1>7. SessionsMinted'
  <2>1. session \in 1..minted
    BY <1>2 DEF TimelineInv, SessionsMinted, TypeOK
  <2>2. \A i \in 1..n : frames[i].session \in 1..minted
    BY DEF TimelineInv, SessionsMinted, n
  <2>3. \A i \in 1..(n + 1) : i \in 1..n \/ i = n + 1
    BY <1>2
  <2>4. \A i \in 1..(n + 1) : frames'[i].session \in 1..minted
    BY <1>4, <1>5, <2>1, <2>2, <2>3
  <2>5. session' \in {0, minted'}
    BY <1>2 DEF TimelineInv, SessionsMinted
  <2> QED
    BY <1>2, <1>4, <2>4, <2>5 DEF SessionsMinted
<1>8. TimelineContiguous'
  <2> SUFFICES ASSUME NEW i \in 1..(n + 1)
               PROVE  IF i > 1 /\ frames'[i - 1].session = frames'[i].session
                      THEN /\ frames'[i].seqNo = frames'[i - 1].seqNo + 1
                           /\ frames'[i].offset = frames'[i - 1].offset + frames'[i - 1].duration
                      ELSE /\ frames'[i].seqNo = 0
                           /\ frames'[i].offset = 0
                           /\ \A j \in 1..(i - 1) : frames'[j].session # frames'[i].session
    BY <1>4 DEF TimelineContiguous
  <2>1. CASE i \in 1..n
    <3>1. /\ frames'[i] = frames[i]
          /\ \A j \in 1..(i - 1) : j \in 1..n /\ frames'[j] = frames[j]
          /\ i > 1 => frames'[i - 1] = frames[i - 1]
      BY <1>2, <1>4, <2>1
    <3> QED
      BY <1>2, <2>1, <3>1 DEF TimelineInv, TimelineContiguous, n
  <2>2. CASE i = n + 1
    <3>1. CASE OnTimeline
      <4>1. n > 0 /\ frames'[n] = frames[n] /\ frames[n].session = session
        BY <1>2, <1>4, <3>1 DEF OnTimeline, n, TypeOK
      <4>2. /\ seqNo = frames[n].seqNo + 1
            /\ offset = frames[n].offset + frames[n].duration
        BY <3>1 DEF TimelineInv, ClockStands, n
      <4> QED
        BY <1>2, <1>5, <2>2, <4>1, <4>2
    <3>2. CASE ~OnTimeline
      <4>1. /\ seqNo = 0 /\ offset = 0
            /\ \A j \in 1..n : frames[j].session # session
        BY <3>2 DEF TimelineInv, ClockStands, n
      <4>2. \A j \in 1..n : frames'[j].session # session
        BY <1>4, <4>1
      <4>3. ~(i > 1 /\ frames'[i - 1].session = frames'[i].session)
        BY <1>2, <1>5, <2>2, <4>2
      <4> QED
        BY <1>2, <1>5, <2>2, <4>1, <4>2, <4>3
    <3> QED
      BY <3>1, <3>2
  <2> QED
    BY <1>2, <2>1, <2>2
<1> QED
  BY <1>6, <1>7, <1>8 DEF TimelineInv

\* The timeline is empty at first.
LEMMA TimelineInit == Init => TimelineInv
  BY DEF Init, TimelineInv, TimelineContiguous, ClockStands, OnTimeline, SessionsMinted

\* Every step keeps the timeline: only data, a new session and a disconnect
\* touch it at all.
LEMMA TimelineStep ==
    ASSUME TypeOK, TimelineInv, [Next]_vars
    PROVE  TimelineInv'
<1>1. CASE UNCHANGED <<session, offset, seqNo, minted, frames>>
  BY <1>1, TimelineFrame
<1>2. CASE Disconnect
  BY <1>2, TimelineDisconnect
<1>3. CASE \E r \in Requests : Accept(r)
  BY <1>3, TimelineAccept
<1>4. CASE \E r \in Requests : OnData(r)
  BY <1>4, TimelineOnData
<1> QED
  BY <1>1, <1>2, <1>3, <1>4
  DEF Next, vars, lifecycle, Answer, Connect, AnswerUnavailable, AnswerBusy,
      AnswerNoPassword, StartLookup, LookupFails, WrongPassword,
      EncoderCloses, EncoderAborts, OnEnd, OnError

\* Each session's frames form one gapless timeline across its reconnects, for
\* every resolver, any number of concurrent requests and any durations.
THEOREM Timeline == Spec => []TimelineContiguous
<1>1. TypeOK /\ TimelineInv /\ [Next]_vars => TimelineInv'
  BY TimelineStep
<1>2. TimelineInv => TimelineContiguous
  BY DEF TimelineInv
<1> QED
  BY <1>1, <1>2, TimelineInit, TypeCorrect, PTL DEF Spec

-----------------------------------------------------------------------------
(***************************************************************************)
(* The story the events tell, for every resolver.  That the events so far  *)
(* count right says nothing of the next one: the counter, the flag and the *)
(* current session must agree with the last event and with the reconnects  *)
(* reported so far.                                                        *)
(***************************************************************************)
\* The events of a session in a history, and its reconnects among them.
Told(E, s) == {j \in 1..Len(E) : E[j].session = s}
Reopened(E, s) == {j \in Told(E, s) : E[j].type = "reconnected"}

\* Those before the i-th event that are of its session.
Before(E, i) == {j \in 1..(i - 1) : E[j].session = E[i].session}
Again(E, i) == {j \in Before(E, i) : E[j].type = "reconnected"}

\* ReconnectsCounted and NoDuplicateEnd at one place of a history.
Counted(E, i) ==
    /\ E[i].type = "created" => Before(E, i) = {}
    /\ E[i].type = "reconnected" =>
          i - 1 \in Before(E, i) /\ E[i].count = Cardinality(Again(E, i)) + 1
    /\ E[i].type = "ended" =>
          i - 1 \in Before(E, i) /\ E[i].count = Cardinality(Again(E, i))

EndsALeg(E, i) ==
    E[i].type = "ended" =>
        i > 1 /\ E[i - 1].type \in Start /\ E[i - 1].session = E[i].session

RightStory(E) == \A i \in 1..Len(E) : Counted(E, i) /\ EndsALeg(E, i)

\* The event may be the next one.
Follows(E, e) ==
    /\ e.type = "created" => Told(E, e.session) = {}
    /\ e.type = "reconnected" =>
          /\ Len(E) \in Told(E, e.session)
          /\ e.count = Cardinality(Reopened(E, e.session)) + 1
    /\ e.type = "ended" =>
          /\ Len(E) \in Told(E, e.session)
          /\ E[Len(E)].type \in Start
          /\ e.count = Cardinality(Reopened(E, e.session))

\* The fields the next event is made from.
StoryStands ==
    /\ session = 0 => reconnects = 0
    /\ session # 0 =>
          /\ configured
          /\ Len(events) \in Told(events, session)
          /\ endedFlag <=> events[Len(events)].type = "ended"
          /\ reconnects = Cardinality(Reopened(events, session))
          /\ active = NoRequest => endedFlag

Configured == \A r \in Requests : handler[r] = "resolving" => configured

EventsMinted == \A i \in 1..Len(events) : events[i].session \in 1..minted

StoryInv == RightStory(events) /\ StoryStands /\ Configured /\ EventsMinted

\* What an event adds to what was told of a session.
LEMMA ToldGrows ==
    ASSUME NEW E \in Seq(Event), NEW e \in Event, NEW s
    PROVE  /\ Told(Append(E, e), s) =
                 IF e.session = s THEN Told(E, s) \cup {Len(E) + 1} ELSE Told(E, s)
           /\ Reopened(Append(E, e), s) =
                 IF e.session = s /\ e.type = "reconnected"
                 THEN Reopened(E, s) \cup {Len(E) + 1} ELSE Reopened(E, s)
<1> DEFINE F == Append(E, e)
<1>1. /\ Len(E) \in Nat /\ Len(F) = Len(E) + 1 /\ F[Len(E) + 1] = e
      /\ \A i \in 1..Len(E) : F[i] = E[i]
  BY AppendKeeps
<1> HIDE DEF F
<1>2. \A i : i \in 1..(Len(E) + 1) <=> i \in 1..Len(E) \/ i = Len(E) + 1
  BY <1>1
<1>3. Told(F, s) = IF e.session = s THEN Told(E, s) \cup {Len(E) + 1} ELSE Told(E, s)
  BY <1>1, <1>2 DEF Told
<1>4. ASSUME NEW j
      PROVE  j \in Reopened(F, s) <=>
                j \in IF e.session = s /\ e.type = "reconnected"
                      THEN Reopened(E, s) \cup {Len(E) + 1} ELSE Reopened(E, s)
  <2>1. j \in Told(E, s) => j \in 1..Len(E) /\ j # Len(E) + 1
    BY <1>1 DEF Told
  <2>2. j \in Reopened(E, s) <=> j \in Told(E, s) /\ E[j].type = "reconnected"
    BY DEF Reopened
  <2>3. j \in Reopened(F, s) <=> j \in Told(F, s) /\ F[j].type = "reconnected"
    BY DEF Reopened
  <2> QED
    BY <1>1, <1>3, <2>1, <2>2, <2>3
<1> QED
  BY <1>3, <1>4 DEF F

\* How many reconnects there are then.
LEMMA ReopenedCounts ==
    ASSUME NEW E \in Seq(Event), NEW e \in Event
    PROVE  Cardinality(Reopened(Append(E, e), e.session)) =
              IF e.type = "reconnected" THEN Cardinality(Reopened(E, e.session)) + 1
                                        ELSE Cardinality(Reopened(E, e.session))
<1> DEFINE T == Reopened(E, e.session)
<1>1. T \subseteq 1..Len(E) /\ Len(E) \in Nat
  BY DEF Reopened, Told
<1>2. IsFiniteSet(T)
  <2>1. IsFiniteSet(1..Len(E))
    BY <1>1, FS_Interval
  <2> QED
    BY <1>1, <2>1, FS_Subset
<1>3. (Len(E) + 1) \notin T
  BY <1>1
<1>4. Reopened(Append(E, e), e.session) =
         IF e.type = "reconnected" THEN T \cup {Len(E) + 1} ELSE T
  BY ToldGrows
<1> HIDE DEF T
<1>5. Cardinality(T \cup {Len(E) + 1}) =
         IF Len(E) + 1 \in T THEN Cardinality(T) ELSE Cardinality(T) + 1
  BY <1>2, FS_AddElement
<1> QED
  BY <1>3, <1>4, <1>5 DEF T

\* An event that may follow keeps the story right.
LEMMA StoryGrows ==
    ASSUME NEW E \in Seq(Event), RightStory(E), NEW e \in Event, Follows(E, e)
    PROVE  RightStory(Append(E, e))
<1> DEFINE F == Append(E, e)
           n == Len(E)
<1>1. /\ n \in Nat /\ Len(F) = n + 1 /\ F[n + 1] = e
      /\ \A i \in 1..n : F[i] = E[i]
  BY AppendKeeps
<1> HIDE DEF F, n
<1>2. ASSUME NEW i \in 1..n
      PROVE  Counted(F, i) /\ EndsALeg(F, i)
  <2>1. /\ F[i] = E[i] /\ i - 1 \in 0..n
        /\ \A j \in 1..(i - 1) : F[j] = E[j]
    BY <1>1
  <2>2. Before(F, i) = Before(E, i)
    BY <2>1 DEF Before
  <2>3. \A j \in Before(E, i) : F[j] = E[j]
    BY <2>1 DEF Before
  <2>4. Again(F, i) = Again(E, i)
    BY <2>2, <2>3 DEF Again
  <2>5. Counted(E, i) /\ EndsALeg(E, i)
    BY DEF RightStory, n
  <2>6. Counted(F, i)
    BY <2>1, <2>2, <2>4, <2>5 DEF Counted
  <2>7. i > 1 => F[i - 1] = E[i - 1]
    BY <1>1
  <2>8. EndsALeg(F, i)
    BY <2>1, <2>5, <2>7 DEF EndsALeg
  <2> QED
    BY <2>6, <2>8
<1>3. Counted(F, n + 1)
  <2>1. (n + 1) - 1 = n
    BY <1>1
  <2>2. Before(F, n + 1) = Told(E, e.session)
    BY <1>1, <2>1 DEF Told, Before, n
  <2>3. \A j \in Told(E, e.session) : F[j] = E[j]
    BY <1>1 DEF Told, n
  <2>4. Again(F, n + 1) = Reopened(E, e.session)
    BY <2>2, <2>3 DEF Reopened, Again
  <2> QED
    BY <1>1, <2>1, <2>2, <2>4 DEF Follows, Counted, n
<1>4. EndsALeg(F, n + 1)
  <2> SUFFICES ASSUME e.type = "ended"
               PROVE  n + 1 > 1 /\ F[n].type \in Start /\ F[n].session = e.session
    BY <1>1 DEF EndsALeg
  <2>1. n \in Told(E, e.session) /\ E[n].type \in Start
    BY DEF Follows, n
  <2>2. n \in 1..n /\ E[n].session = e.session
    BY <2>1 DEF Told, n
  <2> QED
    BY <1>1, <2>1, <2>2
<1>5. \A i \in 1..(n + 1) : i \in 1..n \/ i = n + 1
  BY <1>1
<1>6. RightStory(F)
  BY <1>1, <1>2, <1>3, <1>4, <1>5 DEF RightStory
<1> QED
  BY <1>6 DEF F

\* Steps that emit nothing and leave the lifecycle alone.
LEMMA StoryQuiet ==
    ASSUME StoryInv, UNCHANGED <<session, reconnects, minted, active, endedFlag, events>>,
           configured => configured', Configured'
    PROVE  StoryInv'
<1>1. RightStory(events)'
  BY DEF StoryInv
<1>2. StoryStands'
  BY Zenon DEF StoryInv, StoryStands
<1>3. EventsMinted'
  BY DEF StoryInv, EventsMinted
<1> QED
  BY <1>1, <1>2, <1>3 DEF StoryInv

\* The end of a leg may always be reported when the adapter reports it.
LEMMA EndFollows ==
    ASSUME TypeOK, TimelineInv, StoryInv, EndDue,
           NEW reason \in {"clean_disconnect", "error"},
           events' = Append(events, EndedEvent(reason)), minted' = minted
    PROVE  /\ RightStory(events)' /\ EventsMinted'
           /\ Len(events') \in Told(events', session)
           /\ events'[Len(events')].type = "ended"
           /\ reconnects = Cardinality(Reopened(events', session))
<1> DEFINE e == EndedEvent(reason)
<1>1. /\ e \in Event /\ e.type = "ended" /\ e.session = session /\ e.count = reconnects
      /\ events' = Append(events, e) /\ events \in Seq(Event)
  BY EventTypes DEF EndedEvent, TypeOK
<1> HIDE DEF e
<1>2. /\ session # 0 /\ ~endedFlag /\ Len(events) \in Told(events, session)
      /\ endedFlag <=> events[Len(events)].type = "ended"
      /\ reconnects = Cardinality(Reopened(events, session))
  BY Zenon DEF EndDue, StoryInv, StoryStands
<1>3. Len(events) \in 1..Len(events)
  BY <1>2 DEF Told
<1>4. events[Len(events)].type \in {"created", "reconnected", "ended"}
  <2>1. events[Len(events)] \in Event
    BY <1>1, <1>3
  <2> QED
    BY <2>1 DEF Event
<1>5. events[Len(events)].type \in Start
  BY <1>2, <1>4 DEF Start
<1>6. Follows(events, e)
  BY <1>1, <1>2, <1>5 DEF Follows
<1>7. RightStory(events)'
  BY <1>1, <1>6, StoryGrows DEF StoryInv
<1>8. /\ Len(events') = Len(events) + 1 /\ events'[Len(events) + 1] = e
      /\ \A i \in 1..Len(events) : events'[i] = events[i]
      /\ Len(events) \in Nat
  BY <1>1, AppendKeeps
<1>9. session \in 1..minted
  BY <1>2 DEF TimelineInv, SessionsMinted, TypeOK
<1>10. EventsMinted'
  BY <1>1, <1>8, <1>9 DEF StoryInv, EventsMinted
<1>11. Len(events') \in Told(events', session)
  BY <1>1, <1>8, ToldGrows
<1>12. Cardinality(Reopened(events', session)) = Cardinality(Reopened(events, session))
  BY <1>1, ReopenedCounts
<1> QED
  BY <1>1, <1>2, <1>7, <1>8, <1>10, <1>11, <1>12

\* The terminal listeners of the active request.
LEMMA StoryEndLeg ==
    ASSUME TypeOK, TimelineInv, StoryInv,
           NEW reason \in {"clean_disconnect", "error"}, EndLeg(reason),
           UNCHANGED <<configured, session, reconnects, minted, handler>>
    PROVE  StoryInv'
<1>1. Configured'
  BY DEF StoryInv, Configured
<1>2. CASE EndDue
  <2>1. events' = Append(events, EndedEvent(reason)) /\ endedFlag'
    BY <1>2, Zenon DEF EndLeg
  <2>2. /\ RightStory(events)' /\ EventsMinted'
        /\ Len(events') \in Told(events', session)
        /\ events'[Len(events')].type = "ended"
        /\ reconnects = Cardinality(Reopened(events', session))
    BY <1>2, <2>1, EndFollows
  <2>3. session # 0 /\ configured'
    BY <1>2, Zenon DEF EndDue
  <2>4. StoryStands'
    BY <2>1, <2>2, <2>3, Zenon DEF StoryStands
  <2> QED
    BY <1>1, <2>2, <2>4 DEF StoryInv
<1>3. CASE ~EndDue
  <2>1. events' = events /\ (endedFlag' <=> endedFlag)
    BY <1>3, Zenon DEF EndLeg
  <2>2. session # 0 => endedFlag
    BY <1>3, Zenon DEF EndDue, StoryInv, StoryStands
  <2>3. StoryStands'
    BY <2>1, <2>2, Zenon DEF StoryInv, StoryStands
  <2>4. RightStory(events)' /\ EventsMinted'
    BY <2>1 DEF StoryInv, EventsMinted
  <2> QED
    BY <1>1, <2>3, <2>4 DEF StoryInv
<1> QED
  BY <1>2, <1>3

\* fnDisconnect reports what is due and leaves no session.
LEMMA StoryDisconnect ==
    ASSUME TypeOK, TimelineInv, StoryInv, Disconnect
    PROVE  StoryInv'
<1>1. session' = 0 /\ reconnects' = 0 /\ minted' = minted
  BY DEF Disconnect, Reset
<1>2. Configured' /\ StoryStands'
  BY <1>1 DEF Disconnect, StoryInv, Configured, StoryStands
<1>3. CASE EndDue
  <2>1. events' = Append(events, EndedEvent("clean_disconnect"))
    BY <1>3 DEF Disconnect
  <2>2. RightStory(events)' /\ EventsMinted'
    BY <1>1, <1>3, <2>1, EndFollows
  <2> QED
    BY <1>2, <2>2 DEF StoryInv
<1>4. CASE ~EndDue
  <2>1. events' = events
    BY <1>4 DEF Disconnect
  <2>2. RightStory(events)' /\ EventsMinted'
    BY <1>1, <2>1 DEF StoryInv, EventsMinted
  <2> QED
    BY <1>2, <2>2 DEF StoryInv
<1> QED
  BY <1>3, <1>4

\* An accepted request creates a session nobody was told of, or revives the
\* one the last event was about.
LEMMA StoryAccept ==
    ASSUME TypeOK, TimelineInv, StoryInv, NEW r \in Requests, Accept(r)
    PROVE  StoryInv'
<1>1. configured /\ configured' = configured /\ endedFlag' = FALSE /\ active' = r
  BY DEF Accept, StoryInv, Configured
<1>2. Configured'
  BY <1>1 DEF Configured
<1>3. PICK e \in Event :
         /\ events' = Append(events, e) /\ Follows(events, e)
         /\ e.type \in Start /\ e.session = session' /\ e.session \in 1..minted'
         /\ session' # 0 /\ minted' >= minted /\ minted' \in Nat
         /\ reconnects' = Cardinality(Reopened(events', session'))
  <2>1. CASE session = 0
    <3> DEFINE e == CreatedEvent(minted + 1)
    <3>1. /\ minted' = minted + 1 /\ session' = minted + 1 /\ reconnects' = 0
          /\ minted \in Nat
      BY <2>1 DEF Accept, StartSession, StoryInv, StoryStands, TypeOK
    <3>2. events' = Append(events, e)
      BY <2>1, <3>1, Zenon DEF Accept, StartSession
    <3>3. e \in Event /\ e.type = "created" /\ e.session = minted + 1
      BY <3>1, EventTypes DEF CreatedEvent
    <3> HIDE DEF e
    <3>4. Told(events, e.session) = {}
      BY <3>1, <3>3 DEF StoryInv, EventsMinted, Told
    <3>5. Follows(events, e)
      BY <3>3, <3>4 DEF Follows
    <3>6. Reopened(events, e.session) = {}
      BY <3>4 DEF Reopened
    <3>7. Cardinality(Reopened(events', e.session)) = Cardinality(Reopened(events, e.session))
      BY <3>2, <3>3, ReopenedCounts DEF TypeOK
    <3>8. Cardinality(Reopened(events', e.session)) = 0
      BY <3>6, <3>7, FS_EmptySet
    <3> QED
      BY <3>1, <3>2, <3>3, <3>5, <3>8 DEF Start
  <2>2. CASE session # 0
    <3> DEFINE e == ReconnectedEvent
    <3>1. /\ session' = session /\ minted' = minted /\ minted \in Nat
          /\ reconnects' = reconnects + 1 /\ events' = Append(events, e)
      BY <2>2 DEF Accept, StartSession, TypeOK
    <3>2. e \in Event /\ e.type = "reconnected" /\ e.session = session /\ e.count = reconnects + 1
      BY EventTypes DEF ReconnectedEvent
    <3> HIDE DEF e
    <3>3. Len(events) \in Told(events, session) /\ reconnects = Cardinality(Reopened(events, session))
      BY <2>2 DEF StoryInv, StoryStands
    <3>4. Follows(events, e)
      BY <3>2, <3>3 DEF Follows
    <3>5. Cardinality(Reopened(events', e.session)) = Cardinality(Reopened(events, e.session)) + 1
      BY <3>1, <3>2, ReopenedCounts DEF TypeOK
    <3>6. session \in 1..minted
      BY <2>2 DEF TimelineInv, SessionsMinted, TypeOK
    <3> QED
      BY <2>2, <3>1, <3>2, <3>3, <3>4, <3>5, <3>6 DEF Start
  <2> QED
    BY <2>1, <2>2
<1>4. RightStory(events)'
  BY <1>3, StoryGrows DEF StoryInv, TypeOK
<1>5. /\ Len(events') = Len(events) + 1 /\ events'[Len(events) + 1] = e
      /\ \A i \in 1..Len(events) : events'[i] = events[i]
      /\ Len(events) \in Nat
  BY <1>3, AppendKeeps DEF TypeOK
<1>6. EventsMinted'
  BY <1>3, <1>5 DEF StoryInv, EventsMinted, TypeOK
<1>7. Len(events') \in Told(events', session')
  BY <1>3, <1>5, ToldGrows DEF TypeOK
<1>8. events'[Len(events')].type # "ended"
  BY <1>3, <1>5 DEF Start
<1>9. StoryStands'
  BY <1>1, <1>3, <1>7, <1>8, NoRequestAssumption DEF StoryStands
<1> QED
  BY <1>2, <1>4, <1>6, <1>9 DEF StoryInv

\* Nothing was told at first.
LEMMA StoryInit == Init => StoryInv
  BY DEF Init, StoryInv, RightStory, StoryStands, Configured, EventsMinted

\* Every step keeps the story right.
LEMMA StoryStep ==
    ASSUME TypeOK, TimelineInv, StoryInv, [Next]_vars
    PROVE  StoryInv'
<1> USE DEF lifecycle, Answer
<1>1. CASE UNCHANGED <<configured, session, reconnects, minted, active, endedFlag, events, handler>>
  BY <1>1, StoryQuiet DEF StoryInv, Configured
<1>2. CASE Connect
  BY <1>2, StoryQuiet DEF Connect, Configured
<1>3. CASE Disconnect
  BY <1>3, StoryDisconnect
<1>4. ASSUME NEW r \in Requests,
             AnswerUnavailable(r) \/ AnswerBusy(r) \/ AnswerNoPassword(r)
             \/ StartLookup(r) \/ LookupFails(r) \/ WrongPassword(r)
      PROVE  StoryInv'
  <2>1. UNCHANGED <<configured, session, reconnects, minted, active, endedFlag, events>>
    BY <1>4 DEF AnswerUnavailable, AnswerBusy, AnswerNoPassword, StartLookup,
                LookupFails, WrongPassword
  <2>2. \A q \in Requests : handler'[q] = "resolving" => configured
    BY <1>4 DEF AnswerUnavailable, AnswerBusy, AnswerNoPassword, StartLookup,
                LookupFails, WrongPassword, StoryInv, Configured, TypeOK
  <2> QED
    BY <2>1, <2>2, StoryQuiet DEF Configured
<1>5. ASSUME NEW r \in Requests, Accept(r)
      PROVE  StoryInv'
  BY <1>5, StoryAccept
<1>6. ASSUME NEW r \in Requests, OnEnd(r) \/ OnError(r)
      PROVE  StoryInv'
  <2>1. UNCHANGED <<configured, session, reconnects, minted, handler>>
    BY <1>6 DEF OnEnd, OnError
  <2>2. CASE Closing(r)
    <3>1. \E reason \in {"clean_disconnect", "error"} : EndLeg(reason)
      BY <1>6, <2>2 DEF OnEnd, OnError
    <3> QED
      BY <2>1, <3>1, StoryEndLeg
  <2>3. CASE ~Closing(r)
    <3>1. UNCHANGED <<active, events, endedFlag>>
      BY <1>6, <2>3 DEF OnEnd, OnError
    <3> QED
      BY <2>1, <3>1, <1>1
  <2> QED
    BY <2>2, <2>3
<1> QED
  BY <1>1, <1>2, <1>3, <1>4, <1>5, <1>6
  DEF Next, vars, EncoderCloses, EncoderAborts, OnData

LEMMA StoryInvariant == Spec => []StoryInv
<1>1. TypeOK /\ TimelineInv /\ StoryInv /\ [Next]_vars => StoryInv'
  BY StoryStep
<1>2. TypeOK /\ TimelineInv /\ [Next]_vars => TimelineInv'
  BY TimelineStep
<1> QED
  BY <1>1, <1>2, StoryInit, TimelineInit, TypeCorrect, PTL DEF Spec

\* Every reconnect and every end carries the number of reconnects the session
\* has had, whatever the resolver lets happen during a lookup.
THEOREM CountsCorrect == Spec => []ReconnectsCounted
<1>1. StoryInv => ReconnectsCounted
  BY DEF StoryInv, RightStory, Counted, Before, Again, ReconnectsCounted
<1> QED
  BY <1>1, StoryInvariant, PTL

\* No connection leg is reported ended twice (the flag of line 86).
THEOREM EndsOnce == Spec => []NoDuplicateEnd
<1>1. StoryInv => NoDuplicateEnd
  BY DEF StoryInv, RightStory, EndsALeg, NoDuplicateEnd
<1> QED
  BY <1>1, StoryInvariant, PTL

\* A session without a connection was reported ended (lines 369-383).
THEOREM IdleReported == Spec => []IdleIsReported
<1>1. TypeOK /\ StoryInv => IdleIsReported
  BY DEF TypeOK, StoryInv, StoryStands, Told, IdleIsReported
<1> QED
  BY <1>1, StoryInvariant, TypeCorrect, PTL

-----------------------------------------------------------------------------
(***************************************************************************)
(* The requests.  With a resolver that yields, other callbacks run while a *)
(* lookup is under way; three things may then be the case that main.ts's   *)
(* stub rules out, and each breaks a promise of its own.                   *)
(***************************************************************************)

\* No second lookup starts while one is under way.
OneLookup ==
    \A r, s \in Requests :
        handler[r] = "resolving" /\ handler[s] = "resolving" => r = s

\* fnDisconnect does not run while a lookup is under way.
LookupsReady == \A r \in Requests : handler[r] = "resolving" => ready

\* No encoder breaks off while its lookup is under way.
LookupsHeard == \A r \in Requests : handler[r] = "resolving" => wire[r] # "silent"

\* With any resolver: the slot is an accepted request's, a request that has not
\* arrived has an untouched stream, and so has one that waits for its password
\* but for what its encoder did.
Waiting ==
    /\ active # NoRequest => handler[active] = "accepted"
    /\ \A r \in Requests :
          /\ handler[r] = "absent" => wire[r] = "open"
          /\ handler[r] = "resolving" => wire[r] \in {"open", "ended", "silent"}

\* What one request's handler does is seen of that request only.
LEMMA HandlerMoves ==
    ASSUME TypeOK, NEW r \in Requests, NEW a,
           handler' = [handler EXCEPT ![r] = a]
    PROVE  handler'[r] = a /\ \A s \in Requests : s # r => handler'[s] = handler[s]
  BY DEF TypeOK

\* So is what its stream does.
LEMMA WireMoves ==
    ASSUME TypeOK, NEW r \in Requests, NEW w,
           wire' = [wire EXCEPT ![r] = w]
    PROVE  wire'[r] = w /\ \A s \in Requests : s # r => wire'[s] = wire[s]
  BY DEF TypeOK

\* The three answers given before the lookup, as one.
Refused(r) ==
    /\ Arrives(r)
    /\ \E a \in {"unavailable", "busy", "unauthorized"} : Answer(r, a)

\* The two answers after it.
TurnedAway(r) ==
    /\ handler[r] = "resolving"
    /\ \E a \in {"failed", "unauthorized"} : Answer(r, a)

\* Both streams' ends of the encoder's side.
EncoderLeaves(r) == EncoderCloses(r) \/ EncoderAborts(r)

\* Both terminal listeners.
Terminal(r) == OnEnd(r) \/ OnError(r)

\* The kinds of step that concern the requests.
LEMMA StepKinds ==
    ASSUME [Next]_vars
    PROVE  \/ Connect
           \/ Disconnect
           \/ \E r \in Requests : Refused(r)
           \/ \E r \in Requests : StartLookup(r)
           \/ \E r \in Requests : TurnedAway(r)
           \/ \E r \in Requests : Accept(r)
           \/ \E r \in Requests : EncoderLeaves(r)
           \/ \E r \in Requests : OnData(r)
           \/ \E r \in Requests : Terminal(r)
           \/ UNCHANGED vars
<1>1. ASSUME NEW r \in Requests,
             AnswerUnavailable(r) \/ AnswerBusy(r) \/ AnswerNoPassword(r)
      PROVE  Refused(r)
  BY <1>1 DEF AnswerUnavailable, AnswerBusy, AnswerNoPassword, Refused
<1>2. ASSUME NEW r \in Requests, LookupFails(r) \/ WrongPassword(r)
      PROVE  TurnedAway(r)
  BY <1>2 DEF LookupFails, WrongPassword, TurnedAway
<1> QED
  BY <1>1, <1>2 DEF Next, EncoderLeaves, Terminal

\* Every step keeps Waiting, whatever the resolver lets happen.
LEMMA WaitingStep ==
    ASSUME TypeOK, Waiting, [Next]_vars
    PROVE  Waiting'
<1>1. CASE Connect \/ UNCHANGED vars
  BY <1>1 DEF Connect, vars, Waiting
<1>2. CASE Disconnect
  <2>1. /\ active' = NoRequest /\ handler' = handler
        /\ \A r \in Requests : r # active => wire'[r] = wire[r]
    BY <1>2 DEF Disconnect
  <2> QED
    BY <2>1 DEF Waiting
<1>3. ASSUME NEW r \in Requests, Refused(r) \/ TurnedAway(r) \/ StartLookup(r)
      PROVE  Waiting'
  <2>1. PICK a \in HandlerStates \ {"absent", "accepted"} :
           /\ handler' = [handler EXCEPT ![r] = a]
           /\ a = "resolving" => handler[r] = "absent"
    BY <1>3 DEF Refused, TurnedAway, StartLookup, Answer, Arrives, HandlerStates
  <2>2. wire' = wire /\ active' = active /\ handler[r] # "accepted"
    BY <1>3 DEF Refused, TurnedAway, StartLookup, Answer, Arrives
  <2> QED
    BY <2>1, <2>2, HandlerMoves DEF Waiting, TypeOK
<1>4. ASSUME NEW r \in Requests, Accept(r)
      PROVE  Waiting'
  BY <1>4, HandlerMoves DEF Accept, Waiting
<1>5. ASSUME NEW r \in Requests, EncoderLeaves(r)
      PROVE  Waiting'
  <2>1. /\ handler' = handler /\ active' = active
        /\ handler[r] \in {"resolving", "accepted"}
    BY <1>5 DEF EncoderLeaves, EncoderCloses, EncoderAborts
  <2>2. /\ handler[r] = "resolving" => wire'[r] \in {"ended", "silent"}
        /\ \A s \in Requests : s # r => wire'[s] = wire[s]
    BY <1>5, WireMoves DEF EncoderLeaves, EncoderCloses, EncoderAborts
  <2> QED
    BY <2>1, <2>2 DEF Waiting
<1>6. ASSUME NEW r \in Requests, OnData(r)
      PROVE  Waiting'
  BY <1>6 DEF OnData, Waiting
<1>7. ASSUME NEW r \in Requests, Terminal(r)
      PROVE  Waiting'
  <2>1. /\ handler' = handler /\ handler[r] = "accepted"
        /\ wire' = [wire EXCEPT ![r] = "silent"]
        /\ active' \in {active, NoRequest}
    BY <1>7 DEF Terminal, OnEnd, OnError, EndLeg
  <2> QED
    BY <2>1, WireMoves DEF Waiting
<1> QED
  BY <1>1, <1>2, <1>3, <1>4, <1>5, <1>6, <1>7, StepKinds

LEMMA WaitingAlways == Spec => []Waiting
<1>1. Init => Waiting
  BY DEF Init, Waiting
<1> QED
  BY <1>1, WaitingStep, TypeCorrect, PTL DEF Spec

\* With a resolver that does not yield, nothing happens during a lookup.
Undisturbed == OneLookup /\ LookupsReady /\ \A r \in Requests :
                   handler[r] = "resolving" => wire[r] = "open"

LEMMA UndisturbedStep ==
    ASSUME ~ResolverYields, TypeOK, Waiting, Undisturbed, [Next]_vars
    PROVE  Undisturbed'
<1> USE DEF Undisturbed, OneLookup, LookupsReady
<1>1. CASE LoopFree /\ handler' = handler
  <2>1. \A r \in Requests : handler'[r] # "resolving"
    BY <1>1 DEF LoopFree
  <2> QED
    BY <2>1
<1>2. ASSUME NEW r \in Requests, Refused(r) \/ TurnedAway(r) \/ Accept(r)
      PROVE  Undisturbed'
  <2>1. PICK a \in HandlerStates \ {"resolving"} : handler' = [handler EXCEPT ![r] = a]
    BY <1>2 DEF Refused, TurnedAway, Accept, Answer, HandlerStates
  <2>2. wire' = wire /\ ready' = ready
    BY <1>2 DEF Refused, TurnedAway, Accept, Answer
  <2> QED
    BY <2>1, <2>2, HandlerMoves
<1>3. ASSUME NEW r \in Requests, StartLookup(r)
      PROVE  Undisturbed'
  <2>1. /\ handler' = [handler EXCEPT ![r] = "resolving"]
        /\ wire' = wire /\ ready' /\ wire[r] = "open"
        /\ \A s \in Requests : handler[s] # "resolving"
    BY <1>3 DEF StartLookup, Answer, Arrives, LoopFree, Waiting
  <2> QED
    BY <2>1, HandlerMoves
<1>4. CASE UNCHANGED vars
  BY <1>4 DEF vars
<1> QED
  BY <1>1, <1>2, <1>3, <1>4, StepKinds
  DEF Connect, Disconnect, EncoderLeaves, EncoderCloses, EncoderAborts, OnData,
      Terminal, OnEnd, OnError

LEMMA UndisturbedAlways ==
    ASSUME ~ResolverYields
    PROVE  Spec => []Undisturbed
<1>1. Init => Undisturbed
  BY DEF Init, Undisturbed, OneLookup, LookupsReady
<1>2. TypeOK /\ Waiting /\ Undisturbed /\ [Next]_vars => Undisturbed'
  BY UndisturbedStep
<1> QED
  BY <1>1, <1>2, WaitingAlways, TypeCorrect, PTL DEF Spec

-----------------------------------------------------------------------------
(***************************************************************************)
(* Legs.  OneSource is not inductive: that a second request is refused     *)
(* depends on the slot being taken as long as its request can still        *)
(* deliver something, and on no other lookup having seen the slot free in  *)
(* the meantime.                                                           *)
(***************************************************************************)

\* The active request was accepted, and its leg is open.
ActiveIsOpen ==
    active # NoRequest => handler[active] = "accepted" /\ session # 0 /\ ~endedFlag

\* A lookup is under way only on a free slot.
LookupFree ==
    \A r \in Requests : handler[r] = "resolving" => active = NoRequest /\ configured

\* A session without a leg has reported its end, and its count is the one of
\* the last event; no session, no count.
SessionReported ==
    /\ session # 0 =>
        /\ configured
        /\ active = NoRequest => endedFlag
        /\ events # <<>>
        /\ events[Len(events)].count = reconnects
    /\ session = 0 => reconnects = 0

LegsInv == OneSource /\ ActiveIsOpen /\ LookupFree /\ SessionReported

\* No request has arrived at first.
LEMMA LegsInit == Init => LegsInv
  BY DEF Init, LegsInv, OneSource, ActiveIsOpen, LookupFree, SessionReported

\* fnConnect touches no connection, audio neither.
LEMMA LegsElsewhere ==
    ASSUME LegsInv, configured => configured',
           UNCHANGED <<session, reconnects, active, endedFlag, handler, wire, events>>
    PROVE  LegsInv'
  BY DEF LegsInv, OneSource, ActiveIsOpen, LookupFree, SessionReported

\* The active stream is destroyed, and the session forgotten.
LEMMA LegsDisconnect ==
    ASSUME TypeOK, LegsInv, Disconnect
    PROVE  LegsInv'
<1>1. /\ active' = NoRequest /\ session' = 0 /\ reconnects' = 0
      /\ handler' = handler /\ configured' = configured
  BY DEF Disconnect, Reset
<1>2. \A r \in Requests : wire'[r] = IF r = active /\ wire[r] # "silent"
                                     THEN "destroyed" ELSE wire[r]
  BY DEF Disconnect, Reset
<1>3. OneSource'
  BY <1>1, <1>2 DEF LegsInv, OneSource
<1>4. ActiveIsOpen' /\ SessionReported'
  BY <1>1 DEF ActiveIsOpen, SessionReported
<1>5. LookupFree'
  BY <1>1 DEF LegsInv, LookupFree
<1> QED
  BY <1>3, <1>4, <1>5 DEF LegsInv

\* A request that is answered without being accepted, or whose lookup starts,
\* leaves the slot alone.
LEMMA LegsAnswer ==
    ASSUME TypeOK, LegsInv, NEW r \in Requests,
           Refused(r) \/ TurnedAway(r) \/ StartLookup(r)
    PROVE  LegsInv'
<1>1. /\ UNCHANGED <<configured, session, reconnects, active, endedFlag, wire, events>>
      /\ handler[r] # "accepted"
  BY DEF Refused, TurnedAway, StartLookup, Answer, Arrives, lifecycle
<1>2. PICK a \in HandlerStates \ {"accepted"} :
         /\ handler' = [handler EXCEPT ![r] = a]
         /\ a = "resolving" => active = NoRequest /\ configured
  BY DEF Refused, TurnedAway, StartLookup, Answer, SlotTaken, HandlerStates
<1>3. handler'[r] = a /\ \A s \in Requests : s # r => handler'[s] = handler[s]
  BY <1>2, HandlerMoves
<1>4. OneSource'
  BY <1>1, <1>3 DEF LegsInv, OneSource
<1>5. ActiveIsOpen'
  BY <1>1, <1>3 DEF LegsInv, ActiveIsOpen, TypeOK
<1>6. LookupFree'
  BY <1>1, <1>2, <1>3 DEF LegsInv, LookupFree
<1>7. SessionReported'
  BY <1>1 DEF LegsInv, SessionReported
<1> QED
  BY <1>4, <1>5, <1>6, <1>7 DEF LegsInv

\* What an acceptance does to the session, in both of its cases.
LEMMA StartSessionTells ==
    ASSUME TypeOK, SessionReported, StartSession
    PROVE  /\ session' # 0
           /\ events' # <<>>
           /\ events'[Len(events')].count = reconnects'
           /\ session' \in Nat
<1>1. CASE session = 0
  <2>1. minted' = minted + 1 /\ session' = minted + 1 /\ reconnects' = 0
    BY <1>1 DEF StartSession, SessionReported
  <2>2. events' = Append(events, CreatedEvent(session'))
    BY <1>1, Zenon DEF StartSession
  <2>3. CreatedEvent(session') \in Event /\ CreatedEvent(session').count = 0
    BY <2>1 DEF CreatedEvent, Event, TypeOK
  <2> QED
    BY <2>1, <2>2, <2>3, AppendKeeps DEF TypeOK
<1>2. CASE session # 0
  <2>1. /\ session' = session /\ reconnects' = reconnects + 1
        /\ events' = Append(events, ReconnectedEvent)
    BY <1>2 DEF StartSession
  <2>2. ReconnectedEvent \in Event /\ ReconnectedEvent.count = reconnects + 1
    BY EventTypes DEF ReconnectedEvent
  <2> QED
    BY <1>2, <2>1, <2>2, AppendKeeps DEF TypeOK
<1> QED
  BY <1>1, <1>2

\* The accepted request takes a slot nobody holds, and nobody else is about to
\* take: here OneLookup is needed.
LEMMA LegsAccept ==
    ASSUME TypeOK, LegsInv, OneLookup, NEW r \in Requests, Accept(r)
    PROVE  LegsInv'
<1>1. /\ handler' = [handler EXCEPT ![r] = "accepted"] /\ active' = r
      /\ ~endedFlag' /\ wire' = wire /\ configured' = configured
      /\ StartSession /\ handler[r] = "resolving"
  BY DEF Accept
<1>2. /\ active = NoRequest /\ configured
      /\ \A s \in Requests : handler[s] = "resolving" => s = r
  BY <1>1 DEF LegsInv, LookupFree, OneLookup
<1>3. handler'[r] = "accepted" /\ \A s \in Requests : s # r => handler'[s] = handler[s]
  BY <1>1, HandlerMoves
<1>4. session' # 0 /\ events' # <<>> /\ events'[Len(events')].count = reconnects'
  BY <1>1, StartSessionTells DEF LegsInv
<1>5. OneSource'
  BY <1>1, <1>2, <1>3 DEF LegsInv, OneSource
<1>6. ActiveIsOpen'
  BY <1>1, <1>3, <1>4 DEF ActiveIsOpen
<1>7. LookupFree'
  BY <1>2, <1>3 DEF LookupFree
<1>8. SessionReported'
  BY <1>1, <1>2, <1>4 DEF SessionReported
<1> QED
  BY <1>5, <1>6, <1>7, <1>8 DEF LegsInv

\* An encoder that goes away leaves the slot as it is.
LEMMA LegsEncoder ==
    ASSUME TypeOK, LegsInv, NEW r \in Requests, EncoderLeaves(r)
    PROVE  LegsInv'
<1>1. /\ wire[r] = "open" /\ \A s \in Requests : s # r => wire'[s] = wire[s]
      /\ UNCHANGED <<configured, session, reconnects, active, endedFlag, handler, events>>
  BY WireMoves DEF EncoderLeaves, EncoderCloses, EncoderAborts, lifecycle
<1>2. OneSource'
  BY <1>1 DEF LegsInv, OneSource
<1>3. ActiveIsOpen' /\ LookupFree' /\ SessionReported'
  BY <1>1 DEF LegsInv, ActiveIsOpen, LookupFree, SessionReported
<1> QED
  BY <1>2, <1>3 DEF LegsInv

\* What both terminal listeners do, for whatever reason.
LegOver(r) ==
    /\ handler[r] = "accepted"
    /\ wire' = [wire EXCEPT ![r] = "silent"]
    /\ UNCHANGED <<configured, ready, session, reconnects, handler>>
    /\ \/ active # r /\ UNCHANGED <<active, events, endedFlag>>
       \/ \E reason \in {"clean_disconnect", "error"} : active = r /\ EndLeg(reason)

\* Both terminal listeners are leg ends in the sense of LegOver.
LEMMA TerminalListener ==
    ASSUME NEW r \in Requests, OnEnd(r) \/ OnError(r)
    PROVE  LegOver(r)
  BY DEF OnEnd, OnError, LegOver, Closing, lifecycle

\* The event that ends a leg carries the session's count.
LEMMA EndLegTells ==
    ASSUME TypeOK, NEW reason \in {"clean_disconnect", "error"}, EndLeg(reason), EndDue
    PROVE  /\ events' = Append(events, EndedEvent(reason))
           /\ events' # <<>>
           /\ events'[Len(events')].count = reconnects
           /\ endedFlag'
<1>1. events' = Append(events, EndedEvent(reason)) /\ endedFlag'
  BY Zenon DEF EndLeg
<1>2. EndedEvent(reason) \in Event /\ EndedEvent(reason).count = reconnects
  BY EventTypes DEF EndedEvent
<1> QED
  BY <1>1, <1>2, AppendKeeps DEF TypeOK

\* The terminal listener of the active request frees the slot and reports the
\* end; that of any other request changes nothing.
LEMMA LegsTerminal ==
    ASSUME TypeOK, LegsInv, NEW r \in Requests, Terminal(r)
    PROVE  LegsInv'
<1>1. LegOver(r)
  BY TerminalListener DEF Terminal
<1>2. /\ wire'[r] = "silent"
      /\ \A s \in Requests : s # r => wire'[s] = wire[s]
      /\ handler' = handler
      /\ handler[r] = "accepted"
  BY <1>1 DEF LegOver, TypeOK
<1>3. CASE active # r /\ UNCHANGED <<active, events, endedFlag>>
  <2>1. OneSource'
    BY <1>2, <1>3 DEF LegsInv, OneSource
  <2>2. ActiveIsOpen' /\ LookupFree' /\ SessionReported'
    BY <1>1, <1>2, <1>3
    DEF LegsInv, ActiveIsOpen, LookupFree, SessionReported, LegOver
  <2> QED
    BY <2>1, <2>2 DEF LegsInv
<1>4. ASSUME NEW reason \in {"clean_disconnect", "error"}, active = r, EndLeg(reason)
      PROVE  LegsInv'
  <2>1. active' = NoRequest
    BY <1>4 DEF EndLeg
  <2>2. OneSource'
    BY <1>2, <1>4, <2>1 DEF LegsInv, OneSource
  <2>3. ActiveIsOpen'
    BY <2>1 DEF ActiveIsOpen
  <2>4. LookupFree'
    BY <1>2, <1>4, NoRequestAssumption DEF LegsInv, LookupFree
  <2>5. EndDue /\ session # 0 /\ configured
    BY <1>4, NoRequestAssumption DEF LegsInv, ActiveIsOpen, SessionReported, EndDue
  <2>6. SessionReported'
    BY <1>1, <1>4, <2>5, EndLegTells DEF SessionReported, LegOver
  <2> QED
    BY <2>2, <2>3, <2>4, <2>6 DEF LegsInv
<1> QED
  BY <1>1, <1>3, <1>4 DEF LegOver

\* Every step keeps LegsInv while lookups do not overlap.
LEMMA LegsStep ==
    ASSUME TypeOK, LegsInv, OneLookup, [Next]_vars
    PROVE  LegsInv'
<1>1. CASE Connect
  BY <1>1, LegsElsewhere DEF Connect, lifecycle
<1>2. ASSUME NEW r \in Requests, OnData(r)
      PROVE  LegsInv'
  BY <1>2, LegsElsewhere DEF OnData
<1>3. CASE UNCHANGED vars
  BY <1>3, LegsElsewhere DEF vars, lifecycle
<1> QED
  BY <1>1, <1>2, <1>3, StepKinds, LegsDisconnect, LegsAnswer, LegsAccept, LegsEncoder,
     LegsTerminal

\* With any resolver: as long as no two lookups are under way together, two
\* encoders never write into one session, whatever else happens meanwhile.
THEOREM OneLookupOneSource == Spec /\ []OneLookup => []OneSource
<1>1. LegsInv => OneSource
  BY DEF LegsInv
<1> QED
  BY <1>1, LegsInit, LegsStep, TypeCorrect, PTL DEF Spec

\* With a resolver that does not yield, two encoders never write into one
\* session, however many requests arrive and whenever they end.
THEOREM SingleSource ==
    ASSUME ~ResolverYields
    PROVE  Spec => []OneSource
<1>1. Undisturbed => OneLookup
  BY DEF Undisturbed
<1> QED
  BY <1>1, UndisturbedAlways, OneLookupOneSource, PTL

-----------------------------------------------------------------------------
(***************************************************************************)
(* Silence after fnDisconnect, and the slot.                               *)
(***************************************************************************)

\* An adapter that is not ready has no source and no session.
Quiet == ~ready => active = NoRequest /\ session = 0

LEMMA QuietStep ==
    ASSUME Quiet, LookupsReady, [Next]_vars
    PROVE  Quiet'
<1> USE DEF Quiet
<1>1. CASE Connect \/ Disconnect
  BY <1>1 DEF Connect, Disconnect, Reset
<1>2. ASSUME NEW r \in Requests, Refused(r) \/ TurnedAway(r) \/ StartLookup(r)
      PROVE  Quiet'
  BY <1>2 DEF Refused, TurnedAway, StartLookup, Answer, lifecycle
<1>3. ASSUME NEW r \in Requests, Accept(r)
      PROVE  Quiet'
  BY <1>3 DEF Accept, LookupsReady
<1>4. ASSUME NEW r \in Requests, EncoderLeaves(r) \/ OnData(r)
      PROVE  Quiet'
  BY <1>4 DEF EncoderLeaves, EncoderCloses, EncoderAborts, OnData, lifecycle
<1>5. ASSUME NEW r \in Requests, Terminal(r)
      PROVE  Quiet'
  BY <1>5 DEF Terminal, OnEnd, OnError, EndLeg, lifecycle
<1>6. CASE UNCHANGED vars
  BY <1>6 DEF vars, lifecycle
<1> QED
  BY <1>1, <1>2, <1>3, <1>4, <1>5, <1>6, StepKinds

\* With any resolver: unless fnDisconnect runs during a lookup, nothing is
\* emitted between fnDisconnect and the next fnConnect (line 159).
THEOREM ReadyLookupsSilent == Spec /\ []LookupsReady => SilentWhenDisconnected
<1>1. Init => Quiet
  BY DEF Init, Quiet
<1>2. Quiet /\ LookupsReady /\ [Next]_vars
      => [~ready /\ ~ready' => UNCHANGED <<events, frames>>]_vars
  <2> SUFFICES ASSUME Quiet, LookupsReady, [Next]_vars, ~ready, ~ready'
               PROVE  UNCHANGED <<events, frames>>
    OBVIOUS
  <2>1. active = NoRequest /\ ~EndDue
    BY Zenon DEF Quiet, EndDue
  <2>2. CASE Connect \/ Disconnect \/ UNCHANGED vars
    BY <2>1, <2>2 DEF Connect, Disconnect, vars
  <2>3. ASSUME NEW r \in Requests,
               Refused(r) \/ TurnedAway(r) \/ StartLookup(r) \/ EncoderLeaves(r)
        PROVE  UNCHANGED <<events, frames>>
    BY <2>3 DEF Refused, TurnedAway, StartLookup, Answer, EncoderLeaves, EncoderCloses,
                EncoderAborts
  <2>4. ASSUME NEW r \in Requests, Accept(r) \/ OnData(r)
        PROVE  FALSE
    BY <2>4 DEF Accept, LookupsReady, OnData, CanEmit
  <2>5. ASSUME NEW r \in Requests, Terminal(r)
        PROVE  UNCHANGED <<events, frames>>
    BY <2>1, <2>5, NoRequestAssumption DEF Terminal, OnEnd, OnError, Closing
  <2> QED
    BY <2>2, <2>3, <2>4, <2>5, StepKinds
<1> QED
  BY <1>1, <1>2, QuietStep, PTL DEF Spec, SilentWhenDisconnected

\* With a resolver that does not yield nothing is emitted between fnDisconnect
\* and the next fnConnect: no lookup is left to be accepted.
THEOREM SilentAfterDisconnect ==
    ASSUME ~ResolverYields
    PROVE  Spec => SilentWhenDisconnected
<1>1. Undisturbed => LookupsReady
  BY DEF Undisturbed
<1> QED
  BY <1>1, UndisturbedAlways, ReadyLookupsSilent, PTL

\* An encoder that is gone and still holds the slot has its 'end' or 'error'
\* ahead, with the listeners that free the slot attached: what SlotFreed rests
\* on besides fairness (lines 349-363).
SlotWillBeFreed ==
    \A r \in Requests :
        active = r /\ wire[r] # "open" =>
            handler[r] = "accepted" /\ wire[r] \in {"ended", "broken"}

\* With any resolver: unless an encoder breaks off during its lookup, no slot is
\* ever held by a connection of which nothing more will be heard.
THEOREM HeardLookupsFree == Spec /\ []LookupsHeard => []SlotWillBeFreed
<1>1. Init => SlotWillBeFreed
  BY NoRequestAssumption DEF Init, SlotWillBeFreed
<1>2. /\ TypeOK /\ Waiting /\ LookupsHeard /\ SlotWillBeFreed /\ [Next]_vars
      => SlotWillBeFreed'
  <2> SUFFICES ASSUME TypeOK, Waiting, LookupsHeard, SlotWillBeFreed, [Next]_vars
               PROVE  SlotWillBeFreed'
    OBVIOUS
  <2>1. CASE Connect \/ UNCHANGED vars
    BY <2>1 DEF Connect, vars, SlotWillBeFreed
  <2>2. CASE Disconnect
    BY <2>2, NoRequestAssumption DEF Disconnect, SlotWillBeFreed
  <2>3. ASSUME NEW r \in Requests, Refused(r) \/ TurnedAway(r) \/ StartLookup(r)
        PROVE  SlotWillBeFreed'
    <3>1. wire' = wire /\ active' = active /\ handler[r] # "accepted"
      BY <2>3 DEF Refused, TurnedAway, StartLookup, Answer, Arrives
    <3>2. PICK a : handler' = [handler EXCEPT ![r] = a]
      BY <2>3 DEF Refused, TurnedAway, StartLookup, Answer
    <3> QED
      BY <3>1, <3>2, HandlerMoves DEF SlotWillBeFreed
  <2>4. ASSUME NEW r \in Requests, Accept(r)
        PROVE  SlotWillBeFreed'
    <3>1. wire' = wire /\ active' = r /\ wire[r] \in {"open", "ended"}
      BY <2>4 DEF Accept, Waiting, LookupsHeard
    <3>2. handler'[r] = "accepted"
      BY <2>4, HandlerMoves DEF Accept
    <3> QED
      BY <3>1, <3>2 DEF SlotWillBeFreed
  <2>5. ASSUME NEW r \in Requests, EncoderLeaves(r)
        PROVE  SlotWillBeFreed'
    <3>1. handler' = handler /\ active' = active
      BY <2>5 DEF EncoderLeaves, EncoderCloses, EncoderAborts
    <3>2. /\ handler[r] = "accepted" => wire'[r] \in {"ended", "broken"}
          /\ \A s \in Requests : s # r => wire'[s] = wire[s]
      BY <2>5, WireMoves DEF EncoderLeaves, EncoderCloses, EncoderAborts
    <3> QED
      BY <3>1, <3>2, NoRequestAssumption DEF SlotWillBeFreed, Waiting
  <2>6. ASSUME NEW r \in Requests, OnData(r)
        PROVE  SlotWillBeFreed'
    BY <2>6 DEF OnData, SlotWillBeFreed
  <2>7. ASSUME NEW r \in Requests, Terminal(r)
        PROVE  SlotWillBeFreed'
    <3>1. /\ handler' = handler /\ wire' = [wire EXCEPT ![r] = "silent"]
          /\ active' = IF active = r THEN NoRequest ELSE active
      BY <2>7 DEF Terminal, OnEnd, OnError, Closing, EndLeg
    <3> QED
      BY <3>1, WireMoves, NoRequestAssumption DEF SlotWillBeFreed
  <2> QED
    BY <2>1, <2>2, <2>3, <2>4, <2>5, <2>6, <2>7, StepKinds
<1> QED
  BY <1>1, <1>2, WaitingAlways, TypeCorrect, PTL DEF Spec

\* With a resolver that does not yield, every encoder that goes away has its
\* listener waiting: the safety half of SlotFreed.
THEOREM SlotsFree ==
    ASSUME ~ResolverYields
    PROVE  Spec => []SlotWillBeFreed
<1>1. Undisturbed => LookupsHeard
  BY DEF Undisturbed, LookupsHeard
<1> QED
  BY <1>1, UndisturbedAlways, HeardLookupsFree, PTL

-----------------------------------------------------------------------------
(***************************************************************************)
(* The contract.  Each step of the adapter is one step of                  *)
(* ContributionSession, or changes nothing the contract sees.              *)
(***************************************************************************)
LEMMA ContractAccept ==
    ASSUME TypeOK, LegsInv, TimelineInv, NEW r \in Requests, Accept(r)
    PROVE  Contract!Next
<1>1. /\ active = NoRequest /\ active' = r /\ frames' = frames
  BY DEF Accept, LegsInv, LookupFree
<1>2. CASE session = 0
  <2>1. /\ minted' = minted + 1 /\ session' = minted + 1
        /\ events' = Append(events, CreatedEvent(session'))
    BY <1>2, Zenon DEF Accept, StartSession
  <2>2. (session # 0)' /\ ~(session # 0)
    BY <1>2, <2>1 DEF TypeOK
  <2>3. Contract!Begin(r)
    BY <1>1, <1>2, <2>1, <2>2 DEF Contract!Begin, Contract!Tell, CreatedEvent
  <2> QED
    BY <2>3 DEF Contract!Next
<1>3. CASE session # 0
  <2>1. /\ session' = session /\ minted' = minted
        /\ events' = Append(events, ReconnectedEvent)
    BY <1>3 DEF Accept, StartSession
  <2>2. session = minted /\ events[Len(events)].count = reconnects
    BY <1>3 DEF LegsInv, SessionReported, TimelineInv, SessionsMinted
  <2>3. (session # 0)' = (session # 0)
    BY <2>1
  <2>4. Contract!Resume(r)
    BY <1>1, <1>3, <2>1, <2>2, <2>3
    DEF Contract!Resume, Contract!Tell, Contract!Count, ReconnectedEvent
  <2> QED
    BY <2>4 DEF Contract!Next
<1> QED
  BY <1>2, <1>3

\* A frame of the adapter is a frame of the contract.
LEMMA ContractOnData ==
    ASSUME TypeOK, LegsInv, TimelineInv, NEW r \in Requests, OnData(r)
    PROVE  Contract!Next
<1>1. PICK d \in FrameDurations : frames' = Append(frames, NewFrame(r, d))
  BY DEF OnData
<1>2. /\ session # 0 /\ session' = session /\ minted' = minted
      /\ active' = active /\ events' = events
  BY DEF OnData, CanEmit
<1>3. active = r /\ session = minted
  BY <1>2 DEF OnData, LegsInv, OneSource, TimelineInv, SessionsMinted
<1>4. Contract!Continues <=> OnTimeline
  BY <1>3 DEF Contract!Continues, OnTimeline
<1>5. CASE OnTimeline
  <2>1. /\ seqNo = frames[Len(frames)].seqNo + 1
        /\ offset = frames[Len(frames)].offset + frames[Len(frames)].duration
    BY <1>5 DEF TimelineInv, ClockStands
  <2>2. Contract!Emit(d)
    BY <1>1, <1>2, <1>3, <1>4, <1>5, <2>1, NoRequestAssumption
    DEF Contract!Emit, NewFrame
  <2> QED
    BY <2>2 DEF Contract!Next
<1>6. CASE ~OnTimeline
  <2>1. seqNo = 0 /\ offset = 0
    BY <1>6 DEF TimelineInv, ClockStands
  <2>2. Contract!Emit(d)
    BY <1>1, <1>2, <1>3, <1>4, <1>6, <2>1, NoRequestAssumption
    DEF Contract!Emit, NewFrame
  <2> QED
    BY <2>2 DEF Contract!Next
<1> QED
  BY <1>5, <1>6

\* The end of the active leg suspends the contract's session; the late event
\* of any other request is a stutter.
LEMMA ContractTerminal ==
    ASSUME TypeOK, LegsInv, TimelineInv, NEW r \in Requests, OnEnd(r) \/ OnError(r)
    PROVE  Contract!Next \/ UNCHANGED Contract!vars
<1>1. LegOver(r)
  BY TerminalListener
<1>2. UNCHANGED <<session, minted, frames>>
  BY DEF OnEnd, OnError, lifecycle
<1>3. CASE active # r /\ UNCHANGED <<active, events, endedFlag>>
  BY <1>2, <1>3 DEF Contract!vars
<1>4. ASSUME NEW reason \in {"clean_disconnect", "error"}, active = r, EndLeg(reason)
      PROVE  Contract!Suspend(reason)
  <2>1. /\ EndDue /\ session # 0 /\ active' = NoRequest
        /\ events[Len(events)].count = reconnects
    BY <1>4, NoRequestAssumption
    DEF LegsInv, ActiveIsOpen, SessionReported, EndDue, EndLeg
  <2>2. events' = Append(events, EndedEvent(reason))
    BY <1>4, <2>1, EndLegTells
  <2>3. session = minted
    BY <2>1 DEF TimelineInv, SessionsMinted
  <2> QED
    BY <1>2, <1>4, <2>1, <2>2, <2>3, NoRequestAssumption
    DEF Contract!Suspend, Contract!Tell, Contract!Count, EndedEvent
<1> QED
  BY <1>1, <1>3, <1>4 DEF LegOver, Contract!Next

\* fnDisconnect closes the contract's session, or stutters without one.
LEMMA ContractDisconnect ==
    ASSUME TypeOK, LegsInv, TimelineInv, Disconnect
    PROVE  Contract!Next \/ UNCHANGED Contract!vars
<1>1. /\ active' = NoRequest /\ session' = 0 /\ UNCHANGED <<minted, frames>>
      /\ events' = IF EndDue THEN Append(events, EndedEvent("clean_disconnect"))
                             ELSE events
  BY Zenon DEF Disconnect, Reset
<1>2. CASE session = 0
  <2>1. active = NoRequest /\ ~EndDue
    BY <1>2 DEF LegsInv, ActiveIsOpen, EndDue
  <2> QED
    BY <1>1, <1>2, <2>1 DEF Contract!vars
<1>3. CASE session # 0
  <2>1. session = minted /\ events[Len(events)].count = reconnects /\ configured
    BY <1>3 DEF LegsInv, SessionReported, TimelineInv, SessionsMinted
  <2>2. EndDue <=> active # NoRequest
    BY <1>3, <2>1 DEF LegsInv, ActiveIsOpen, SessionReported, EndDue
  <2>3. Contract!Close
    <3>1. CASE active # NoRequest
      BY <1>1, <1>3, <2>1, <2>2, <3>1
      DEF Contract!Close, Contract!Tell, Contract!Count, EndedEvent
    <3>2. CASE active = NoRequest
      BY <1>1, <1>3, <2>1, <2>2, <3>2 DEF Contract!Close
    <3> QED
      BY <3>1, <3>2
  <2> QED
    BY <2>3 DEF Contract!Next
<1> QED
  BY <1>2, <1>3

\* With any resolver: as long as no two lookups are under way together, the
\* adapter implements the contract, even if fnDisconnect runs or an encoder goes
\* away during a lookup.
THEOREM OneLookupContract == Spec /\ []OneLookup => ImplementsContract
<1>1. Init => Contract!Init
  BY DEF Init, Contract!Init
<1>2. /\ TypeOK /\ LegsInv /\ TimelineInv /\ [Next]_vars
      => [Contract!Next]_(Contract!vars)
  <2> SUFFICES ASSUME TypeOK, LegsInv, TimelineInv, [Next]_vars
               PROVE  Contract!Next \/ UNCHANGED Contract!vars
    OBVIOUS
  <2>1. CASE UNCHANGED <<session, active, minted, events, frames>>
    BY <2>1 DEF Contract!vars
  <2>2. CASE Disconnect
    BY <2>2, ContractDisconnect
  <2>3. CASE \E r \in Requests : Accept(r)
    BY <2>3, ContractAccept
  <2>4. CASE \E r \in Requests : OnData(r)
    BY <2>4, ContractOnData
  <2>5. CASE \E r \in Requests : OnEnd(r) \/ OnError(r)
    BY <2>5, ContractTerminal
  <2> QED
    BY <2>1, <2>2, <2>3, <2>4, <2>5
    DEF Next, vars, lifecycle, Answer, Connect, AnswerUnavailable, AnswerBusy,
        AnswerNoPassword, StartLookup, LookupFails, WrongPassword,
        EncoderCloses, EncoderAborts
<1>3. TypeOK /\ TimelineInv /\ [Next]_vars => TimelineInv'
  BY TimelineStep
<1> QED
  BY <1>1, <1>2, <1>3, LegsInit, LegsStep, TimelineInit, TypeCorrect, PTL
  DEF Spec, ImplementsContract, Contract!Spec

\* With a resolver that does not yield, the adapter implements the contract:
\* every leg announced before its audio, reported ended once, by its own
\* source only, on one gapless timeline.
THEOREM AdapterImplementsContract ==
    ASSUME ~ResolverYields
    PROVE  Spec => ImplementsContract
<1>1. Undisturbed => OneLookup
  BY DEF Undisturbed
<1> QED
  BY <1>1, UndisturbedAlways, OneLookupContract, PTL
=============================================================================
