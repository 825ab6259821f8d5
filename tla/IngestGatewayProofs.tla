------------------------ MODULE IngestGatewayProofs ------------------------
(***************************************************************************)
(* Proofs about the composition, for any sources, durations, window and    *)
(* bounds, and, unless a theorem says otherwise, for both kinds of stores. *)
(***************************************************************************)
EXTENDS IngestGateway, TLAPS

USE SourcesAssumption, StoresAssumption, WindowAssumption, DurationsAssumption,
    BoundsAssumption

\* Whatever is appended to a sequence, its earlier elements stay.
LEMMA AppendKeeps ==
    ASSUME NEW S, NEW s \in Seq(S), NEW e \in S
    PROVE  /\ Append(s, e) \in Seq(S)
           /\ Len(Append(s, e)) = Len(s) + 1
           /\ Append(s, e)[Len(s) + 1] = e
           /\ Append(s, e) # <<>>
           /\ \A i \in 1..Len(s) : Append(s, e)[i] = s[i]
  OBVIOUS

-----------------------------------------------------------------------------
(***************************************************************************)
(* The wiring.  main.ts connects the adapter once, so there is one session *)
(* until the shutdown; and the manager's last event is the adapter's.      *)
(***************************************************************************)
LifecycleEvent ==
    [type: {"created", "reconnected", "ended"}, session: {1}, count: Nat,
     reason: Manager!Reasons]

OneSession ==
    /\ phase \in {"running", "stopping", "exited"}
    /\ open \in BOOLEAN
    /\ begun \in {0, 1}
    /\ open => begun = 1
    /\ phase = "running" /\ begun = 1 => open
    /\ phase # "running" => ~open
    /\ source # NoSource => open

EventsDelivered ==
    /\ events \in Seq(LifecycleEvent)
    /\ begun = 0 <=> events = <<>>
    /\ handled = Len(events)
    /\ phase = "running" => handled <= MaxEvents
    /\ events = <<>> => last = Manager!NoEvent
    /\ events # <<>> => last = events[Len(events)]
    /\ events # <<>> => (last.type # "ended" <=> source # NoSource)

Wired == OneSession /\ EventsDelivered

\* What the handlers before and behind the adapter's events have in common.
Reports(e) ==
    /\ events' = Append(events, e)
    /\ last' = e
    /\ handled' = handled + 1

\* An event that reaches the manager becomes its last one.
LEMMA Delivered ==
    ASSUME Wired, NEW e \in LifecycleEvent, events' = Append(events, e),
           Manager!HandleEvent(events'[Len(events')])
    PROVE  Reports(e) /\ Manager!HandleEvent(e)
<1>1. events'[Len(events')] = e
  BY AppendKeeps DEF Wired, EventsDelivered
<1> QED
  BY <1>1 DEF Reports, Manager!HandleEvent, Manager!Deliver

\* A reported event keeps the wiring, when the source is what the event says.
LEMMA WiredReports ==
    ASSUME Wired, NEW e \in LifecycleEvent, Reports(e), OneSession', begun' = 1,
           (phase = "running" /\ handled < MaxEvents) \/ phase' # "running",
           e.type # "ended" <=> source' # NoSource
    PROVE  Wired'
<1>1. /\ events' \in Seq(LifecycleEvent) /\ Len(events') = Len(events) + 1
      /\ events'[Len(events')] = e /\ events' # <<>>
      /\ Len(events) \in Nat
  BY AppendKeeps DEF Wired, EventsDelivered, Reports
<1>2. EventsDelivered'
  BY <1>1 DEF Wired, EventsDelivered, Reports
<1> QED
  BY <1>2 DEF Wired

\* The last event of the adapter, once there is one.
LEMMA LastEvent ==
    ASSUME Wired, begun = 1
    PROVE  /\ last \in LifecycleEvent /\ last = events[Len(events)]
           /\ Adapter!Count = last.count
<1>1. events # <<>> /\ events \in Seq(LifecycleEvent)
  BY DEF Wired, EventsDelivered
<1>2. events[Len(events)] \in LifecycleEvent
  BY <1>1
<1> QED
  BY <1>1, <1>2 DEF Wired, EventsDelivered, Adapter!Count

\* The event of a connect: the first leg's, or a further one's.
Connected == IF begun = 0
             THEN [type |-> "created", session |-> 1, count |-> 0, reason |-> "none"]
             ELSE [type |-> "reconnected", session |-> 1, count |-> last.count + 1,
                   reason |-> "none"]

\* The event of the end of a leg.
Disconnected(reason) ==
    [type |-> "ended", session |-> 1, count |-> last.count, reason |-> reason]

LEMMA ConnectEffect ==
    ASSUME Wired, EncoderConnects
    PROVE  /\ Connected \in LifecycleEvent
           /\ Reports(Connected) /\ Manager!HandleEvent(Connected)
           /\ health' = Tracker!AfterEvent(health, Connected, sent)
           /\ source = NoSource /\ source' # NoSource
           /\ open' = TRUE /\ begun' = 1
           /\ UNCHANGED <<frames, assembler, process>>
           /\ phase = "running" /\ handled < MaxEvents
<1>1. PICK src \in Sources : Adapter!Begin(src) \/ Adapter!Resume(src)
  BY DEF EncoderConnects
<1>2. Connected \in LifecycleEvent
  <2>1. CASE begun = 0
    BY <2>1 DEF Connected, LifecycleEvent, Manager!Reasons
  <2>2. CASE begun = 1
    BY <2>2, LastEvent DEF Connected, LifecycleEvent, Manager!Reasons
  <2> QED
    BY <2>1, <2>2 DEF Wired, OneSession
<1>3. /\ events' = Append(events, Connected)
      /\ source = NoSource /\ source' = src /\ open' = TRUE /\ begun' = 1
      /\ UNCHANGED frames
  <2>1. CASE Adapter!Begin(src)
    BY <2>1 DEF Adapter!Begin, Adapter!Tell, Connected, Wired, OneSession, EncoderConnects
  <2>2. CASE Adapter!Resume(src)
    BY <2>2, LastEvent DEF Adapter!Resume, Adapter!Tell, Connected, Wired, OneSession
  <2> QED
    BY <1>1, <2>1, <2>2
<1>4. events'[Len(events')] = Connected
  BY <1>2, <1>3, AppendKeeps DEF Wired, EventsDelivered
<1>5. Manager!HandleEvent(events'[Len(events')])
  BY DEF EncoderConnects, Announce
<1>6. Reports(Connected) /\ Manager!HandleEvent(Connected)
  BY <1>2, <1>3, <1>5, Delivered
<1>7. health' = Tracker!AfterEvent(health, Connected, sent)
  BY <1>4 DEF EncoderConnects, Announce, Notice
<1> QED
  BY <1>1, <1>2, <1>3, <1>6, <1>7 DEF EncoderConnects
\* A leg that ends while the gateway runs.
LEMMA SuspendEffect ==
    ASSUME Wired, NEW reason \in {"clean_disconnect", "error"}, Adapter!Suspend(reason),
           Manager!HandleEvent(events'[Len(events')])
    PROVE  /\ Disconnected(reason) \in LifecycleEvent
           /\ Reports(Disconnected(reason)) /\ Manager!HandleEvent(Disconnected(reason))
           /\ events'[Len(events')] = Disconnected(reason)
           /\ source # NoSource /\ source' = NoSource /\ begun = 1
           /\ UNCHANGED <<open, begun, frames>>
<1>1. /\ source # NoSource /\ source' = NoSource /\ UNCHANGED <<open, begun, frames>>
      /\ begun = 1
  BY DEF Adapter!Suspend, Wired, OneSession
<1>2. Disconnected(reason) \in LifecycleEvent
  BY <1>1, LastEvent DEF Disconnected, LifecycleEvent, Manager!Reasons
<1>3. events' = Append(events, Disconnected(reason))
  BY <1>1, LastEvent DEF Adapter!Suspend, Adapter!Tell, Disconnected
<1>4. events'[Len(events')] = Disconnected(reason)
  BY <1>2, <1>3, AppendKeeps DEF Wired, EventsDelivered
<1> QED
  BY <1>1, <1>2, <1>3, <1>4, Delivered

\* What fnDisconnect at the shutdown does to the adapter: nothing, or the end
\* of the session, or also the end of a running leg.
LEMMA DisconnectsEffect ==
    ASSUME Wired, Disconnects
    PROVE  /\ open' = FALSE /\ source' = NoSource /\ UNCHANGED <<begun, frames>>
           /\ \/ source = NoSource /\ UNCHANGED <<events, manager, health>>
              \/ LET e == Disconnected("clean_disconnect") IN
                 /\ source # NoSource /\ begun = 1
                 /\ e \in LifecycleEvent /\ Reports(e) /\ Manager!HandleEvent(e)
                 /\ health' = Tracker!AfterEvent(health, e, sent)
<1>1. CASE ~open
  BY <1>1 DEF Disconnects, Wired, OneSession, adapter
<1>2. CASE open /\ source = NoSource
  BY <1>2 DEF Disconnects, Adapter!Close
<1>3. CASE open /\ source # NoSource
  <2> DEFINE e == Disconnected("clean_disconnect")
  <2>1. begun = 1
    BY <1>3 DEF Wired, OneSession
  <2>2. e \in LifecycleEvent
    BY <2>1, LastEvent DEF Disconnected, LifecycleEvent, Manager!Reasons
  <2>3. /\ events' = Append(events, e)
        /\ open' = FALSE /\ source' = NoSource /\ UNCHANGED <<begun, frames>>
    BY <1>3, <2>1, LastEvent DEF Disconnects, Adapter!Close, Adapter!Tell, Disconnected
  <2> HIDE DEF e
  <2>4. events'[Len(events')] = e
    BY <2>2, <2>3, AppendKeeps DEF Wired, EventsDelivered
  <2>5. Announce
    BY <1>3 DEF Disconnects
  <2>6. Manager!HandleEvent(events'[Len(events')])
    BY <2>5 DEF Announce
  <2>7. Reports(e) /\ Manager!HandleEvent(e)
    BY <2>2, <2>3, <2>6, Delivered
  <2>8. health' = Tracker!AfterEvent(health, e, sent)
    BY <2>4, <2>5 DEF Announce, Notice
  <2> QED
    BY <1>3, <2>1, <2>2, <2>3, <2>7, <2>8 DEF e
<1> QED
  BY <1>1, <1>2, <1>3

\* Steps that emit no event.
LEMMA WiredQuiet ==
    ASSUME Wired, UNCHANGED <<open, source, begun, events, last, handled>>,
           phase' = phase \/ (phase # "running" /\ phase' = "exited")
    PROVE  Wired'
  BY DEF Wired, OneSession, EventsDelivered

LEMMA WiredInit == Init => Wired
<1> SUFFICES ASSUME Init
             PROVE  Wired
  OBVIOUS
<1> USE DEF Init, Adapter!Init, Manager!Init
<1>1. OneSession
  <2>1. open \in BOOLEAN /\ ~open
    BY Zenon
  <2> QED
    BY <2>1 DEF OneSession
<1>2. EventsDelivered
  BY DEF EventsDelivered
<1> QED
  BY <1>1, <1>2 DEF Wired

\* What a step of a component alone leaves of the rest.
LEMMA QuietSteps ==
    ASSUME FrameArrives \/ HeartbeatTicks
           \/ (\E c \in calls : StoreStep(c) \/ HandlerReturns(c))
           \/ (\E c \in putting : PutReturns(c))
           \/ (\E c \in creating : CreateReturns(c))
           \/ SignalAgain \/ Exit \/ UNCHANGED vars
    PROVE  /\ UNCHANGED <<open, source, begun, events, last, handled>>
           /\ phase' = phase \/ (phase # "running" /\ phase' = "exited")
<1> USE DEF adapter, manager, assembler, process
<1>1. CASE FrameArrives
  BY <1>1 DEF FrameArrives, Adapter!Emit
<1>2. CASE HeartbeatTicks
  BY <1>2 DEF HeartbeatTicks, Manager!Tick, Manager!SendHeartbeat, Manager!delivered
<1>3. ASSUME NEW c \in calls, StoreStep(c)
      PROVE  UNCHANGED <<open, source, begun, events, last, handled, phase>>
  BY <1>3 DEF StoreStep, Manager!StoreAnswers, Manager!StoreFails, Manager!AnswerLost,
              Manager!StoreOnly, Manager!delivered
<1>4. ASSUME NEW c \in calls, HandlerReturns(c)
      PROVE  UNCHANGED <<open, source, begun, events, last, handled, phase>>
  BY <1>4 DEF HandlerReturns, Manager!StartReturns, Manager!EndReturns,
              Manager!HeartbeatReturns, Manager!Answered, Manager!delivered
<1>5. CASE \E c \in putting : PutReturns(c)
  BY <1>5 DEF PutReturns
<1>6. CASE \E c \in creating : CreateReturns(c)
  BY <1>6 DEF CreateReturns
<1>7. CASE SignalAgain \/ Exit
  BY <1>7 DEF SignalAgain, Exit
<1>8. CASE UNCHANGED vars
  BY <1>8 DEF vars
<1> QED
  BY <1>1, <1>2, <1>3, <1>4, <1>5, <1>6, <1>7, <1>8

LEMMA WiredStep ==
    ASSUME Wired, [Next]_vars
    PROVE  Wired'
<1>1. CASE EncoderConnects
  <2>1. OneSession' /\ Connected.type # "ended"
    BY <1>1, ConnectEffect DEF Wired, OneSession, process, Connected
  <2> QED
    BY <1>1, <2>1, ConnectEffect, WiredReports
<1>2. ASSUME NEW reason \in {"clean_disconnect", "error"}, Adapter!Suspend(reason),
             Manager!HandleEvent(events'[Len(events')]),
             handled < MaxEvents, phase = "running", UNCHANGED process
      PROVE  Wired'
  <2>1. OneSession' /\ Disconnected(reason).type = "ended" /\ begun' = 1
    BY <1>2, SuspendEffect DEF Wired, OneSession, process, Disconnected
  <2> QED
    BY <1>2, <2>1, SuspendEffect, WiredReports
<1>3. CASE EncoderCloses
  BY <1>2, <1>3 DEF EncoderCloses, Announce
<1>4. CASE EncoderBreaks
  BY <1>2, <1>4 DEF EncoderBreaks
<1>5. CASE Signal
  <2>1. Disconnects /\ phase' = "stopping" /\ phase = "running"
    BY <1>5 DEF Signal
  <2>2. OneSession'
    BY <2>1, DisconnectsEffect DEF Wired, OneSession
  <2>3. CASE UNCHANGED <<events, manager, health>> /\ source = NoSource
    BY <2>1, <2>2, <2>3, DisconnectsEffect DEF Wired, EventsDelivered, manager
  <2>4. CASE source # NoSource
    <3>1. Disconnected("clean_disconnect").type = "ended"
      BY DEF Disconnected
    <3> QED
      BY <2>1, <2>2, <2>4, <3>1, DisconnectsEffect, WiredReports
  <2> QED
    BY <2>1, <2>3, <2>4, DisconnectsEffect
<1> QED
  BY <1>1, <1>3, <1>4, <1>5, QuietSteps, WiredQuiet DEF Next

LEMMA WiredAlways == Spec => []Wired
  BY WiredInit, WiredStep, PTL DEF Spec

-----------------------------------------------------------------------------
(***************************************************************************)
(* The session manager behind the wiring.  Every event it is given is one  *)
(* of those its module assumes of an adapter.                              *)
(***************************************************************************)
\* An event that is delivered is one the manager's module expects next.
LEMMA ExpectedEvent ==
    ASSUME Wired
    PROVE  /\ source = NoSource => Connected \in Manager!NextEvents
           /\ source # NoSource =>
                 \A reason \in {"clean_disconnect", "error"} :
                    Disconnected(reason) \in Manager!NextEvents
<1>1. CASE begun = 0
  <2>1. last = Manager!NoEvent /\ last.type = "none" /\ last.session = 0 /\ source = NoSource
    BY <1>1 DEF Wired, OneSession, EventsDelivered, Manager!NoEvent
  <2>2. Manager!Created = Connected
    BY <1>1, <2>1 DEF Manager!Created, Connected
  <2>3. Manager!NextEvents = {Manager!Created}
    BY <2>1, Zenon DEF Manager!NextEvents, Manager!Start
  <2> QED
    BY <2>1, <2>2, <2>3
<1>2. CASE begun = 1
  <2>1. last \in LifecycleEvent /\ (last.type # "ended" <=> source # NoSource)
    BY <1>2, LastEvent DEF Wired, EventsDelivered
  <2>2. last.session = 1 /\ last.type \in {"created", "reconnected", "ended"}
    BY <2>1 DEF LifecycleEvent
  <2>3. CASE source = NoSource
    <3>1. last.type = "ended"
      BY <2>1, <2>3
    <3>2. Manager!Reconnected = Connected
      BY <1>2, <2>2 DEF Manager!Reconnected, Connected
    <3>3. Manager!NextEvents = {Manager!Created, Manager!Reconnected}
      BY <3>1, Zenon DEF Manager!NextEvents, Manager!Start
    <3> QED
      BY <2>3, <3>2, <3>3
  <2>4. CASE source # NoSource
    <3>1. last.type \in Manager!Start /\ last.type # "ended" /\ last.type # "none"
      BY <2>1, <2>2, <2>4 DEF Manager!Start
    <3>2. \A reason : Manager!Ended(reason) = Disconnected(reason)
      BY <2>2 DEF Manager!Ended, Disconnected
    <3>3. Manager!NextEvents =
             {Manager!Ended("clean_disconnect"), Manager!Ended("error")}
      BY <3>1, Zenon DEF Manager!NextEvents
    <3> QED
      BY <2>4, <3>2, <3>3
  <2> QED
    BY <2>3, <2>4
<1> QED
  BY <1>1, <1>2 DEF Wired, OneSession

\* Delivering an event of the one session is a step of the manager's module.
LEMMA DeliveryStep ==
    ASSUME Wired, phase = "running", NEW e \in Manager!NextEvents, e.session = 1,
           Manager!HandleEvent(e)
    PROVE  Manager!Next
<1>1. handled < MaxEvents + 1
  BY DEF Wired, EventsDelivered
<1>2. e.session \in Manager!Sessions
  BY DEF Manager!Sessions
<1> QED
  BY <1>1, <1>2 DEF Manager!Next

\* Every step of the gateway is a step of the manager's module, or leaves the
\* manager alone.
LEMMA ManagerStep ==
    ASSUME Wired, [Next]_vars
    PROVE  Manager!Next \/ UNCHANGED manager
<1>1. CASE EncoderConnects
  <2>1. Connected.session = 1
    BY DEF Connected
  <2> QED
    BY <1>1, <2>1, ConnectEffect, ExpectedEvent, DeliveryStep
<1>2. ASSUME NEW reason \in {"clean_disconnect", "error"}, Adapter!Suspend(reason),
             Manager!HandleEvent(events'[Len(events')]), phase = "running"
      PROVE  Manager!Next
  <2>1. Disconnected(reason).session = 1
    BY DEF Disconnected
  <2> QED
    BY <1>2, <2>1, SuspendEffect, ExpectedEvent, DeliveryStep
<1>3. CASE EncoderCloses
  BY <1>2, <1>3 DEF EncoderCloses, Announce
<1>4. CASE EncoderBreaks
  BY <1>2, <1>4 DEF EncoderBreaks
<1>5. CASE Signal
  <2>1. Disconnects /\ phase = "running"
    BY <1>5 DEF Signal
  <2>2. Disconnected("clean_disconnect").session = 1
    BY DEF Disconnected
  <2> QED
    BY <2>1, <2>2, DisconnectsEffect, ExpectedEvent, DeliveryStep
<1>6. CASE HeartbeatTicks
  BY <1>6 DEF HeartbeatTicks, Manager!Next
<1>7. CASE \E c \in calls : StoreStep(c) \/ HandlerReturns(c)
  BY <1>7 DEF StoreStep, HandlerReturns, Manager!Next
<1>8. CASE FrameArrives \/ (\E c \in putting : PutReturns(c))
           \/ (\E c \in creating : CreateReturns(c)) \/ SignalAgain \/ Exit
           \/ UNCHANGED vars
  BY <1>8 DEF FrameArrives, PutReturns, CreateReturns, SignalAgain, Exit, vars
<1> QED
  BY <1>1, <1>3, <1>4, <1>5, <1>6, <1>7, <1>8 DEF Next

\* The events that reach the session manager are those its module assumes of an
\* adapter: what is proved of the manager holds of it in the gateway.
THEOREM ManagerBehind == Spec => ManagerAsSpecified
<1>1. Init => Manager!Init
  BY DEF Init
<1>2. Wired /\ [Next]_vars => [Manager!Next]_(Manager!vars)
  BY ManagerStep DEF manager, Manager!vars, Manager!delivered
<1> QED
  BY <1>1, <1>2, WiredAlways, PTL DEF Spec, ManagerAsSpecified, Manager!Spec

-----------------------------------------------------------------------------
(***************************************************************************)
(* The chunk assembler behind the wiring.  Every frame it is given stands  *)
(* where its module expects the next one; and no create is refused, since  *)
(* no two chunks start together: all but the last are full windows, and    *)
(* the window is positive.                                                 *)
(***************************************************************************)
Audio == [session: {1}, seqNo: Nat, offset: Nat, duration: Nat,
          source: Sources, after: Nat]

\* The frames of the adapter are those the assembler was given, and its legs
\* are the odd events.
FramesDelivered ==
    /\ source \in Sources \cup {NoSource}
    /\ frames \in Seq(Audio)
    /\ frames # <<>> => frames[Len(frames)].seqNo + 1 = Len(frames)
    /\ ingested \in Seq(Assembler!Frame)
    /\ Len(ingested) = Len(frames)
    /\ Legs \in Nat
    /\ Len(events) = IF source # NoSource THEN 2 * Legs - 1 ELSE 2 * Legs

\* Half of an odd and of an even number.
LEMMA Halves ==
    ASSUME NEW n \in Nat
    PROVE  (2 * n + 1) \div 2 = n /\ (2 * n + 2) \div 2 = n + 1
  OBVIOUS

\* How an event moves the number of legs, which are the odd events.
LEMMA LegsMove ==
    ASSUME Wired, FramesDelivered, NEW e, Reports(e), e \in LifecycleEvent,
           source = NoSource <=> source' # NoSource
    PROVE  /\ Legs' = IF source = NoSource THEN Legs + 1 ELSE Legs
           /\ Legs' \in Nat
           /\ Len(events') = IF source' # NoSource THEN 2 * Legs' - 1 ELSE 2 * Legs'
           /\ events' # <<>>
<1>1. Len(events') = Len(events) + 1 /\ events' # <<>> /\ Len(events) \in Nat
  BY AppendKeeps DEF Reports, Wired, EventsDelivered
<1>2. Legs \in Nat /\ Len(events) = IF source # NoSource THEN 2 * Legs - 1 ELSE 2 * Legs
  BY DEF FramesDelivered
<1>3. Legs' = (Len(events') + 1) \div 2
  BY DEF Legs
<1> DEFINE n == Legs
<1> HIDE DEF n
<1>4. CASE source = NoSource
  <2>1. Len(events') + 1 = 2 * Legs + 2
    BY <1>1, <1>2, <1>4
  <2>2. Legs' = Legs + 1
    BY <1>2, <1>3, <2>1, Halves
  <2> QED
    BY <1>1, <1>2, <1>4, <2>2
<1>5. CASE source # NoSource
  <2>1. Len(events') + 1 = 2 * Legs + 1
    BY <1>1, <1>2, <1>5
  <2>2. Legs' = Legs
    BY <1>2, <1>3, <2>1, Halves
  <2> QED
    BY <1>1, <1>2, <1>5, <2>2
<1> QED
  BY <1>4, <1>5

\* A frame reaches the assembler as the one its module expects.
LEMMA FrameEffect ==
    ASSUME Wired, FramesDelivered, FrameArrives
    PROVE  \E d \in Durations :
              /\ Assembler!Ingest(Assembler!NextFrame(d))
              /\ Assembler!NextFrame(d) \in Assembler!Frame
              /\ Assembler!NextFrame(d).offset = Feed.offset
              /\ Assembler!NextFrame(d).duration = d
              /\ ingested' = Append(ingested, Assembler!NextFrame(d))
              /\ Feed' = [Feed EXCEPT !.offset = @ + d]
              /\ Feed'.offset = Feed.offset + d
              /\ Feed.offset \in Nat
              /\ Len(ingested) < MaxFrames
              /\ frames' \in Seq(Audio) /\ Len(frames') = Len(frames) + 1
              /\ frames'[Len(frames')].seqNo = Len(frames)
              /\ UNCHANGED <<source, events, manager, health, process>>
<1>1. PICK d \in Durations :
         Adapter!Emit(d) /\ Assembler!Ingest(Normalized(frames'[Len(frames')]))
  BY DEF FrameArrives
<1>2. /\ source # NoSource /\ source \in Sources /\ begun = 1 /\ events # <<>>
      /\ UNCHANGED <<source, events>> /\ d \in Nat /\ Len(frames) \in Nat
      /\ frames \in Seq(Audio) /\ Len(events) \in Nat /\ Legs \in Nat
  BY <1>1 DEF Adapter!Emit, Wired, OneSession, EventsDelivered, FramesDelivered
<1> DEFINE f == [session |-> 1, seqNo |-> Len(frames), offset |-> Feed.offset,
                 duration |-> d, source |-> source, after |-> Len(events)]
<1>3. frames # <<>> =>
         /\ frames[Len(frames)] \in Audio
         /\ frames[Len(frames)].seqNo + 1 = Len(frames)
         /\ frames[Len(frames)].session = 1
  <2>1. frames # <<>> => frames[Len(frames)] \in Audio
    BY <1>2
  <2> QED
    BY <2>1 DEF FramesDelivered, Audio
<1>4. Adapter!Continues <=> frames # <<>>
  BY <1>2, <1>3 DEF Adapter!Continues
<1>5. Feed.offset \in Nat
      /\ Feed.offset = IF frames = <<>> THEN 0
                       ELSE frames[Len(frames)].offset + frames[Len(frames)].duration
  BY <1>3 DEF Feed, Audio
<1>6. frames' = Append(frames, f)
  BY <1>1, <1>2, <1>3, <1>4, <1>5 DEF Adapter!Emit
<1>7. f \in Audio
  BY <1>2, <1>5 DEF Audio
<1>8. /\ frames' \in Seq(Audio) /\ Len(frames') = Len(frames) + 1
      /\ frames'[Len(frames')] = f /\ frames' # <<>>
  BY <1>2, <1>6, <1>7, AppendKeeps
<1>9. Normalized(f) = Assembler!NextFrame(d)
  <2>1. (f.after + 1) \div 2 = Legs
    BY DEF Legs
  <2>2. Feed.session = 1 /\ Feed.leg = Legs
    BY <1>2 DEF Feed
  <2>3. Len(ingested) = Len(frames)
    BY DEF FramesDelivered
  <2> QED
    BY <2>1, <2>2, <2>3 DEF Normalized, Assembler!NextFrame
<1>10. Assembler!NextFrame(d) \in Assembler!Frame
  <2>1. Feed.session = 1 /\ Feed.leg \in Nat
    BY <1>2 DEF Feed
  <2> QED
    BY <1>2, <1>5, <2>1 DEF Assembler!NextFrame, Assembler!Frame, FramesDelivered
<1>11. Feed' = [Feed EXCEPT !.offset = @ + d]
  <2>1. Feed' = [session |-> 1, leg |-> Legs, offset |-> Feed.offset + d]
    <3>1. Legs' = Legs
      BY <1>2 DEF Legs
    <3> QED
      BY <1>2, <1>8, <3>1 DEF Feed
  <2>2. Feed = [session |-> 1, leg |-> Legs, offset |-> Feed.offset]
    BY <1>2 DEF Feed
  <2> QED
    BY <2>1, <2>2
<1>12. Assembler!Ingest(Assembler!NextFrame(d))
  BY <1>1, <1>8, <1>9
<1>13. /\ Assembler!NextFrame(d).offset = Feed.offset
       /\ Assembler!NextFrame(d).duration = d
  BY DEF Assembler!NextFrame
<1>14. ingested' = Append(ingested, Assembler!NextFrame(d))
  BY <1>12 DEF Assembler!Ingest
<1>15. Feed'.offset = Feed.offset + d
  BY <1>5, <1>8 DEF Feed
<1>16. Len(ingested) < MaxFrames /\ UNCHANGED <<manager, health, process>>
  BY DEF FrameArrives, FramesDelivered
<1>17. frames'[Len(frames')].seqNo = Len(frames)
  BY <1>8
<1> HIDE DEF f
<1> WITNESS d \in Durations
<1> QED
  BY <1>2, <1>5, <1>8, <1>10, <1>11, <1>12, <1>13, <1>14, <1>15, <1>16, <1>17

\* Where the buffered audio starts on the session's timeline.
BufferStart == Feed.offset - buffered

\* A started chunk is in one place.
InOnePlace ==
    /\ putting \subseteq flushed /\ creating \subseteq flushed /\ rows \subseteq flushed
    /\ putting \cap creating = {} /\ putting \cap rows = {} /\ creating \cap rows = {}

\* No two chunks start together, and while the process runs the next one will
\* start after them.
StartsApart ==
    /\ buffer \in Seq(Assembler!Frame)
    /\ buffered \in Nat
    /\ buffer = <<>> => buffered = 0
    /\ buffer # <<>> => buffer[1].offset = BufferStart
    /\ \A c \in flushed : c.start \in Int
    /\ \A c, d \in flushed : c.start = d.start => c = d
    /\ phase = "running" => \A c \in flushed : c.start < BufferStart

Chunked == FramesDelivered /\ InOnePlace /\ StartsApart

\* The offset of the feed is a length of time.
LEMMA FeedOffset ==
    ASSUME FramesDelivered
    PROVE  Feed.offset \in Nat
<1>1. frames # <<>> => frames[Len(frames)] \in Audio
  BY DEF FramesDelivered
<1> QED
  BY <1>1 DEF Feed, Audio

\* A chunk that starts where no other does finds its row free.
LEMMA RowFree ==
    ASSUME InOnePlace, StartsApart, NEW c \in creating
    PROVE  ~Assembler!RowTaken(c)
  BY DEF InOnePlace, StartsApart, Assembler!RowTaken, Assembler!SameRow

\* A chunk that is cut off starts where none did before.
LEMMA CutEffect ==
    ASSUME InOnePlace, StartsApart, phase = "running",
           NEW fs \in Seq(Assembler!Frame), fs # <<>>, fs[1].offset = BufferStart,
           BufferStart \in Int, NEW total, Assembler!Cut(fs, total),
           UNCHANGED <<creating, rows>>
    PROVE  /\ InOnePlace'
           /\ \A c \in flushed' : c.start \in Int /\ c.start <= BufferStart
           /\ \A c, d \in flushed' : c.start = d.start => c = d
           /\ buffer' = <<>> /\ buffered' = 0
<1> DEFINE k == Assembler!ChunkOf(fs, total)
<1>1. k.start = BufferStart
  BY DEF Assembler!ChunkOf
<1> HIDE DEF k
<1>2. /\ flushed' = flushed \cup {k} /\ putting' = putting \cup {k}
      /\ buffer' = <<>> /\ buffered' = 0
  BY DEF Assembler!Cut, k
<1>3. \A c \in flushed : c.start \in Int /\ c.start < BufferStart
  BY DEF StartsApart
<1>4. k \notin flushed
  BY <1>1, <1>3
<1>5. InOnePlace'
  BY <1>2, <1>4 DEF InOnePlace
<1>6. \A c \in flushed' : c.start \in Int /\ c.start <= BufferStart
  BY <1>1, <1>2, <1>3
<1>7. \A c, d \in flushed' : c.start = d.start => c = d
  BY <1>1, <1>2, <1>3 DEF StartsApart
<1> QED
  BY <1>2, <1>5, <1>6, <1>7

\* The flights move on, and nothing else of the assembler does.
LEMMA ChunkedFlights ==
    ASSUME Chunked, UNCHANGED <<adapter, process, buffer, buffered, ingested, flushed>>,
           InOnePlace'
    PROVE  Chunked'
<1>1. Feed' = Feed /\ Legs' = Legs
  BY DEF adapter, Feed, Legs
<1>2. FramesDelivered'
  BY <1>1 DEF Chunked, FramesDelivered, adapter
<1>3. StartsApart'
  BY <1>1 DEF Chunked, StartsApart, BufferStart, process
<1> QED
  BY <1>2, <1>3 DEF Chunked

LEMMA ChunkedPut ==
    ASSUME Chunked, NEW c \in putting, PutReturns(c)
    PROVE  Chunked'
<1>1. /\ UNCHANGED <<adapter, process, buffer, buffered, ingested, flushed, rows>>
      /\ putting' = putting \ {c}
      /\ creating' = creating \cup {c} \/ creating' = creating
  BY DEF PutReturns, Assembler!PutSucceeds, Assembler!PutFails, Assembler!Rest
<1>2. InOnePlace'
  BY <1>1 DEF Chunked, InOnePlace
<1> QED
  BY <1>1, <1>2, ChunkedFlights

LEMMA ChunkedCreate ==
    ASSUME Chunked, NEW c \in creating, CreateReturns(c)
    PROVE  Chunked'
<1>1. /\ UNCHANGED <<adapter, process, buffer, buffered, ingested, flushed, putting>>
      /\ creating' = creating \ {c}
      /\ rows' = rows \cup {c} \/ rows' = rows
  BY DEF CreateReturns, CreateFailure, Assembler!CreateSucceeds,
         Assembler!CreateFails, Assembler!Rest
<1>2. InOnePlace'
  BY <1>1 DEF Chunked, InOnePlace
<1> QED
  BY <1>1, <1>2, ChunkedFlights

\* A frame is buffered, or fills the window.
LEMMA ChunkedFrame ==
    ASSUME Wired, Chunked, FrameArrives
    PROVE  Chunked'
<1> DEFINE f(d) == Assembler!NextFrame(d)
<1>1. PICK d \in Durations :
              /\ Assembler!Ingest(f(d))
              /\ f(d) \in Assembler!Frame
              /\ f(d).offset = Feed.offset
              /\ f(d).duration = d
              /\ ingested' = Append(ingested, f(d))
              /\ Feed'.offset = Feed.offset + d
              /\ Feed.offset \in Nat
              /\ frames' \in Seq(Audio) /\ Len(frames') = Len(frames) + 1
              /\ frames'[Len(frames')].seqNo = Len(frames)
              /\ UNCHANGED <<source, events, process>>
  BY FrameEffect DEF Chunked
<1> DEFINE e == f(d)
<1> HIDE DEF f
<1>2. d \in Nat
  OBVIOUS
<1>3. FramesDelivered'
  <2>1. Legs' = Legs
    BY <1>1 DEF Legs
  <2>2. ingested' \in Seq(Assembler!Frame) /\ Len(ingested') = Len(ingested) + 1
    BY <1>1, AppendKeeps DEF Chunked, FramesDelivered
  <2>3. Len(frames) \in Nat /\ Len(ingested) = Len(frames)
    BY DEF Chunked, FramesDelivered
  <2>4. frames'[Len(frames')].seqNo + 1 = Len(frames')
    BY <1>1, <2>3
  <2> QED
    BY <1>1, <2>1, <2>2, <2>3, <2>4 DEF Chunked, FramesDelivered
<1> DEFINE fs == Append(buffer, e)
           total == buffered + e.duration
<1>4. /\ fs \in Seq(Assembler!Frame) /\ fs # <<>>
      /\ fs[1].offset = BufferStart /\ BufferStart \in Int
      /\ total = buffered + d /\ buffered \in Nat
  <2>1. buffered \in Nat /\ buffer \in Seq(Assembler!Frame)
    BY DEF Chunked, StartsApart
  <2>2. BufferStart \in Int
    BY <1>1, <2>1 DEF BufferStart
  <2>3. fs \in Seq(Assembler!Frame) /\ fs # <<>>
    BY <1>1, <2>1, AppendKeeps
  <2>4. CASE buffer = <<>>
    <3>1. fs[1] = e
      BY <1>1, <2>1, <2>4, AppendKeeps
    <3> QED
      BY <1>1, <2>1, <2>2, <2>3, <2>4, <3>1 DEF Chunked, StartsApart, BufferStart
  <2>5. CASE buffer # <<>>
    <3>1. 1 \in 1..Len(buffer)
      BY <2>1, <2>5
    <3>2. fs[1] = buffer[1]
      BY <1>1, <2>1, <3>1, AppendKeeps
    <3> QED
      BY <1>1, <2>1, <2>2, <2>3, <2>5, <3>2 DEF Chunked, StartsApart
  <2> QED
    BY <2>4, <2>5
<1>5. phase = "running" /\ phase' = "running"
  BY DEF FrameArrives, process
<1>6. CASE Assembler!Full(total)
  <2>1. Assembler!Cut(fs, total) /\ UNCHANGED <<creating, rows>>
    BY <1>1, <1>6 DEF Assembler!Ingest, Assembler!stores
  <2>2. /\ InOnePlace'
        /\ \A c \in flushed' : c.start \in Int /\ c.start <= BufferStart
        /\ \A c, k \in flushed' : c.start = k.start => c = k
        /\ buffer' = <<>> /\ buffered' = 0
    BY <1>4, <1>5, <2>1, CutEffect DEF Chunked
  <2>3. total >= 1
    <3>1. buffered + e.duration \in Nat /\ buffered + e.duration >= Window
      BY <1>2, <1>4, <1>6 DEF Assembler!Full
    <3> QED
      BY <3>1
  <2>4. BufferStart < BufferStart'
    BY <1>1, <1>2, <1>4, <2>2, <2>3 DEF BufferStart
  <2>5. BufferStart' \in Int
    BY <1>1, <1>2, <2>2 DEF BufferStart
  <2>6. \A c \in flushed' : c.start < BufferStart'
    BY <1>4, <2>2, <2>4, <2>5
  <2>7. StartsApart'
    BY <2>2, <2>6 DEF StartsApart
  <2> QED
    BY <1>3, <2>2, <2>7 DEF Chunked
<1>7. CASE ~Assembler!Full(total)
  <2>1. /\ buffer' = fs /\ buffered' = total
        /\ UNCHANGED <<putting, flushed, creating, rows>>
    BY <1>1, <1>7 DEF Assembler!Ingest, Assembler!stores
  <2>2. BufferStart' = BufferStart
    <3>1. Feed'.offset = Feed.offset + d /\ Feed.offset \in Nat
      BY <1>1
    <3>2. buffered' = buffered + d /\ buffered \in Nat /\ d \in Nat
      BY <1>1, <1>2, <1>4, <2>1
    <3> QED
      BY <3>1, <3>2 DEF BufferStart
  <2>3. InOnePlace'
    BY <2>1 DEF Chunked, InOnePlace
  <2>4. StartsApart'
    BY <1>2, <1>4, <1>5, <2>1, <2>2 DEF Chunked, StartsApart
  <2> QED
    BY <1>3, <2>3, <2>4 DEF Chunked
<1> QED
  BY <1>6, <1>7

\* A reported event moves the timeline to the next leg, if it begins one.
LEMMA FeedMoves ==
    ASSUME Wired, FramesDelivered, NEW e \in LifecycleEvent, Reports(e),
           source = NoSource <=> source' # NoSource, UNCHANGED frames
    PROVE  /\ Feed'.offset = Feed.offset
           /\ Feed' = IF source = NoSource /\ events # <<>>
                      THEN [Feed EXCEPT !.leg = @ + 1] ELSE Feed
<1>1. /\ Legs' = IF source = NoSource THEN Legs + 1 ELSE Legs
      /\ events' # <<>>
  BY LegsMove
<1>2. events = <<>> => source = NoSource /\ Len(events) = 0
  BY DEF Wired, OneSession, EventsDelivered
<1>3. events = <<>> => Legs = 0
  BY <1>2 DEF FramesDelivered
<1>4. Feed'.leg = Legs' /\ Feed'.offset = Feed.offset
  BY <1>1 DEF Feed
<1>5. Feed.leg = IF events = <<>> THEN 1 ELSE Legs
  BY DEF Feed
<1>6. Feed'.leg = IF source = NoSource /\ events # <<>> THEN Feed.leg + 1 ELSE Feed.leg
  BY <1>1, <1>2, <1>3, <1>4, <1>5
<1>7. /\ Feed = [session |-> 1, leg |-> Feed.leg, offset |-> Feed.offset]
      /\ Feed' = [session |-> 1, leg |-> Feed'.leg, offset |-> Feed'.offset]
  BY DEF Feed
<1>8. CASE source = NoSource /\ events # <<>>
  <2>1. Feed' = [session |-> 1, leg |-> Feed.leg + 1, offset |-> Feed.offset]
    BY <1>4, <1>6, <1>7, <1>8
  <2>2. [Feed EXCEPT !.leg = @ + 1] =
           [session |-> 1, leg |-> Feed.leg + 1, offset |-> Feed.offset]
    BY <1>7
  <2> QED
    BY <1>4, <1>8, <2>1, <2>2
<1>9. CASE ~(source = NoSource /\ events # <<>>)
  BY <1>4, <1>6, <1>7, <1>9
<1> QED
  BY <1>8, <1>9

\* A reported event leaves the audio where it is.
LEMMA FramesReports ==
    ASSUME Wired, FramesDelivered, NEW e \in LifecycleEvent, Reports(e),
           source = NoSource <=> source' # NoSource,
           source' \in Sources \cup {NoSource}, UNCHANGED <<frames, ingested>>
    PROVE  FramesDelivered'
  BY LegsMove DEF FramesDelivered

LEMMA ChunkedReports ==
    ASSUME Wired, Chunked, NEW e \in LifecycleEvent, Reports(e),
           source = NoSource <=> source' # NoSource,
           source' \in Sources \cup {NoSource}, UNCHANGED <<frames, assembler, process>>
    PROVE  Chunked'
<1> USE DEF Chunked, assembler, process
<1>1. FramesDelivered'
  BY FramesReports
<1>2. Feed'.offset = Feed.offset
  BY FeedMoves
<1>3. BufferStart' = BufferStart
  BY <1>2 DEF BufferStart
<1>4. InOnePlace'
  BY DEF InOnePlace
<1>5. StartsApart'
  BY <1>3 DEF StartsApart
<1> QED
  BY <1>1, <1>4, <1>5

\* The shutdown's part in it: the adapter is disconnected, the rest flushed.
LEMMA SignalFeed ==
    ASSUME Wired, FramesDelivered, Signal
    PROVE  Feed' = Feed /\ (UNCHANGED ingested => FramesDelivered')
<1>1. Disconnects
  BY DEF Signal
<1>2. CASE source = NoSource /\ UNCHANGED events
  <2>1. Feed' = Feed /\ Legs' = Legs /\ source' = NoSource /\ frames' = frames
    BY <1>1, <1>2, DisconnectsEffect DEF Feed, Legs
  <2> QED
    BY <1>2, <2>1 DEF FramesDelivered
<1>3. CASE source # NoSource
  <2> DEFINE e == Disconnected("clean_disconnect")
  <2>1. e \in LifecycleEvent /\ Reports(e) /\ source' = NoSource /\ UNCHANGED frames
    BY <1>1, <1>3, DisconnectsEffect
  <2> HIDE DEF e
  <2> QED
    BY <1>3, <2>1, FeedMoves, FramesReports
<1> QED
  BY <1>1, <1>2, <1>3, DisconnectsEffect

LEMMA ChunkedSignal ==
    ASSUME Wired, Chunked, Signal
    PROVE  Chunked'
<1>1. Feed' = Feed /\ (UNCHANGED ingested => FramesDelivered')
  BY SignalFeed DEF Chunked
<1>2. phase = "running" /\ phase' = "stopping" /\ FlushesRest
  BY DEF Signal
<1>3. CASE buffer = <<>>
  <2>1. UNCHANGED assembler
    BY <1>2, <1>3 DEF FlushesRest
  <2>2. InOnePlace' /\ StartsApart'
    BY <1>1, <1>2, <2>1 DEF assembler, Chunked, InOnePlace, StartsApart, BufferStart
  <2> QED
    BY <1>1, <2>1, <2>2 DEF assembler, Chunked
<1>4. CASE buffer # <<>>
  <2>1. Assembler!Cut(buffer, buffered) /\ UNCHANGED <<creating, rows, ingested>>
    BY <1>2, <1>4 DEF FlushesRest, Assembler!FlushRemaining, Assembler!stores
  <2>2. BufferStart \in Int
    BY FeedOffset DEF Chunked, StartsApart, BufferStart
  <2>3. /\ InOnePlace'
        /\ \A c \in flushed' : c.start \in Int /\ c.start <= BufferStart
        /\ \A c, d \in flushed' : c.start = d.start => c = d
        /\ buffer' = <<>> /\ buffered' = 0
    BY <1>2, <1>4, <2>1, <2>2, CutEffect DEF Chunked, StartsApart
  <2>4. StartsApart'
    BY <1>2, <2>3 DEF StartsApart
  <2> QED
    BY <1>1, <2>1, <2>3, <2>4 DEF Chunked
<1> QED
  BY <1>3, <1>4

LEMMA ChunkedInit == Init => Chunked
<1> SUFFICES ASSUME Init
             PROVE  Chunked
  OBVIOUS
<1> USE DEF Init, Adapter!Init
<1>1. Legs = 0
  BY DEF Legs
<1>2. FramesDelivered
  BY <1>1 DEF FramesDelivered
<1>3. InOnePlace /\ StartsApart
  BY DEF InOnePlace, StartsApart
<1> QED
  BY <1>2, <1>3 DEF Chunked

LEMMA ChunkedStep ==
    ASSUME Wired, Chunked, [Next]_vars
    PROVE  Chunked'
<1>1. CASE EncoderConnects
  <2>1. source' \in Sources
    BY <1>1 DEF EncoderConnects, Adapter!Begin, Adapter!Resume
  <2> QED
    BY <1>1, <2>1, ConnectEffect, ChunkedReports
<1>2. ASSUME NEW reason \in {"clean_disconnect", "error"}, Adapter!Suspend(reason),
             Manager!HandleEvent(events'[Len(events')]), UNCHANGED <<assembler, process>>
      PROVE  Chunked'
  BY <1>2, SuspendEffect, ChunkedReports
<1>3. CASE EncoderCloses
  BY <1>2, <1>3 DEF EncoderCloses, Announce
<1>4. CASE EncoderBreaks
  BY <1>2, <1>4 DEF EncoderBreaks
<1>5. CASE FrameArrives
  BY <1>5, ChunkedFrame
<1>6. CASE \E c \in putting : PutReturns(c)
  BY <1>6, ChunkedPut
<1>7. CASE \E c \in creating : CreateReturns(c)
  BY <1>7, ChunkedCreate
<1>8. CASE Signal
  BY <1>8, ChunkedSignal
<1>9. CASE HeartbeatTicks \/ (\E c \in calls : StoreStep(c) \/ HandlerReturns(c))
           \/ SignalAgain \/ Exit \/ UNCHANGED vars
  <2>1. /\ UNCHANGED <<adapter, assembler>>
        /\ phase' # "running" \/ phase' = phase
    BY <1>9 DEF HeartbeatTicks, StoreStep, HandlerReturns, SignalAgain, Exit, vars, process
  <2>2. Feed' = Feed /\ Legs' = Legs
    BY <2>1 DEF adapter, Feed, Legs
  <2>3. FramesDelivered' /\ InOnePlace' /\ StartsApart'
    BY <2>1, <2>2 DEF Chunked, adapter, assembler, FramesDelivered, InOnePlace,
                      StartsApart, BufferStart
  <2> QED
    BY <2>3 DEF Chunked
<1> QED
  BY <1>1, <1>3, <1>4, <1>5, <1>6, <1>7, <1>8, <1>9 DEF Next

LEMMA ChunkedAlways == Spec => []Chunked
  BY WiredInit, WiredStep, ChunkedInit, ChunkedStep, PTL DEF Spec

\* Every step of the gateway is a step of the assembler's module, or leaves the
\* assembler and the timeline alone.
LEMMA AssemblerStep ==
    ASSUME Wired, Chunked, [Next]_vars
    PROVE  Assembler!Next \/ (UNCHANGED assembler /\ Feed' = Feed)
<1>1. CASE EncoderConnects
  <2>1. /\ Feed' = IF events # <<>> THEN [Feed EXCEPT !.leg = @ + 1] ELSE Feed
        /\ UNCHANGED assembler
    BY <1>1, ConnectEffect, FeedMoves DEF Chunked
  <2>2. CASE events # <<>>
    <3>1. Feed.leg = Legs /\ source = NoSource /\ handled < MaxEvents
      BY <1>1, <2>2, ConnectEffect DEF Feed
    <3>2. Legs \in Nat /\ Len(events) = 2 * Legs /\ handled = Len(events)
      BY <3>1 DEF Chunked, FramesDelivered, Wired, EventsDelivered
    <3>3. Feed.leg < MaxEvents
      BY <3>1, <3>2
    <3>4. Assembler!Reconnect
      BY <2>1, <2>2, <3>3 DEF Assembler!Reconnect, Assembler!Idle, Assembler!flights,
                              Assembler!stores, assembler
    <3> QED
      BY <3>4 DEF Assembler!Next
  <2> QED
    BY <2>1, <2>2
<1>2. ASSUME NEW reason \in {"clean_disconnect", "error"}, Adapter!Suspend(reason),
             Manager!HandleEvent(events'[Len(events')])
      PROVE  Feed' = Feed
  BY <1>2, SuspendEffect, FeedMoves DEF Chunked
<1>3. CASE EncoderCloses
  BY <1>2, <1>3 DEF EncoderCloses, Announce
<1>4. CASE EncoderBreaks
  BY <1>2, <1>4 DEF EncoderBreaks
<1>5. CASE FrameArrives
  BY <1>5, FrameEffect DEF Chunked, Assembler!Receive, Assembler!Next
<1>6. CASE \E c \in putting : PutReturns(c)
  BY <1>6 DEF PutReturns, Assembler!Next
<1>7. ASSUME NEW c \in creating, CreateReturns(c)
      PROVE  Assembler!Next
  <2>1. ~Assembler!RowTaken(c)
    BY RowFree DEF Chunked
  <2>2. \/ Assembler!CreateSucceeds(c)
        \/ Faults /\ \E written \in {FALSE, ~Assembler!RowTaken(c)} :
                        Assembler!CreateFails(c, written)
    <3>1. ASSUME CreateFailure(c)
          PROVE  Faults /\ \E written \in {FALSE, TRUE} : Assembler!CreateFails(c, written)
      BY <3>1, Zenon DEF CreateFailure
    <3>2. {FALSE, ~Assembler!RowTaken(c)} = {FALSE, TRUE}
      BY <2>1
    <3> QED
      BY <1>7, <3>1, <3>2, Zenon DEF CreateReturns
  <2> QED
    BY <2>2, Zenon DEF Assembler!Next
<1>8. CASE Signal
  <2>1. Feed' = Feed /\ FlushesRest
    BY <1>8, SignalFeed DEF Signal, Chunked
  <2> QED
    BY <2>1 DEF FlushesRest, Assembler!Next
<1>9. CASE HeartbeatTicks \/ (\E c \in calls : StoreStep(c) \/ HandlerReturns(c))
           \/ SignalAgain \/ Exit \/ UNCHANGED vars
  <2>1. UNCHANGED <<adapter, assembler>>
    BY <1>9 DEF HeartbeatTicks, StoreStep, HandlerReturns, SignalAgain, Exit, vars
  <2> QED
    BY <2>1 DEF adapter, Feed, Legs
<1> QED
  BY <1>1, <1>3, <1>4, <1>5, <1>6, <1>7, <1>8, <1>9 DEF Next

\* The frames that reach the assembler are those its module assumes, and no row
\* is written over another: what is proved of the assembler holds of it in the
\* gateway.
THEOREM AssemblerBehind == Spec => AssemblerAsSpecified
<1>1. Init => Assembler!Init
  BY DEF Init, Adapter!Init, Assembler!Init, Feed
<1>2. Wired /\ Chunked /\ [Next]_vars => [Assembler!Next]_(Assembler!vars)
  BY AssemblerStep DEF assembler, Assembler!vars, Assembler!flights, Assembler!stores
<1> QED
  BY <1>1, <1>2, WiredAlways, ChunkedAlways, PTL
  DEF Spec, AssemblerAsSpecified, Assembler!Spec

-----------------------------------------------------------------------------
(***************************************************************************)
(* What is proved of the components, here of them behind the wiring.       *)
(***************************************************************************)
ManagerProved == INSTANCE SessionManagerProofs
    WITH MaxSessions <- 1, errors <- storeErrors, MaxTries <- 1,
         MaxEvents <- MaxEvents + 1
AssemblerProved == INSTANCE ChunkAssemblerProofs
    WITH MaxSessions <- 1, MaxLegs <- MaxEvents, feed <- Feed, born <- 1

\* The two instances of the manager's module are one.
LEMMA SameManager ==
    /\ ManagerProved!Init <=> Manager!Init
    /\ ManagerProved!Next <=> Manager!Next
    /\ ManagerProved!vars = Manager!vars
<1>1. ManagerProved!Init <=> Manager!Init
  BY Zenon
  DEF ManagerProved!Init, Manager!Init, ManagerProved!NoRow, Manager!NoRow,
      ManagerProved!NoEvent, Manager!NoEvent, ManagerProved!Sessions, Manager!Sessions
<1>2. ManagerProved!Next <=> Manager!Next
  BY Zenon
  DEF ManagerProved!Next, Manager!Next, ManagerProved!NextEvents, Manager!NextEvents,
      ManagerProved!Ended, Manager!Ended, ManagerProved!Created, Manager!Created,
      ManagerProved!Reconnected, Manager!Reconnected,
      ManagerProved!HandleEvent, Manager!HandleEvent,
      ManagerProved!HandleHeartbeat, Manager!HandleHeartbeat,
      ManagerProved!Tick, Manager!Tick,
      ManagerProved!SendHeartbeat, Manager!SendHeartbeat,
      ManagerProved!StoreAnswers, Manager!StoreAnswers,
      ManagerProved!StoreFails, Manager!StoreFails,
      ManagerProved!AnswerLost, Manager!AnswerLost,
      ManagerProved!AppliedAndRetried, Manager!AppliedAndRetried,
      ManagerProved!StartReturns, Manager!StartReturns,
      ManagerProved!EndReturns, Manager!EndReturns,
      ManagerProved!HeartbeatReturns, Manager!HeartbeatReturns,
      ManagerProved!Sessions, Manager!Sessions, ManagerProved!Start, Manager!Start,
      ManagerProved!LoopFree, Manager!LoopFree,
      ManagerProved!OnSessionCreated, Manager!OnSessionCreated,
      ManagerProved!OnSessionReconnected, Manager!OnSessionReconnected,
      ManagerProved!OnSessionEnded, Manager!OnSessionEnded,
      ManagerProved!Deliver, Manager!Deliver, ManagerProved!Send, Manager!Send,
      ManagerProved!NoEvent, Manager!NoEvent,
      ManagerProved!Permitted, Manager!Permitted, ManagerProved!Exists, Manager!Exists,
      ManagerProved!Written, Manager!Written, ManagerProved!Revived, Manager!Revived,
      ManagerProved!Settle, Manager!Settle, ManagerProved!StoreOnly, Manager!StoreOnly,
      ManagerProved!delivered, Manager!delivered, ManagerProved!Answered, Manager!Answered,
      ManagerProved!CountError, Manager!CountError,
      ManagerProved!HeartbeatStarts, Manager!HeartbeatStarts,
      ManagerProved!Forgets, Manager!Forgets, ManagerProved!Tells, Manager!Tells
<1>3. ManagerProved!vars = Manager!vars
  BY DEF ManagerProved!vars, Manager!vars, ManagerProved!delivered, Manager!delivered
<1> QED
  BY <1>1, <1>2, <1>3

LEMMA ManagerHolds == Spec => ManagerProved!Spec
<1>1. [Manager!Next]_(Manager!vars) => [ManagerProved!Next]_(ManagerProved!vars)
  BY SameManager DEF ManagerProved!vars, Manager!vars, ManagerProved!delivered, Manager!delivered
<1>2. Manager!Init => ManagerProved!Init
  BY SameManager
<1> QED
  BY <1>1, <1>2, ManagerBehind, PTL
  DEF ManagerAsSpecified, Manager!Spec, ManagerProved!Spec

\* So are those of the assembler's module.
LEMMA SameAssembler ==
    /\ AssemblerProved!Init <=> Assembler!Init
    /\ AssemblerProved!Next <=> Assembler!Next
    /\ AssemblerProved!vars = Assembler!vars
<1>1. AssemblerProved!Init <=> Assembler!Init
  BY Zenon DEF AssemblerProved!Init, Assembler!Init
<1>2. AssemblerProved!Next <=> Assembler!Next
  BY Zenon
  DEF AssemblerProved!Next, Assembler!Next, AssemblerProved!Receive, Assembler!Receive,
      AssemblerProved!NextFrame, Assembler!NextFrame,
      AssemblerProved!Ingest, Assembler!Ingest, AssemblerProved!Cut, Assembler!Cut,
      AssemblerProved!Full, Assembler!Full, AssemblerProved!ChunkOf, Assembler!ChunkOf,
      AssemblerProved!FlushRemaining, Assembler!FlushRemaining,
      AssemblerProved!Reconnect, Assembler!Reconnect,
      AssemblerProved!NewSession, Assembler!NewSession,
      AssemblerProved!Restart, Assembler!Restart, AssemblerProved!Idle, Assembler!Idle,
      AssemblerProved!PutSucceeds, Assembler!PutSucceeds,
      AssemblerProved!PutFails, Assembler!PutFails,
      AssemblerProved!CreateSucceeds, Assembler!CreateSucceeds,
      AssemblerProved!CreateFails, Assembler!CreateFails,
      AssemblerProved!RowTaken, Assembler!RowTaken,
      AssemblerProved!SameRow, Assembler!SameRow, AssemblerProved!SameKey, Assembler!SameKey,
      AssemblerProved!Stored, Assembler!Stored, AssemblerProved!Rest, Assembler!Rest,
      AssemblerProved!stores, Assembler!stores, AssemblerProved!flights, Assembler!flights
<1>3. AssemblerProved!vars = Assembler!vars
  BY DEF AssemblerProved!vars, Assembler!vars, AssemblerProved!stores, Assembler!stores,
         AssemblerProved!flights, Assembler!flights
<1> QED
  BY <1>1, <1>2, <1>3

LEMMA AssemblerHolds == Spec => AssemblerProved!Spec
<1>1. [Assembler!Next]_(Assembler!vars) => [AssemblerProved!Next]_(AssemblerProved!vars)
  BY SameAssembler
  DEF AssemblerProved!vars, Assembler!vars, AssemblerProved!stores, Assembler!stores,
      AssemblerProved!flights, Assembler!flights
<1>2. Assembler!Init => AssemblerProved!Init
  BY SameAssembler
<1> QED
  BY <1>1, <1>2, AssemblerBehind, PTL
  DEF AssemblerAsSpecified, Assembler!Spec, AssemblerProved!Spec

\* The types of the components.
Typed == Manager!TypeOK /\ Assembler!TypeOK

LEMMA TypedAlways == Spec => []Typed
<1>1. ManagerProved!Spec => []ManagerProved!TypeOK
  BY ManagerProved!TypeCorrect
<1>2. AssemblerProved!Spec => []AssemblerProved!TypeOK
  BY AssemblerProved!TypeCorrect
<1>3. ManagerProved!TypeOK => Manager!TypeOK
  BY DEF ManagerProved!TypeOK, Manager!TypeOK, ManagerProved!Sessions, Manager!Sessions,
         ManagerProved!Call, Manager!Call, ManagerProved!Row, Manager!Row,
         ManagerProved!Event, Manager!Event, ManagerProved!Reasons, Manager!Reasons
<1>4. AssemblerProved!TypeOK => Assembler!TypeOK
  BY DEF AssemblerProved!TypeOK, Assembler!TypeOK, AssemblerProved!Frame, Assembler!Frame,
         AssemblerProved!Chunk, Assembler!Chunk, AssemblerProved!Feed, Assembler!Feed
<1> QED
  BY <1>1, <1>2, <1>3, <1>4, ManagerHolds, AssemblerHolds, PTL DEF Typed

-----------------------------------------------------------------------------
(***************************************************************************)
(* What /health shows.                                                     *)
(***************************************************************************)
\* A record that shows the same source, and no error less.
Agrees(g, h) ==
    /\ g \in Tracker!State
    /\ g.known = h.known /\ g.status = h.status /\ g.session = h.session
    /\ g.count = h.count
    /\ h.error => g.error

\* What the tracker does with errors, heartbeats and chunks.
LEMMA TrackerKeeps ==
    ASSUME NEW h \in Tracker!State, NEW s, NEW at \in Nat
    PROVE  /\ Agrees(h, h)
           /\ Agrees(Tracker!AfterError(h), h)
           /\ h.known => Tracker!AfterError(h).error
           /\ Agrees(Tracker!AfterHeartbeat(h, s, at), h)
           /\ Agrees(Tracker!AfterChunk(h, at), h)
<1>1. Agrees(h, h)
  BY DEF Agrees
<1>2. Agrees(Tracker!AfterError(h), h) /\ (h.known => Tracker!AfterError(h).error)
  BY DEF Tracker!State, Tracker!AfterError, Agrees
<1>3. Agrees(Tracker!AfterHeartbeat(h, s, at), h)
  BY DEF Tracker!State, Tracker!AfterHeartbeat, Agrees
<1>4. Agrees(Tracker!AfterChunk(h, at), h)
  BY DEF Tracker!State, Tracker!AfterChunk, Agrees
<1> QED
  BY <1>1, <1>2, <1>3, <1>4

\* What it does with the events of the one session.
LEMMA TrackerConnects ==
    ASSUME Wired, health \in Tracker!State, health.known <=> begun # 0, NEW at \in Nat
    PROVE  LET g == Tracker!AfterEvent(health, Connected, at) IN
           /\ g \in Tracker!State
           /\ g.known /\ g.status = "online" /\ g.session = 1 /\ g.count = Connected.count
           /\ begun # 0 /\ health.error => g.error
<1>1. CASE begun = 0
  <2>1. Connected.type = "created" /\ Connected.session = 1 /\ Connected.count = 0
    BY <1>1 DEF Connected
  <2>2. Tracker!AfterEvent(health, Connected, at) = Tracker!AfterCreated(Connected, at)
    BY <2>1, Zenon DEF Tracker!AfterEvent
  <2> QED
    BY <1>1, <2>1, <2>2 DEF Tracker!AfterCreated, Tracker!State
<1>2. CASE begun = 1
  <2>1. /\ Connected.type = "reconnected" /\ Connected.session = 1
        /\ Connected.count \in Nat
    BY <1>2, LastEvent DEF Connected, LifecycleEvent
  <2>2. Tracker!AfterEvent(health, Connected, at) =
           Tracker!AfterReconnected(health, Connected, at)
    BY <2>1, Zenon DEF Tracker!AfterEvent
  <2>3. Tracker!AfterReconnected(health, Connected, at) =
           [health EXCEPT !.status = "online", !.session = 1,
                          !.count = Connected.count, !.heartbeat = at]
    BY <1>2, <2>1 DEF Tracker!AfterReconnected
  <2> DEFINE n == Connected.count
             g == [health EXCEPT !.status = "online", !.session = 1,
                                 !.count = n, !.heartbeat = at]
  <2>4. n \in Nat
    BY <2>1
  <2> HIDE DEF n
  <2>5. /\ g \in Tracker!State /\ g.status = "online" /\ g.session = 1 /\ g.count = n
        /\ g.known = health.known /\ g.error = health.error
    BY <2>4 DEF Tracker!State
  <2> HIDE DEF g
  <2>6. Tracker!AfterEvent(health, Connected, at) = g
    BY <2>2, <2>3 DEF g, n
  <2> QED
    BY <1>2, <2>5, <2>6 DEF n
<1> QED
  BY <1>1, <1>2 DEF Wired, OneSession

LEMMA TrackerDisconnects ==
    ASSUME NEW h \in Tracker!State, h.known, NEW reason, NEW at \in Nat
    PROVE  LET g == Tracker!AfterEvent(h, Disconnected(reason), at) IN
           /\ g \in Tracker!State
           /\ g.known /\ g.status = "offline" /\ g.session = 0 /\ g.count = h.count
           /\ h.error => g.error
<1>1. Disconnected(reason).type = "ended"
  BY DEF Disconnected
<1>2. Tracker!AfterEvent(h, Disconnected(reason), at) = Tracker!AfterEnded(h)
  BY <1>1, Zenon DEF Tracker!AfterEvent
<1> DEFINE g == [h EXCEPT !.status = "offline", !.session = 0, !.adapter = FALSE]
<1>3. /\ g \in Tracker!State /\ g.status = "offline" /\ g.session = 0 /\ g.count = h.count
      /\ g.known = h.known /\ g.error = h.error
  BY DEF Tracker!State
<1> HIDE DEF g
<1>4. Tracker!AfterEvent(h, Disconnected(reason), at) = g
  BY <1>2 DEF Tracker!AfterEnded, g
<1> QED
  BY <1>3, <1>4

\* The station's record says what the adapter's state is.
SourceShown ==
    /\ health \in Tracker!State
    /\ health.known <=> begun # 0
    /\ begun # 0 =>
          /\ health.status = IF source # NoSource THEN "online" ELSE "offline"
          /\ health.session = IF source # NoSource THEN 1 ELSE 0
          /\ health.count = last.count

\* Before the first session nothing can go wrong, and afterwards nothing clears
\* an error.
ErrorKept ==
    /\ begun = 0 => /\ ~timer /\ calls = {} /\ storeErrors = 0
                    /\ buffer = <<>> /\ flushed = {} /\ reported = {}
    /\ storeErrors > 0 \/ reported # {} => health.error

Shown == SourceShown /\ ErrorKept

LEMMA ShownInit == Init => Shown
<1> SUFFICES ASSUME Init
             PROVE  Shown
  OBVIOUS
<1>1. ~timer
  BY Zenon DEF Init, Manager!Init
<1>2. health \in Tracker!State /\ ~health.known
  BY DEF Init, Tracker!Unknown, Tracker!State
<1> QED
  BY <1>1, <1>2 DEF Init, Adapter!Init, Manager!Init, Shown, SourceShown, ErrorKept

\* A step after the first connect that leaves the adapter alone and at most
\* tells the tracker of a heartbeat, a chunk or an error.
LEMMA ShownLater ==
    ASSUME Shown, begun # 0, UNCHANGED <<begun, source, last>>,
           Agrees(health', health),
           storeErrors' > 0 \/ reported' # {} => health'.error
    PROVE  Shown'
<1>1. SourceShown'
  BY DEF Shown, SourceShown, Agrees
<1>2. ErrorKept'
  BY DEF ErrorKept
<1> QED
  BY <1>1, <1>2 DEF Shown

\* A reported event that the tracker was told of.
LEMMA ShownReports ==
    ASSUME Shown, NEW e \in LifecycleEvent, Reports(e), begun' # 0,
           health' \in Tracker!State, health'.known, health'.count = e.count,
           health'.status = IF source' # NoSource THEN "online" ELSE "offline",
           health'.session = IF source' # NoSource THEN 1 ELSE 0,
           begun # 0 /\ health.error => health'.error,
           UNCHANGED <<storeErrors, reported>>
    PROVE  Shown'
<1>1. SourceShown'
  BY DEF SourceShown, Reports
<1>2. ErrorKept'
  BY DEF ErrorKept, Shown
<1> QED
  BY <1>1, <1>2 DEF Shown

LEMMA ShownSuspend ==
    ASSUME Wired, Shown, Typed, NEW reason \in {"clean_disconnect", "error"},
           Adapter!Suspend(reason), Manager!HandleEvent(events'[Len(events')]),
           UNCHANGED assembler,
           \/ Notice(events'[Len(events')])
           \/ health' = Tracker!AfterError(
                           Tracker!AfterEvent(health, events'[Len(events')], sent))
    PROVE  Shown'
<1> DEFINE e == Disconnected(reason)
           h == Tracker!AfterEvent(health, e, sent)
<1>1. /\ e \in LifecycleEvent /\ Reports(e) /\ Manager!HandleEvent(e)
      /\ events'[Len(events')] = e
      /\ source' = NoSource /\ begun = 1 /\ begun' = begun
  BY SuspendEffect
<1>2. health \in Tracker!State /\ health.known /\ health.count = last.count /\ sent \in Nat
  BY <1>1 DEF Shown, SourceShown, Typed, Manager!TypeOK
<1>3. e.count = last.count
  BY DEF Disconnected
<1>4. /\ h \in Tracker!State /\ h.known /\ h.status = "offline" /\ h.session = 0
      /\ h.count = e.count
      /\ health.error => h.error
  BY <1>2, <1>3, TrackerDisconnects
<1> HIDE DEF e, h
<1>5. health' = h \/ health' = Tracker!AfterError(h)
  BY <1>1 DEF Notice, h
<1>6. /\ health' \in Tracker!State /\ health'.known /\ health'.status = "offline"
      /\ health'.session = 0 /\ health'.count = e.count
      /\ health.error => health'.error
  <2>1. Agrees(health', h)
    BY <1>2, <1>4, <1>5, TrackerKeeps
  <2> QED
    BY <1>4, <2>1 DEF Agrees
<1>7. UNCHANGED <<storeErrors, reported>>
  BY <1>1 DEF Manager!HandleEvent, Manager!Deliver, assembler
<1> QED
  BY <1>1, <1>6, <1>7, ShownReports

LEMMA ShownSignal ==
    ASSUME Wired, Shown, Typed, Signal
    PROVE  Shown'
<1> DEFINE e == Disconnected("clean_disconnect")
<1>1. Disconnects /\ FlushesRest
  BY DEF Signal
<1>2. reported' = reported
  BY <1>1 DEF FlushesRest, Assembler!FlushRemaining, assembler
<1>3. CASE source = NoSource /\ UNCHANGED <<events, manager, health>>
  <2>1. source' = NoSource /\ begun' = begun
    BY <1>1, DisconnectsEffect
  <2>2. begun = 0 => UNCHANGED assembler
    BY <1>1 DEF FlushesRest, Shown, ErrorKept
  <2>3. SourceShown'
    BY <1>3, <2>1 DEF Shown, SourceShown, manager
  <2>4. ErrorKept'
    BY <1>2, <1>3, <2>1, <2>2, Zenon DEF Shown, ErrorKept, manager, assembler
  <2> QED
    BY <2>3, <2>4 DEF Shown
<1>4. CASE source # NoSource
  <2>1. /\ source' = NoSource /\ begun = 1 /\ begun' = begun
        /\ e \in LifecycleEvent /\ Reports(e) /\ Manager!HandleEvent(e)
        /\ health' = Tracker!AfterEvent(health, e, sent)
    BY <1>1, <1>4, DisconnectsEffect
  <2>2. health \in Tracker!State /\ health.known /\ health.count = last.count /\ sent \in Nat
    BY <2>1 DEF Shown, SourceShown, Typed, Manager!TypeOK
  <2>3. e.count = last.count
    BY DEF Disconnected
  <2>4. /\ health' \in Tracker!State /\ health'.known /\ health'.status = "offline"
        /\ health'.session = 0 /\ health'.count = e.count
        /\ health.error => health'.error
    BY <2>1, <2>2, <2>3, TrackerDisconnects
  <2> HIDE DEF e
  <2>5. storeErrors' = storeErrors
    BY <2>1 DEF Manager!HandleEvent, Manager!Deliver
  <2> QED
    BY <1>2, <2>1, <2>4, <2>5, ShownReports
<1> QED
  BY <1>1, <1>3, <1>4, DisconnectsEffect

LEMMA ShownStep ==
    ASSUME Wired, Chunked, Typed, Shown, [Next]_vars
    PROVE  Shown'
<1>1. CASE EncoderConnects
  <2>1. /\ Connected \in LifecycleEvent /\ Reports(Connected)
        /\ Manager!HandleEvent(Connected)
        /\ health' = Tracker!AfterEvent(health, Connected, sent)
        /\ source' # NoSource /\ begun' = 1 /\ UNCHANGED assembler
    BY <1>1, ConnectEffect
  <2>2. health \in Tracker!State /\ (health.known <=> begun # 0) /\ sent \in Nat
    BY DEF Shown, SourceShown, Typed, Manager!TypeOK
  <2>3. /\ health' \in Tracker!State /\ health'.known /\ health'.status = "online"
        /\ health'.session = 1 /\ health'.count = Connected.count
        /\ begun # 0 /\ health.error => health'.error
    BY <2>1, <2>2, TrackerConnects
  <2>4. UNCHANGED <<storeErrors, reported>>
    BY <2>1 DEF Manager!HandleEvent, Manager!Deliver, assembler
  <2> QED
    BY <2>1, <2>3, <2>4, ShownReports
<1>2. CASE EncoderCloses
  BY <1>2, ShownSuspend DEF EncoderCloses, Announce
<1>3. CASE EncoderBreaks
  BY <1>3, ShownSuspend DEF EncoderBreaks
<1>4. CASE FrameArrives
  <2>1. begun = 1
    BY <1>4 DEF FrameArrives, Adapter!Emit, Wired, OneSession
  <2>2. UNCHANGED <<begun, source, last, health, storeErrors, reported>>
    BY <1>4 DEF FrameArrives, Adapter!Emit, Assembler!Ingest, manager
  <2> QED
    BY <2>1, <2>2, TrackerKeeps, ShownLater DEF Shown, SourceShown, ErrorKept
<1>5. CASE HeartbeatTicks
  <2>1. begun # 0
    BY <1>5 DEF HeartbeatTicks, Manager!Tick, Shown, ErrorKept
  <2>2. UNCHANGED <<begun, source, last, health, storeErrors, reported>>
    BY <1>5 DEF HeartbeatTicks, Manager!Tick, Manager!SendHeartbeat, Manager!delivered,
                adapter, assembler
  <2> QED
    BY <2>1, <2>2, TrackerKeeps, ShownLater DEF Shown, SourceShown, ErrorKept
<1>6. ASSUME NEW c \in calls, StoreStep(c)
      PROVE  Shown'
  <2>1. begun # 0
    BY DEF Shown, ErrorKept
  <2>2. UNCHANGED <<begun, source, last, health, storeErrors, reported>>
    BY <1>6 DEF StoreStep, Manager!StoreAnswers, Manager!StoreFails, Manager!AnswerLost,
                Manager!StoreOnly, Manager!delivered, adapter, assembler
  <2> QED
    BY <2>1, <2>2, TrackerKeeps, ShownLater DEF Shown, SourceShown, ErrorKept
<1>7. ASSUME NEW c \in calls, HandlerReturns(c)
      PROVE  Shown'
  <2>1. begun # 0 /\ health \in Tracker!State /\ health.known /\ c.id \in Nat
    BY DEF Shown, ErrorKept, SourceShown, Typed, Manager!TypeOK, Manager!Call
  <2>2. /\ UNCHANGED <<begun, source, last, reported>>
        /\ storeErrors' = IF c.outcome = "failed" THEN storeErrors + 1 ELSE storeErrors
    BY <1>7 DEF HandlerReturns, Manager!StartReturns, Manager!EndReturns,
                Manager!HeartbeatReturns, Manager!Answered, Manager!CountError,
                Manager!delivered, adapter, assembler
  <2>3. CASE c.outcome = "failed"
    <3>1. health' = Tracker!AfterError(health)
      BY <1>7, <2>3 DEF HandlerReturns, Hears
    <3> QED
      BY <2>1, <2>2, <3>1, TrackerKeeps, ShownLater
  <2>4. CASE c.outcome # "failed"
    <3>1. health' \in {health, Tracker!AfterHeartbeat(health, c.session, c.id)}
      BY <1>7, <2>4 DEF HandlerReturns, Hears
    <3>2. Agrees(health', health)
      BY <2>1, <3>1, TrackerKeeps
    <3>3. storeErrors' > 0 \/ reported' # {} => health'.error
      BY <2>2, <2>4, <3>2 DEF Shown, ErrorKept, Agrees
    <3> QED
      BY <2>1, <2>2, <3>2, <3>3, ShownLater
  <2> QED
    BY <2>3, <2>4
<1>8. ASSUME NEW c \in putting, PutReturns(c)
      PROVE  Shown'
  <2>1. begun # 0 /\ health \in Tracker!State /\ health.known
    BY DEF Shown, ErrorKept, SourceShown, Chunked, InOnePlace
  <2>2. UNCHANGED <<begun, source, last, storeErrors>>
    BY <1>8 DEF PutReturns, adapter, manager
  <2>3. \/ reported' = reported /\ health' = health
        \/ health' = Tracker!AfterError(health)
    BY <1>8 DEF PutReturns, Assembler!PutSucceeds
  <2>4. Agrees(health', health) /\ (reported' # reported => health'.error)
    BY <2>1, <2>3, TrackerKeeps, Zenon
  <2>5. storeErrors' > 0 \/ reported' # {} => health'.error
    BY <2>2, <2>4, Zenon DEF Shown, ErrorKept, Agrees
  <2> QED
    BY <2>1, <2>2, <2>4, <2>5, ShownLater
<1>9. ASSUME NEW c \in creating, CreateReturns(c)
      PROVE  Shown'
  <2>1. /\ begun # 0 /\ health \in Tracker!State /\ health.known /\ c.seqNo \in Nat
    BY DEF Shown, ErrorKept, SourceShown, Chunked, InOnePlace, Typed, Assembler!TypeOK,
           Assembler!Chunk
  <2>2. UNCHANGED <<begun, source, last, storeErrors>>
    BY <1>9 DEF CreateReturns, adapter, manager
  <2>3. \/ reported' = reported /\ health' = Tracker!AfterChunk(health, c.seqNo)
        \/ health' = Tracker!AfterError(health)
    BY <1>9 DEF CreateReturns, Assembler!CreateSucceeds
  <2>4. Agrees(health', health) /\ (reported' # reported => health'.error)
    BY <2>1, <2>3, TrackerKeeps, Zenon
  <2>5. storeErrors' > 0 \/ reported' # {} => health'.error
    BY <2>2, <2>4, Zenon DEF Shown, ErrorKept, Agrees
  <2> QED
    BY <2>1, <2>2, <2>4, <2>5, ShownLater
<1>10. CASE Signal
  BY <1>10, ShownSignal
<1>11. CASE SignalAgain \/ Exit \/ UNCHANGED vars
  <2>1. UNCHANGED <<adapter, manager, assembler, health>>
    BY <1>11 DEF SignalAgain, Exit, vars
  <2>2. SourceShown'
    BY <2>1 DEF Shown, SourceShown, adapter, manager
  <2>3. ErrorKept'
    BY <2>1, Zenon DEF Shown, ErrorKept, adapter, manager, assembler
  <2> QED
    BY <2>2, <2>3 DEF Shown
<1> QED
  BY <1>1, <1>2, <1>3, <1>4, <1>5, <1>6, <1>7, <1>8, <1>9, <1>10, <1>11 DEF Next

LEMMA ShownAlways == Spec => []Shown
  BY ShownInit, ShownStep, WiredAlways, ChunkedAlways, TypedAlways, PTL DEF Spec

\* The gateway's status, the station's, its session and its reconnects are
\* those of the adapter, for any stores and any order of their answers.
THEOREM HealthCorrect == Spec => []HealthMatchesSource
<1>1. Wired /\ Shown => HealthMatchesSource
  <2> SUFFICES ASSUME Wired, Shown
               PROVE  HealthMatchesSource
    OBVIOUS
  <2>1. /\ health.known <=> begun # 0
        /\ begun # 0 =>
             /\ health.status = IF source # NoSource THEN "online" ELSE "offline"
             /\ health.session = IF source # NoSource THEN begun ELSE 0
             /\ health.count = events[Len(events)].count
    BY LastEvent DEF Shown, SourceShown, Wired, OneSession
  <2>2. source # NoSource => begun # 0
    BY DEF Wired, OneSession
  <2>3. Router!GatewayHealth(IF health.known THEN {health} ELSE {}).status = "healthy"
           <=> source # NoSource
    BY <2>1, <2>2 DEF Router!GatewayHealth
  <2>4. Router!StationHealth(health).code = 200 <=> begun # 0
    BY <2>1 DEF Router!StationHealth
  <2>5. begun # 0 => Router!StationHealth(health).body = health
    BY <2>1 DEF Router!StationHealth
  <2> QED
    BY <2>1, <2>3, <2>4, <2>5 DEF HealthMatchesSource
<1> QED
  BY <1>1, WiredAlways, ShownAlways, PTL

\* An error of a store, from whichever component and continuation, is shown
\* from then on.
THEOREM ErrorsReachHealth == Spec => []ErrorsShown
<1>1. Shown => ErrorsShown
  BY DEF Shown, ErrorKept, ErrorsShown
<1> QED
  BY <1>1, ShownAlways, PTL

\* The chunk /health shows is the one completed last, and both stores hold it: a
\* flush that failed, a reconnect or the end of a leg does not change it (lines
\* 141-154 of the tracker, "most recently completed chunk").
LatestChunkShown ==
    IF completed = <<>>
    THEN health.chunk = -1
    ELSE LET c == completed[Len(completed)] IN
         health.chunk = c.seqNo /\ c \in rows /\ c \in objects

\* The part of it that the tracker keeps.
ChunkShown ==
    /\ begun = 0 => completed = <<>>
    /\ health.chunk = IF completed = <<>> THEN -1 ELSE completed[Len(completed)].seqNo

\* Errors and heartbeats leave the chunk shown as it is.
LEMMA TrackerKeepsChunk ==
    ASSUME NEW h \in Tracker!State, h.known, NEW s, NEW at \in Nat
    PROVE  /\ Tracker!AfterError(h).chunk = h.chunk
           /\ Tracker!AfterHeartbeat(h, s, at).chunk = h.chunk
           /\ Tracker!AfterChunk(h, at).chunk = at
  BY DEF Tracker!State, Tracker!AfterError, Tracker!AfterHeartbeat, Tracker!AfterChunk

\* So do events, but for the creation of the one session.
LEMMA EventKeepsChunk ==
    ASSUME NEW h \in Tracker!State, h.known, NEW e \in LifecycleEvent,
           e.type # "created", NEW at \in Nat
    PROVE  Tracker!AfterEvent(h, e, at).chunk = h.chunk
<1>1. CASE e.type = "reconnected"
  <2>1. Tracker!AfterEvent(h, e, at) = Tracker!AfterReconnected(h, e, at)
    BY <1>1, Zenon DEF Tracker!AfterEvent
  <2>2. Tracker!AfterReconnected(h, e, at).chunk = h.chunk
    BY DEF Tracker!AfterReconnected, Tracker!State
  <2> QED
    BY <2>1, <2>2
<1>2. CASE e.type = "ended"
  <2>1. Tracker!AfterEvent(h, e, at) = Tracker!AfterEnded(h)
    BY <1>2, Zenon DEF Tracker!AfterEvent
  <2>2. Tracker!AfterEnded(h).chunk = h.chunk
    BY DEF Tracker!AfterEnded, Tracker!State
  <2> QED
    BY <2>1, <2>2
<1> QED
  BY <1>1, <1>2 DEF LifecycleEvent

\* A step that completes no chunk and shows no other.
LEMMA ChunkShownStays ==
    ASSUME ChunkShown, begun' = begun \/ begun' # 0, completed' = completed,
           health'.chunk = health.chunk
    PROVE  ChunkShown'
  BY DEF ChunkShown

LEMMA ChunkShownStep ==
    ASSUME Wired, Chunked, Typed, Shown, ChunkShown, [Next]_vars
    PROVE  ChunkShown'
<1>1. CASE EncoderConnects
  <2>1. /\ Connected \in LifecycleEvent /\ begun' = 1 /\ completed' = completed
        /\ health' = Tracker!AfterEvent(health, Connected, sent) /\ sent \in Nat
    BY <1>1, ConnectEffect DEF assembler, Typed, Manager!TypeOK
  <2>2. CASE begun = 0
    <3>1. Connected.type = "created"
      BY <2>2 DEF Connected
    <3>2. health' = Tracker!AfterCreated(Connected, sent)
      BY <2>1, <3>1, Zenon DEF Tracker!AfterEvent
    <3> QED
      BY <2>1, <2>2, <3>2 DEF Tracker!AfterCreated, ChunkShown
  <2>3. CASE begun # 0
    <3>1. Connected.type # "created" /\ health \in Tracker!State /\ health.known
      BY <2>3 DEF Connected, Shown, SourceShown
    <3> QED
      BY <2>1, <3>1, EventKeepsChunk, ChunkShownStays
  <2> QED
    BY <2>2, <2>3
<1>2. ASSUME EncoderCloses \/ EncoderBreaks
      PROVE  ChunkShown'
  <2>1. PICK reason \in {"clean_disconnect", "error"} :
           /\ Adapter!Suspend(reason)
           /\ Manager!HandleEvent(events'[Len(events')])
           /\ \/ Notice(events'[Len(events')])
              \/ health' = Tracker!AfterError(
                              Tracker!AfterEvent(health, events'[Len(events')], sent))
    BY <1>2 DEF EncoderCloses, EncoderBreaks, Announce
  <2> DEFINE e == Disconnected(reason)
             h == Tracker!AfterEvent(health, e, sent)
  <2>2. e \in LifecycleEvent /\ events'[Len(events')] = e /\ begun = 1 /\ begun' = begun
    BY <2>1, SuspendEffect
  <2>3. completed' = completed /\ sent \in Nat /\ e.type # "created"
    BY <1>2 DEF EncoderCloses, EncoderBreaks, assembler, Typed, Manager!TypeOK, Disconnected
  <2>4. health \in Tracker!State /\ health.known
    BY <2>2 DEF Shown, SourceShown
  <2>5. h.chunk = health.chunk
    BY <2>2, <2>3, <2>4, EventKeepsChunk
  <2>6. h \in Tracker!State /\ h.known
    BY <2>3, <2>4, TrackerDisconnects
  <2> HIDE DEF e, h
  <2>7. health' = h \/ health' = Tracker!AfterError(h)
    BY <2>1, <2>2 DEF Notice, h
  <2>8. Tracker!AfterError(h).chunk = h.chunk
    BY <2>2, <2>3, <2>6, TrackerKeepsChunk
  <2>9. health'.chunk = health.chunk
    BY <2>5, <2>7, <2>8
  <2> QED
    BY <2>2, <2>3, <2>9, ChunkShownStays
<1>3. CASE FrameArrives
  BY <1>3, ChunkShownStays DEF FrameArrives, Adapter!Emit, Assembler!Ingest
<1>4. CASE HeartbeatTicks
  BY <1>4, ChunkShownStays DEF HeartbeatTicks, adapter, assembler
<1>5. ASSUME NEW c \in calls, StoreStep(c)
      PROVE  ChunkShown'
  BY <1>5, ChunkShownStays DEF StoreStep, adapter, assembler
<1>6. ASSUME NEW c \in calls, HandlerReturns(c)
      PROVE  ChunkShown'
  <2>1. begun # 0 /\ health \in Tracker!State /\ health.known /\ c.id \in Nat
    BY DEF Shown, ErrorKept, SourceShown, Typed, Manager!TypeOK, Manager!Call
  <2>2. begun' = begun /\ completed' = completed
    BY <1>6 DEF HandlerReturns, adapter, assembler
  <2>3. PICK s : health' \in {health, Tracker!AfterError(health),
                              Tracker!AfterHeartbeat(health, s, c.id)}
    BY <1>6 DEF HandlerReturns, Hears
  <2> QED
    BY <2>1, <2>2, <2>3, TrackerKeepsChunk, ChunkShownStays
<1>7. ASSUME NEW c \in putting, PutReturns(c)
      PROVE  ChunkShown'
  <2>1. begun # 0 /\ health \in Tracker!State /\ health.known
    BY DEF Shown, ErrorKept, SourceShown, Chunked, InOnePlace
  <2>2. begun' = begun /\ completed' = completed
    BY <1>7 DEF PutReturns, Assembler!PutSucceeds, Assembler!PutFails, adapter
  <2>3. health' \in {health, Tracker!AfterError(health)}
    BY <1>7 DEF PutReturns
  <2> QED
    BY <2>1, <2>2, <2>3, TrackerKeepsChunk, ChunkShownStays
<1>8. ASSUME NEW c \in creating, CreateReturns(c)
      PROVE  ChunkShown'
  <2>1. /\ begun # 0 /\ health \in Tracker!State /\ health.known /\ c.seqNo \in Nat
        /\ c \in Assembler!Chunk /\ completed \in Seq(Assembler!Chunk)
    BY DEF Shown, ErrorKept, SourceShown, Chunked, InOnePlace, Typed, Assembler!TypeOK,
           Assembler!Chunk
  <2>2. begun' = begun
    BY <1>8 DEF CreateReturns, adapter
  <2>3. CASE Assembler!CreateSucceeds(c) /\ health' = Tracker!AfterChunk(health, c.seqNo)
    <3>1. completed' = Append(completed, c)
      BY <2>3 DEF Assembler!CreateSucceeds
    <3>2. completed' # <<>> /\ completed'[Len(completed')] = c
      BY <2>1, <3>1
    <3>3. health'.chunk = c.seqNo
      BY <2>1, <2>3, TrackerKeepsChunk
    <3> QED
      BY <2>1, <2>2, <3>2, <3>3 DEF ChunkShown
  <2>4. CASE CreateFailure(c) /\ health' = Tracker!AfterError(health)
    <3>1. completed' = completed
      BY <2>4 DEF CreateFailure, Assembler!CreateFails
    <3>2. health'.chunk = health.chunk
      BY <2>1, <2>4, TrackerKeepsChunk
    <3> QED
      BY <2>2, <3>1, <3>2, ChunkShownStays
  <2> QED
    BY <1>8, <2>3, <2>4 DEF CreateReturns
<1>9. CASE Signal
  <2>1. Disconnects /\ FlushesRest
    BY <1>9 DEF Signal
  <2>2. completed' = completed
    BY <2>1 DEF FlushesRest, Assembler!FlushRemaining, assembler
  <2> DEFINE e == Disconnected("clean_disconnect")
  <2>3. CASE UNCHANGED health
    BY <2>1, <2>2, <2>3, DisconnectsEffect, ChunkShownStays
  <2>4. CASE /\ begun = 1 /\ e \in LifecycleEvent
             /\ health' = Tracker!AfterEvent(health, e, sent)
    <3>1. health \in Tracker!State /\ health.known /\ sent \in Nat /\ e.type # "created"
      BY <2>4 DEF Shown, SourceShown, Typed, Manager!TypeOK, Disconnected
    <3>2. health'.chunk = health.chunk
      BY <2>4, <3>1, EventKeepsChunk
    <3>3. begun' = begun
      BY <2>1, DisconnectsEffect
    <3> QED
      BY <2>2, <3>2, <3>3, ChunkShownStays
  <2> QED
    BY <2>1, <2>3, <2>4, DisconnectsEffect
<1>10. CASE SignalAgain \/ Exit \/ UNCHANGED vars
  BY <1>10, ChunkShownStays DEF SignalAgain, Exit, vars, adapter, assembler
<1> QED
  BY <1>1, <1>2, <1>3, <1>4, <1>5, <1>6, <1>7, <1>8, <1>9, <1>10 DEF Next

\* For any stores, in whatever order the flushes come to an end.
THEOREM ChunkOnHealth == Spec => []LatestChunkShown
<1>1. Init => ChunkShown
  BY DEF Init, Tracker!Unknown, ChunkShown
<1>2. AssemblerProved!Spec => []AssemblerProved!ToldOnlyPersisted
  BY AssemblerProved!ToldPersisted
<1>3. Typed /\ ChunkShown /\ AssemblerProved!ToldOnlyPersisted => LatestChunkShown
  <2> SUFFICES ASSUME Typed, ChunkShown, AssemblerProved!ToldOnlyPersisted,
                      completed # <<>>
               PROVE  completed[Len(completed)] \in rows \cap objects
    BY DEF ChunkShown, LatestChunkShown
  <2>1. Len(completed) \in 1..Len(completed)
    BY DEF Typed, Assembler!TypeOK
  <2> QED
    BY <2>1 DEF AssemblerProved!ToldOnlyPersisted
<1> QED
  BY <1>1, <1>2, <1>3, ChunkShownStep, AssemblerHolds, WiredAlways, ChunkedAlways,
     TypedAlways, ShownAlways, PTL DEF Spec

-----------------------------------------------------------------------------
(***************************************************************************)
(* The shutdown.  A chunk that was cut off is in flight, in a row or named *)
(* by an error; a frame that was accepted is buffered or in such a chunk;  *)
(* and once the signal came nothing is buffered and nothing is accepted.   *)
(***************************************************************************)
ChunksFated == flushed \subseteq putting \cup creating \cup rows \cup reported

\* The frames the assembler holds or has cut off.
Held == {buffer[j] : j \in 1..Len(buffer)}
        \cup UNION {{c.frames[j] : j \in 1..Len(c.frames)} : c \in flushed}

FramesHeld == \A i \in 1..Len(ingested) : ingested[i] \in Held

Stopping ==
    /\ signals \in Nat
    /\ phase = "running" => signals = 0 /\ awaited = {}
    /\ phase = "stopping" => signals = 1
    /\ phase # "running" => buffer = <<>>
    /\ awaited \subseteq flushed
    /\ phase = "exited" /\ signals = 1 => awaited \cap (putting \cup creating) = {}
    /\ phase = "exited" /\ InMemory => calls = {} /\ putting = {} /\ creating = {}

Closing == ChunksFated /\ FramesHeld /\ Stopping

LEMMA ClosingInit == Init => Closing
  BY DEF Init, Closing, ChunksFated, FramesHeld, Stopping

\* Steps that leave the assembler and the process alone, before the exit.
LEMMA ClosingElsewhere ==
    ASSUME Closing, phase # "exited", UNCHANGED <<assembler, process>>
    PROVE  Closing'
<1> USE DEF assembler, process
<1>1. ChunksFated' /\ FramesHeld'
  BY DEF Closing, ChunksFated, FramesHeld, Held
<1>2. Stopping'
  BY DEF Closing, Stopping
<1> QED
  BY <1>1, <1>2 DEF Closing

\* A chunk in flight moves on: to its next write, to its row, or to an error.
LEMMA ClosingFlights ==
    ASSUME Closing, phase # "exited", ChunksFated',
           UNCHANGED <<buffer, ingested, flushed, process>>
    PROVE  Closing'
<1>1. FramesHeld'
  BY DEF Closing, FramesHeld, Held
<1>2. Stopping'
  BY DEF Closing, Stopping, process
<1> QED
  BY <1>1, <1>2 DEF Closing

LEMMA ClosingPut ==
    ASSUME Closing, NEW c \in putting, PutReturns(c)
    PROVE  Closing'
<1>1. /\ phase # "exited" /\ UNCHANGED <<buffer, ingested, flushed, rows, process>>
      /\ putting' = putting \ {c}
      /\ \/ creating' = creating \cup {c} /\ reported' = reported
         \/ creating' = creating /\ reported' = reported \cup {c}
  BY DEF PutReturns, Alive, Assembler!PutSucceeds, Assembler!PutFails, Assembler!Rest
<1>2. ChunksFated'
  BY <1>1 DEF Closing, ChunksFated
<1> QED
  BY <1>1, <1>2, ClosingFlights

LEMMA ClosingCreate ==
    ASSUME Closing, NEW c \in creating, CreateReturns(c)
    PROVE  Closing'
<1>1. /\ phase # "exited" /\ UNCHANGED <<buffer, ingested, flushed, putting, process>>
      /\ creating' = creating \ {c} /\ rows \subseteq rows' /\ reported \subseteq reported'
      /\ c \in rows' \cup reported'
  BY DEF CreateReturns, CreateFailure, Alive, Assembler!CreateSucceeds,
         Assembler!CreateFails, Assembler!Rest
<1>2. ChunksFated'
  BY <1>1 DEF Closing, ChunksFated
<1> QED
  BY <1>1, <1>2, ClosingFlights

\* What is cut off is held in its chunk.
LEMMA CutHolds ==
    ASSUME ChunksFated, NEW fs, NEW total, Assembler!Cut(fs, total),
           UNCHANGED <<creating, rows, reported>>
    PROVE  /\ ChunksFated' /\ buffer' = <<>> /\ flushed \subseteq flushed'
           /\ putting' \ putting \subseteq flushed'
           /\ {fs[j] : j \in 1..Len(fs)} \subseteq Held'
           /\ UNION {{c.frames[j] : j \in 1..Len(c.frames)} : c \in flushed}
                 \subseteq Held'
<1> DEFINE k == Assembler!ChunkOf(fs, total)
<1>1. k.frames = fs
  BY DEF Assembler!ChunkOf
<1> HIDE DEF k
<1>2. /\ buffer' = <<>> /\ putting' = putting \cup {k} /\ flushed' = flushed \cup {k}
  BY DEF Assembler!Cut, k
<1>3. {fs[j] : j \in 1..Len(fs)} \subseteq Held'
  BY <1>1, <1>2 DEF Held
<1>4. UNION {{c.frames[j] : j \in 1..Len(c.frames)} : c \in flushed} \subseteq Held'
  BY <1>2 DEF Held
<1>5. ChunksFated'
  BY <1>2 DEF ChunksFated
<1> QED
  BY <1>2, <1>3, <1>4, <1>5

LEMMA ClosingFrame ==
    ASSUME Wired, Chunked, Closing, FrameArrives
    PROVE  Closing'
<1>1. PICK d \in Durations :
         /\ Assembler!Ingest(Assembler!NextFrame(d))
         /\ Assembler!NextFrame(d) \in Assembler!Frame
         /\ UNCHANGED process
  BY FrameEffect DEF Chunked
<1> DEFINE f == Assembler!NextFrame(d)
           fs == Append(buffer, f)
           total == buffered + f.duration
<1>2. phase = "running" /\ UNCHANGED <<phase, awaited, signals>>
  BY <1>1 DEF FrameArrives, process
<1>3. /\ ingested' = Append(ingested, f)
      /\ UNCHANGED <<creating, rows, reported>>
      /\ \/ Assembler!Cut(fs, total)
         \/ buffer' = fs /\ UNCHANGED <<putting, flushed>>
  BY <1>1 DEF Assembler!Ingest, Assembler!stores
<1>4. f \in Assembler!Frame /\ buffer \in Seq(Assembler!Frame)
      /\ ingested \in Seq(Assembler!Frame)
  BY <1>1 DEF Chunked, StartsApart, FramesDelivered
<1> HIDE DEF f, total
<1>5. {buffer[j] : j \in 1..Len(buffer)} \cup {f} \subseteq {fs[j] : j \in 1..Len(fs)}
  BY <1>4
<1> HIDE DEF fs
<1>6. ChunksFated' /\ Held \cup {f} \subseteq Held' /\ flushed \subseteq flushed'
  <2>1. CASE Assembler!Cut(fs, total)
    <3>1. /\ ChunksFated' /\ flushed \subseteq flushed'
          /\ {fs[j] : j \in 1..Len(fs)} \subseteq Held'
          /\ UNION {{c.frames[j] : j \in 1..Len(c.frames)} : c \in flushed}
                \subseteq Held'
      BY <1>3, <2>1, CutHolds DEF Closing
    <3> QED
      BY <1>5, <3>1 DEF Held
  <2>2. CASE buffer' = fs /\ UNCHANGED <<putting, flushed>>
    <3>1. Held' = {fs[j] : j \in 1..Len(fs)} \cup
                  UNION {{c.frames[j] : j \in 1..Len(c.frames)} : c \in flushed}
      BY <2>2 DEF Held
    <3>2. Held \cup {f} \subseteq Held'
      BY <1>5, <3>1 DEF Held
    <3>3. ChunksFated'
      BY <1>3, <2>2 DEF Closing, ChunksFated
    <3> QED
      BY <2>2, <3>2, <3>3
  <2> QED
    BY <1>3, <2>1, <2>2
<1>7. FramesHeld'
  <2>1. \A i \in 1..Len(ingested') :
           ingested'[i] = f \/ \E n \in 1..Len(ingested) : ingested'[i] = ingested[n]
    BY <1>3, <1>4
  <2> QED
    BY <1>6, <2>1 DEF Closing, FramesHeld
<1>8. Stopping'
  BY <1>2, <1>6 DEF Closing, Stopping
<1> QED
  BY <1>6, <1>7, <1>8 DEF Closing

LEMMA ClosingSignal ==
    ASSUME Closing, Signal
    PROVE  Closing'
<1>1. /\ FlushesRest /\ phase = "running" /\ phase' = "stopping"
      /\ signals' = signals + 1 /\ awaited' = putting' \ putting
  BY DEF Signal, Awaited
<1>2. CASE buffer = <<>>
  <2>1. UNCHANGED assembler
    BY <1>1, <1>2 DEF FlushesRest
  <2>2. ChunksFated' /\ FramesHeld'
    BY <2>1 DEF assembler, Closing, ChunksFated, FramesHeld, Held
  <2>3. Stopping'
    BY <1>1, <1>2, <2>1 DEF assembler, Closing, Stopping
  <2> QED
    BY <2>2, <2>3 DEF Closing
<1>3. CASE buffer # <<>>
  <2>1. /\ Assembler!Cut(buffer, buffered)
        /\ UNCHANGED <<creating, rows, reported, ingested>>
    BY <1>1, <1>3 DEF FlushesRest, Assembler!FlushRemaining, Assembler!stores
  <2>2. /\ ChunksFated' /\ buffer' = <<>> /\ awaited' \subseteq flushed'
        /\ Held \subseteq Held'
    BY <1>1, <2>1, CutHolds DEF Closing, Held
  <2>3. FramesHeld'
    BY <2>1, <2>2 DEF Closing, FramesHeld
  <2>4. Stopping'
    BY <1>1, <2>2 DEF Closing, Stopping
  <2> QED
    BY <2>2, <2>3, <2>4 DEF Closing
<1> QED
  BY <1>2, <1>3

LEMMA ClosingStep ==
    ASSUME Wired, Chunked, Closing, [Next]_vars
    PROVE  Closing'
<1>1. CASE EncoderConnects \/ EncoderCloses \/ EncoderBreaks \/ HeartbeatTicks
           \/ \E c \in calls : StoreStep(c) \/ HandlerReturns(c)
  BY <1>1, ClosingElsewhere
  DEF EncoderConnects, EncoderCloses, EncoderBreaks, HeartbeatTicks, StoreStep,
      HandlerReturns, Alive
<1>2. CASE Exit \/ SignalAgain \/ UNCHANGED vars
  <2>1. UNCHANGED <<calls, assembler>>
    BY <1>2 DEF Exit, SignalAgain, vars, manager
  <2>2. ChunksFated' /\ FramesHeld'
    BY <2>1 DEF assembler, Closing, ChunksFated, FramesHeld, Held
  <2>3. Stopping'
    BY <1>2, <2>1
    DEF assembler, Closing, Stopping, Exit, SignalAgain, FlushOver, Settled, vars, process
  <2> QED
    BY <2>2, <2>3 DEF Closing
<1> QED
  BY <1>1, <1>2, ClosingPut, ClosingCreate, ClosingFrame, ClosingSignal DEF Next

LEMMA ClosingAlways == Spec => []Closing
  BY ClosingInit, ClosingStep, WiredAlways, ChunkedAlways, PTL DEF Spec

\* Every component keeps its types behind the wiring, and what the shutdown
\* awaits was cut off.
THEOREM TypeCorrect == Spec => []TypeOK
<1>1. Wired /\ Typed /\ Shown /\ Closing => TypeOK
  BY DEF Wired, OneSession, Typed, Shown, SourceShown, Closing, Stopping, TypeOK
<1> QED
  BY <1>1, WiredAlways, TypedAlways, ShownAlways, ClosingAlways, PTL

\* The window that was open when the signal came has a row at the exit, or an
\* error named it, for any stores.
THEOREM OpenWindowKept == Spec => []LastWindowKept
<1>1. Closing => LastWindowKept
  BY DEF Closing, ChunksFated, Stopping, LastWindowKept
<1> QED
  BY <1>1, ClosingAlways, PTL

\* With in-memory stores every accepted frame is in a stored chunk at the exit,
\* unless an error was reported.
THEOREM MemoryAudioKept ==
    ASSUME InMemory
    PROVE  Spec => []AudioKeptAtExit
<1>1. Closing => AudioKeptAtExit
  <2> SUFFICES ASSUME Closing, phase = "exited", reported = {},
                      NEW i \in 1..Len(ingested)
               PROVE  \E c \in rows : \E j \in 1..Len(c.frames) : c.frames[j] = ingested[i]
    BY DEF AudioKeptAtExit
  <2>1. buffer = <<>> /\ flushed \subseteq rows
    BY DEF Closing, Stopping, ChunksFated
  <2>2. ingested[i] \in Held
    BY DEF Closing, FramesHeld
  <2> QED
    BY <2>1, <2>2 DEF Held
<1> QED
  BY <1>1, ClosingAlways, PTL
-----------------------------------------------------------------------------
(***************************************************************************)
(* The session record with in-memory stores, where every write is applied  *)
(* before another callback runs.                                           *)
(***************************************************************************)
\* What the invariant of the in-memory store says when no call is in flight.
RowSaysLast ==
    calls = {} =>
        IF last.type = "none" THEN row[1].status = "absent"
        ELSE row[1].status = Manager!StatusAfter(last)

LEMMA RowSaysLastAlways ==
    ASSUME InMemory
    PROVE  Spec => []RowSaysLast
<1>1. ManagerProved!Spec => []ManagerProved!MemoryInv
  BY ManagerProved!MemoryAlways
<1>2. Wired /\ ManagerProved!MemoryInv => RowSaysLast
  <2> SUFFICES ASSUME Wired, ManagerProved!MemoryInv, calls = {}
               PROVE  IF last.type = "none" THEN row[1].status = "absent"
                      ELSE row[1].status = Manager!StatusAfter(last)
    BY DEF RowSaysLast
  <2>1. CASE last.type = "none"
    <3>1. last.session = 0 /\ 1 \in ManagerProved!Sessions
      BY <2>1 DEF ManagerProved!MemoryInv, ManagerProved!AloneInv,
                  ManagerProved!Tracked, ManagerProved!Sessions
    <3> QED
      BY <2>1, <3>1
      DEF ManagerProved!MemoryInv, ManagerProved!AloneInv, ManagerProved!RowFollows
  <2>2. CASE last.type # "none"
    <3>1. begun = 1
      BY <2>2 DEF Wired, OneSession, EventsDelivered, Manager!NoEvent
    <3>2. last.session = 1
      BY <3>1, LastEvent DEF LifecycleEvent
    <3>3. row[1].status = ManagerProved!StatusAfter(last)
      BY <2>2, <3>2
      DEF ManagerProved!MemoryInv, ManagerProved!Healthy, ManagerProved!AloneInv,
          ManagerProved!RowFollows, ManagerProved!Matches
    <3> QED
      BY <2>2, <3>3
      DEF ManagerProved!StatusAfter, Manager!StatusAfter, ManagerProved!Start, Manager!Start
  <2> QED
    BY <2>1, <2>2
<1> QED
  BY <1>1, <1>2, WiredAlways, ManagerHolds, PTL

\* With in-memory stores no session record is live at the exit.
THEOREM MemoryEnded ==
    ASSUME InMemory
    PROVE  Spec => []EndedAtExit
<1>1. Wired /\ Closing /\ RowSaysLast => EndedAtExit
  <2> SUFFICES ASSUME Wired, Closing, RowSaysLast, phase = "exited"
               PROVE  row[1].status \in {"absent", "ended", "failed"}
    BY DEF EndedAtExit
  <2>1. calls = {}
    BY DEF Closing, Stopping
  <2>2. last.type = "none" \/ last.type = "ended"
    BY DEF Wired, OneSession, EventsDelivered, Manager!NoEvent
  <2> QED
    BY <2>1, <2>2 DEF RowSaysLast, Manager!StatusAfter, Manager!Start
<1> QED
  BY <1>1, WiredAlways, ClosingAlways, RowSaysLastAlways, PTL

\* Audio is held or cut off only of a session on record.
Recorded == buffer # <<>> \/ flushed # {} => row[1].status # "absent"

\* No call takes a row away.
LEMMA RowStays ==
    ASSUME Typed, InMemory, NEW c \in calls, StoreStep(c), row[1].status # "absent"
    PROVE  row'[1].status # "absent"
<1>1. /\ c.op \in {"created", "reconnected", "heartbeat", "ended"}
      /\ c.session \in Manager!Sessions
      /\ row \in [Manager!Sessions -> Manager!Row]
  BY DEF Typed, Manager!TypeOK, Manager!Call
<1>2. Manager!StoreAnswers(c)
  BY LocalAssumption DEF StoreStep
<1>3. CASE UNCHANGED row
  BY <1>3
<1>4. CASE /\ Manager!Permitted(c)
           /\ row' = [row EXCEPT ![c.session] = Manager!Written(c)]
  <2>1. c.session = 1 /\ 1 \in Manager!Sessions
    BY <1>1 DEF Manager!Sessions
  <2>2. row[1] \in Manager!Row
    BY <1>1, <2>1
  <2>3. CASE c.op = "created"
    <3>1. Manager!Written(c).status = "live"
      BY <2>3 DEF Manager!Written
    <3> QED
      BY <1>1, <1>4, <2>1, <3>1
  <2>4. CASE c.op = "reconnected"
    <3>1. Manager!Written(c) = Manager!Revived(c)
      BY <2>4, Zenon DEF Manager!Written
    <3>2. Manager!Revived(c).status = "live"
      BY <2>1, <2>2 DEF Manager!Revived, Manager!Row
    <3> QED
      BY <1>1, <1>4, <2>1, <3>1, <3>2
  <2>5. CASE c.op = "heartbeat"
    <3>1. Manager!Written(c) = [row[1] EXCEPT !.beats = @ + 1]
      BY <2>1, <2>5, Zenon DEF Manager!Written
    <3>2. Manager!Written(c).status = row[1].status
      BY <2>2, <3>1 DEF Manager!Row
    <3> QED
      BY <1>1, <1>4, <2>1, <3>2
  <2>6. CASE c.op = "ended"
    <3>1. Manager!Written(c) =
             [row[1] EXCEPT !.endedAt = TRUE,
                            !.status = IF c.reason = "error" THEN "failed" ELSE "ended"]
      BY <2>1, <2>6, Zenon DEF Manager!Written
    <3>2. Manager!Written(c).status \in {"failed", "ended"}
      BY <2>2, <3>1 DEF Manager!Row
    <3> QED
      BY <1>1, <1>4, <2>1, <3>2
  <2> QED
    BY <1>1, <2>3, <2>4, <2>5, <2>6
<1> QED
  BY <1>2, <1>3, <1>4 DEF Manager!StoreAnswers

LEMMA RecordedStep ==
    ASSUME InMemory, Wired, Chunked, Typed, RowSaysLast, Recorded, [Next]_vars
    PROVE  Recorded'
<1>1. CASE FrameArrives
  <2>1. source # NoSource /\ begun = 1 /\ row' = row /\ calls = {}
    BY <1>1 DEF FrameArrives, Adapter!Emit, Wired, OneSession, manager, Settled
  <2>2. last.type # "ended" /\ last.type # "none"
    BY <2>1, LastEvent DEF Wired, EventsDelivered, LifecycleEvent
  <2>3. row[1].status # "absent"
    BY <2>1, <2>2 DEF RowSaysLast, Manager!StatusAfter
  <2> QED
    BY <2>1, <2>3 DEF Recorded
<1>2. ASSUME UNCHANGED row, buffer' # <<>> => buffer # <<>>,
             flushed' # {} => buffer # <<>> \/ flushed # {}
      PROVE  Recorded'
  BY <1>2 DEF Recorded
<1>3. CASE EncoderConnects \/ EncoderCloses \/ EncoderBreaks
  BY <1>2, <1>3
  DEF EncoderConnects, EncoderCloses, EncoderBreaks, Announce, Manager!HandleEvent,
      Manager!Deliver, assembler
<1>4. CASE HeartbeatTicks
  BY <1>2, <1>4
  DEF HeartbeatTicks, Manager!Tick, Manager!SendHeartbeat, assembler
<1>5. ASSUME NEW c \in calls, StoreStep(c)
      PROVE  Recorded'
  BY <1>5, RowStays DEF StoreStep, assembler, Recorded
<1>6. ASSUME NEW c \in calls, HandlerReturns(c)
      PROVE  Recorded'
  BY <1>2, <1>6
  DEF HandlerReturns, Manager!StartReturns, Manager!EndReturns,
      Manager!HeartbeatReturns, Manager!Answered, assembler
<1>7. ASSUME NEW c \in putting, PutReturns(c)
      PROVE  Recorded'
  BY <1>2, <1>7
  DEF PutReturns, Assembler!PutSucceeds, Assembler!PutFails, Assembler!Rest, manager
<1>8. ASSUME NEW c \in creating, CreateReturns(c)
      PROVE  Recorded'
  BY <1>2, <1>8
  DEF CreateReturns, CreateFailure, Assembler!CreateSucceeds, Assembler!CreateFails,
      Assembler!Rest, manager
<1>9. CASE Signal
  <2>1. row' = row
    <3>1. Disconnects
      BY <1>9 DEF Signal
    <3> QED
      BY <3>1, DisconnectsEffect DEF manager, Manager!HandleEvent, Manager!Deliver
  <2>2. /\ buffer' # <<>> => buffer # <<>>
        /\ flushed' # {} => buffer # <<>> \/ flushed # {}
    BY <1>9 DEF Signal, FlushesRest, Assembler!FlushRemaining, Assembler!Cut, assembler
  <2> QED
    BY <1>2, <2>1, <2>2
<1>10. CASE SignalAgain \/ Exit \/ UNCHANGED vars
  BY <1>2, <1>10 DEF SignalAgain, Exit, vars, manager, assembler
<1> QED
  BY <1>1, <1>3, <1>4, <1>5, <1>6, <1>7, <1>8, <1>9, <1>10 DEF Next

\* With in-memory stores no chunk row is without its session's row.
THEOREM MemoryChunksHaveSession ==
    ASSUME InMemory
    PROVE  Spec => []ChunksHaveSession
<1>1. Init => Recorded
  BY DEF Init, Recorded
<1>2. Wired /\ Chunked /\ Typed /\ RowSaysLast /\ Recorded /\ [Next]_vars => Recorded'
  BY RecordedStep
<1>3. Recorded /\ Chunked => ChunksHaveSession
  BY DEF Recorded, Chunked, InOnePlace, ChunksHaveSession
<1> QED
  BY <1>1, <1>2, <1>3, WiredAlways, ChunkedAlways, TypedAlways, RowSaysLastAlways, PTL
  DEF Spec

-----------------------------------------------------------------------------
(***************************************************************************)
(* What is kept of the audio and of the record with any stores: how far    *)
(* the gateway falls short of AudioKeptAtExit and ChunksHaveSession when   *)
(* writes overlap and fail.                                                *)
(***************************************************************************)

\* The exit drops nothing but windows whose flush was under way when the signal
\* came: every frame the adapter emitted is otherwise stored, or an error named
\* its chunk (lines 229-244).
ExitDropsFlightsOnly ==
    phase = "exited" /\ signals = 1 =>
        \A i \in 1..Len(frames) :
            \E c \in rows \cup reported \cup ((putting \cup creating) \ awaited) :
                \E j \in 1..Len(c.frames) : c.frames[j] = ingested[i]

\* With any stores, every frame is stored or reported at the exit after one
\* signal, but for windows that had filled up before the signal.
THEOREM ExitDrops == Spec => []ExitDropsFlightsOnly
<1>1. Closing /\ Chunked => ExitDropsFlightsOnly
  <2> SUFFICES ASSUME Closing, Chunked, phase = "exited", signals = 1,
                      NEW i \in 1..Len(frames)
               PROVE  \E c \in rows \cup reported \cup ((putting \cup creating) \ awaited) :
                         \E j \in 1..Len(c.frames) : c.frames[j] = ingested[i]
    BY DEF ExitDropsFlightsOnly
  <2>1. buffer = <<>> /\ awaited \cap (putting \cup creating) = {}
    BY DEF Closing, Stopping
  <2>2. ingested[i] \in Held
    BY DEF Closing, FramesHeld, Chunked, FramesDelivered
  <2>3. PICK c \in flushed : \E j \in 1..Len(c.frames) : c.frames[j] = ingested[i]
    BY <2>1, <2>2 DEF Held
  <2>4. c \in rows \cup reported \cup ((putting \cup creating) \ awaited)
    BY <2>1 DEF Closing, ChunksFated
  <2> QED
    BY <2>3, <2>4
<1> QED
  BY <1>1, ClosingAlways, ChunkedAlways, PTL

\* A record that is live at the exit has its end still under way, or a write of
\* it failed: process.exit overtook it (lines 238-244).
EndOvertaken ==
    phase = "exited" /\ row[1].status = "live" =>
        storeErrors > 0 \/ \E c \in calls : c.op = "ended" /\ c.outcome # "ok"

\* With any stores: as long as no two handlers of the manager overlap, nothing
\* but the missing await of the end's write leaves a record live at the exit.
THEOREM ExitEnds == Spec /\ []ManagerProved!OneAtATime => []EndOvertaken
<1>1. ManagerProved!Spec /\ []ManagerProved!OneAtATime => []ManagerProved!AloneInv
  BY ManagerProved!AloneAlways
<1>2. Wired /\ Typed /\ Closing /\ ManagerProved!AloneInv => EndOvertaken
  <2> SUFFICES ASSUME Wired, Typed, Closing, ManagerProved!AloneInv,
                      phase = "exited", row[1].status = "live", storeErrors = 0,
                      \A c \in calls : c.op = "ended" => c.outcome = "ok"
               PROVE  FALSE
    BY DEF EndOvertaken, Typed, Manager!TypeOK
  <2>1. last.type = "none" \/ last.type = "ended"
    BY DEF Wired, OneSession, EventsDelivered, Manager!NoEvent
  <2>2. CASE last.type = "none"
    <3>1. last.session = 0 /\ 1 \in ManagerProved!Sessions
      BY <2>2 DEF ManagerProved!AloneInv, ManagerProved!Tracked, ManagerProved!Sessions
    <3> QED
      BY <3>1 DEF ManagerProved!AloneInv, ManagerProved!RowFollows
  <2>3. CASE last.type = "ended"
    <3>1. \A c \in calls : c.op = "ended" /\ c.outcome = "ok"
      BY <2>3 DEF ManagerProved!AloneInv, ManagerProved!CallFollows, ManagerProved!Start
    <3>2. ManagerProved!Matches
      BY <2>3, <3>1
      DEF ManagerProved!AloneInv, ManagerProved!RowFollows, ManagerProved!Clean,
          ManagerProved!SentOnce, ManagerProved!Unwritten
    <3>3. last.session = 1
      BY <2>3, LastEvent DEF Wired, OneSession, EventsDelivered, Manager!NoEvent, LifecycleEvent
    <3> QED
      BY <2>3, <3>2, <3>3
      DEF ManagerProved!Matches, ManagerProved!StatusAfter, ManagerProved!Start
  <2> QED
    BY <2>1, <2>2, <2>3
<1> QED
  BY <1>1, <1>2, ManagerHolds, WiredAlways, TypedAlways, ClosingAlways, PTL

\* Stored audio whose session is not on record is never passed over in silence:
\* a write of that session is under way, or /health shows an error.
RecordOrError ==
    rows # {} =>
        \/ row[1].status # "absent"
        \/ \E c \in calls : c.session = 1
        \/ health.error

\* With any stores a stored chunk without its session's record is shown.
THEOREM RecordMissed == Spec => []RecordOrError
<1>1. ManagerProved!Spec => []ManagerProved!TypeOK /\ []ManagerProved!SessionOnRecord
  BY ManagerProved!TypeCorrect, ManagerProved!OnRecord
<1>2. Wired /\ Chunked /\ Shown /\ ManagerProved!TypeOK /\ ManagerProved!SessionOnRecord
         => RecordOrError
  <2> SUFFICES ASSUME Wired, Chunked, Shown, ManagerProved!TypeOK,
                      ManagerProved!SessionOnRecord,
                      rows # {}, row[1].status = "absent",
                      \A c \in calls : c.session # 1
               PROVE  health.error
    BY DEF RecordOrError
  <2>1. begun = 1
    BY DEF Chunked, InOnePlace, Shown, ErrorKept, Wired, OneSession
  <2>2. last.session = 1
    BY <2>1, LastEvent DEF LifecycleEvent
  <2>3. storeErrors > 0
    <3>1. 1 \in ManagerProved!Unrecorded
      BY <2>2 DEF ManagerProved!Unrecorded, ManagerProved!Exists
    <3> QED
      BY <3>1, ManagerProved!UnrecordedReported
  <2> QED
    BY <2>3 DEF Shown, ErrorKept
<1> QED
  BY <1>1, <1>2, ManagerHolds, WiredAlways, ChunkedAlways, ShownAlways, PTL

\* The archive of the gateway: what the adapter emitted is accepted, and what
\* the assembler holds, stores and reports is held, stored and reported.
Archive == INSTANCE AudioArchive
    WITH accepted <- Len(frames),
         held <- AssemblerProved!Held,
         stored <- Assembler!FramesOf(rows),
         reported <- Assembler!FramesOf(reported)

\* The gateway implements the archive, from the frames the adapter emits to the
\* rows of the store, with any stores: on the way from fnOnFrame to fnFlush none
\* is dropped, doubled or taken out of order.
THEOREM ArchiveBehind == Spec => Archive!Spec
<1> DEFINE Fed == Len(frames) = Len(ingested)
<1>1. AssemblerProved!Spec => AssemblerProved!KeepsArchive
  BY AssemblerProved!ArchiveKept
<1>2. Chunked => Fed
  BY DEF Chunked, FramesDelivered
<1>3. Fed /\ AssemblerProved!Archive!Init => Archive!Init
  BY DEF AssemblerProved!Archive!Init, Archive!Init, AssemblerProved!Held,
         AssemblerProved!FramesOf, Assembler!FramesOf,
         AssemblerProved!Numbers, Assembler!Numbers
<1>4. Fed /\ Fed' /\ [AssemblerProved!Archive!Next]_(AssemblerProved!Archive!vars)
      => [Archive!Next]_(Archive!vars)
  BY DEF AssemblerProved!Archive!Next, Archive!Next,
         AssemblerProved!Archive!vars, Archive!vars,
         AssemblerProved!Archive!Accept, Archive!Accept,
         AssemblerProved!Archive!Store, Archive!Store,
         AssemblerProved!Archive!Report, Archive!Report,
         AssemblerProved!Archive!Stop, Archive!Stop,
         AssemblerProved!Held, AssemblerProved!FramesOf, Assembler!FramesOf,
         AssemblerProved!Numbers, Assembler!Numbers
<1> QED
  BY <1>1, <1>2, <1>3, <1>4, AssemblerHolds, ChunkedAlways, PTL
  DEF AssemblerProved!KeepsArchive, AssemblerProved!Archive!Spec, Archive!Spec
============================================================================
